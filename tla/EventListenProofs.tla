------------------------- MODULE EventListenProofs -------------------------
(***************************************************************************)
(* What TLAPS proves of EventListen, for any number of events and          *)
(* failures, any limit, backoff and Retry-After, and of the parser it      *)
(* reads the stream with (FrameParserCheck), for any lines and chunks.     *)
(* The parser's lemmas come first and serve both; what a whole stream      *)
(* means to it is the last section.                                        *)
(*                                                                         *)
(* Feed and ProcessEvents are recursive functions of a sequence: what they *)
(* do with one token or event more is derived from their definitions       *)
(* (FeedAppend, ProcessAppend), what they do with a sequence by induction  *)
(* over it.  Induction is the fact that a set of natural numbers has a     *)
(* least element, applied to the numbers for which a claim fails.          *)
(***************************************************************************)
EXTENDS EventListen, FrameParserCheck, SequenceTheorems, WellFoundedInduction, TLAPS

\* Induction over the natural numbers and over sequences, for sets.
LEMMA SetInduction ==
  ASSUME NEW S, 0 \in S, \A n \in Nat : n \in S => n+1 \in S PROVE Nat \subseteq S
<1> SUFFICES ASSUME Nat \ S # {} PROVE FALSE
  OBVIOUS
<1>1. IsWellFoundedOn(OpToRel(<,Nat), Nat)
  BY NatLessThanWellFounded
<1>2. PICK n \in Nat \ S : \A m \in Nat \ S : <<m, n>> \notin OpToRel(<,Nat)
  BY <1>1, WFMin
<1>3. \A m \in Nat \ S : ~(m < n)
  BY <1>2 DEF OpToRel
<1>4. n - 1 \in Nat /\ n - 1 \in S /\ n - 1 + 1 = n
  BY <1>3
<1> QED
  BY <1>4

LEMMA SeqInduction ==
    ASSUME NEW T, NEW S, <<>> \in S, \A s \in Seq(T), e \in T : s \in S => Append(s, e) \in S
    PROVE  Seq(T) \subseteq S
<1> DEFINE N == {n \in Nat : \A s \in Seq(T) : Len(s) = n => s \in S}
<1>1. 0 \in N
  BY EmptySeq
<1>2. ASSUME NEW n \in Nat, n \in N PROVE n + 1 \in N
  <2> SUFFICES ASSUME NEW s \in Seq(T), Len(s) = n + 1 PROVE s \in S
    OBVIOUS
  <2>1. PICK t \in Seq(T), e \in T : s = Append(t, e)
    <3>1. s # <<>>
      BY EmptySeq
    <3> QED
      BY <3>1, SequenceEmptyOrAppend
  <2>2. Len(t) = n
    BY <2>1, AppendProperties, LenProperties
  <2> QED
    BY <1>2, <2>1, <2>2
<1>3. Nat \subseteq N
  <2> HIDE DEF N
  <2> QED
    BY <1>1, <1>2, SetInduction
<1> QED
  BY <1>3, LenProperties

-----------------------------------------------------------------------------
\* The recursion of Feed: f holds what each prefix of s makes of the parser p.
Run(f, p, s) ==
    f = [i \in 0..Len(s) |-> IF i = 0 THEN p ELSE Absorb(f[i - 1], s[i])]

LEMMA FeedIsRun == ASSUME NEW p, NEW s PROVE Feed(p, s) = (CHOOSE f : Run(f, p, s))[Len(s)]
BY DEF Feed, Run

LEMMA RunExists ==
    ASSUME NEW T, NEW p, NEW s \in Seq(T)
    PROVE  \E f : Run(f, p, s)
<1> DEFINE Upto(n) == \E f : f = [i \in 0..n |-> IF i = 0 THEN p ELSE Absorb(f[i - 1], s[i])]
           S == {n \in Nat : Upto(n)}
<1>1. 0 \in S
  <2>1. [i \in 0..0 |-> p]
          = [i \in 0..0 |-> IF i = 0 THEN p ELSE Absorb([j \in 0..0 |-> p][i - 1], s[i])]
    OBVIOUS
  <2> QED
    BY <2>1
<1>2. ASSUME NEW n \in Nat, n \in S PROVE n + 1 \in S
  <2>1. PICK f : f = [i \in 0..n |-> IF i = 0 THEN p ELSE Absorb(f[i - 1], s[i])]
    BY <1>2
  <2> DEFINE g == [i \in 0..(n + 1) |-> IF i = n + 1 THEN Absorb(f[n], s[n + 1]) ELSE f[i]]
  <2>2. \A i \in 0..(n + 1) : g[i] = IF i = 0 THEN p ELSE Absorb(g[i - 1], s[i])
    <3> SUFFICES ASSUME NEW i \in 0..(n + 1)
                 PROVE  g[i] = IF i = 0 THEN p ELSE Absorb(g[i - 1], s[i])
      OBVIOUS
    <3>1. CASE i = 0
      BY <2>1, <3>1
    <3>2. CASE i \in 1..n
      <4>1. g[i] = f[i] /\ g[i - 1] = f[i - 1]
        BY <3>2
      <4>2. f[i] = Absorb(f[i - 1], s[i])
        BY <2>1, <3>2
      <4> QED
        BY <3>2, <4>1, <4>2
    <3>3. CASE i = n + 1
      <4>1. g[i] = Absorb(f[n], s[n + 1]) /\ g[i - 1] = f[n]
        BY <3>3
      <4> QED
        BY <3>3, <4>1
    <3> QED
      BY <3>1, <3>2, <3>3
  <2>3. g = [i \in 0..(n + 1) |-> IF i = 0 THEN p ELSE Absorb(g[i - 1], s[i])]
    BY <2>2
  <2> HIDE DEF g
  <2> QED
    BY <2>3
<1>3. Nat \subseteq S
  <2> HIDE DEF S
  <2> QED
    BY <1>1, <1>2, SetInduction
<1> QED
  BY <1>3 DEF Run

\* s is a prefix of t.
Extends(t, s) == Len(s) <= Len(t) /\ \A i \in 1..Len(s) : s[i] = t[i]

LEMMA RunsAgree ==
    ASSUME NEW T, NEW p, NEW s \in Seq(T), NEW t \in Seq(T), NEW f, NEW g,
           Run(f, p, s), Run(g, p, t), Extends(t, s)
    PROVE  \A i \in 0..Len(s) : f[i] = g[i]
<1> DEFINE S == {n \in Nat : n <= Len(s) => f[n] = g[n]}
<1>1. 0 \in S
  BY DEF Run
<1>2. ASSUME NEW n \in Nat, n \in S PROVE n + 1 \in S
  <2> SUFFICES ASSUME n + 1 <= Len(s) PROVE f[n + 1] = g[n + 1]
    OBVIOUS
  <2>1. /\ n + 1 \in 0..Len(s) /\ n + 1 \in 0..Len(t) /\ n + 1 # 0 /\ (n + 1) - 1 = n
        /\ s[n + 1] = t[n + 1]
    BY DEF Extends
  <2>2. f[n + 1] = Absorb(f[n], s[n + 1]) /\ g[n + 1] = Absorb(g[n], t[n + 1])
    BY <2>1 DEF Run
  <2> QED
    BY <1>2, <2>1, <2>2
<1>3. Nat \subseteq S
  <2> HIDE DEF S
  <2> QED
    BY <1>1, <1>2, SetInduction
<1> QED
  BY <1>3

LEMMA FeedRuns ==
    ASSUME NEW T, NEW p, NEW s \in Seq(T), NEW f, Run(f, p, s)
    PROVE  Feed(p, s) = f[Len(s)]
<1>1. Run((CHOOSE g : Run(g, p, s)), p, s)
  BY RunExists
<1>2. Extends(s, s)
  BY DEF Extends
<1> QED
  BY <1>1, <1>2, FeedIsRun, RunsAgree

LEMMA FeedEmpty == ASSUME NEW p PROVE Feed(p, <<>>) = p
<1>1. PICK f : Run(f, p, <<>>)
  BY RunExists, EmptySeq
<1>2. f[0] = p
  BY <1>1 DEF Run
<1> QED
  BY <1>1, <1>2, FeedRuns, EmptySeq

LEMMA FeedAppend ==
    ASSUME NEW T, NEW p, NEW s \in Seq(T), NEW token \in T
    PROVE  Feed(p, Append(s, token)) = Absorb(Feed(p, s), token)
<1> DEFINE t == Append(s, token)
<1>1. /\ t \in Seq(T) /\ Len(t) = Len(s) + 1 /\ Len(s) \in Nat
      /\ \A i \in 1..Len(s) : s[i] = t[i]
      /\ t[Len(s) + 1] = token
  BY AppendProperties
<1> HIDE DEF t
<1>2. PICK f : Run(f, p, s)
  BY RunExists
<1>3. PICK g : Run(g, p, t)
  BY <1>1, RunExists
<1>4. f[Len(s)] = g[Len(s)]
  <2>1. \A i \in 0..Len(s) : f[i] = g[i]
    <3>1. Extends(t, s)
      BY <1>1 DEF Extends
    <3> QED
      BY <1>1, <1>2, <1>3, <3>1, RunsAgree
  <2> QED
    BY <1>1, <2>1
<1>5. g[Len(s) + 1] = Absorb(g[Len(s)], token)
  BY <1>1, <1>3 DEF Run
<1>6. Feed(p, s) = f[Len(s)] /\ Feed(p, t) = g[Len(s) + 1]
  BY <1>1, <1>2, <1>3, FeedRuns
<1> QED
  BY <1>4, <1>5, <1>6 DEF t

\* A stream means the same in one chunk and in two.
LEMMA FeedConcat ==
    ASSUME NEW T, NEW p, NEW s \in Seq(T), NEW t \in Seq(T)
    PROVE  Feed(p, s \o t) = Feed(Feed(p, s), t)
<1> DEFINE S == {u \in Seq(T) : Feed(p, s \o u) = Feed(Feed(p, s), u)}
<1>1. <<>> \in S
  BY EmptySeq, ConcatEmptySeq, FeedEmpty
<1>2. ASSUME NEW v \in S, NEW token \in T PROVE Append(v, token) \in S
  <2>1. s \o v \in Seq(T) /\ Append(v, token) \in Seq(T)
    BY ConcatProperties, AppendProperties
  <2>2. s \o Append(v, token) = Append(s \o v, token)
    <3>1. <<token>> \in Seq(T)
      OBVIOUS
    <3>2. s \o (v \o <<token>>) = (s \o v) \o <<token>>
      BY <3>1, ConcatAssociative
    <3> QED
      BY <2>1, <3>2, AppendIsConcat
  <2>3. Feed(p, Append(s \o v, token)) = Absorb(Feed(p, s \o v), token)
    <3>1. \A w \in Seq(T) : Feed(p, Append(w, token)) = Absorb(Feed(p, w), token)
      BY FeedAppend
    <3> QED
      BY <2>1, <3>1
  <2>4. Feed(Feed(p, s), Append(v, token)) = Absorb(Feed(Feed(p, s), v), token)
    BY <2>1, FeedAppend
  <2> QED
    BY <2>1, <2>2, <2>3, <2>4
<1>3. Seq(T) \subseteq S
  <2> HIDE DEF S
  <2> QED
    BY <1>1, <1>2, SeqInduction
<1> QED
  BY <1>3

-----------------------------------------------------------------------------
\* The types of the parser.
Value == Seq(Token)
BlockRecord == [id : Value, name : Value, data : Seq(Value)]
Parser ==
    [buffer : Value, id : Value, name : Value, data : Seq(Value), last : Value,
     ready : Seq(BlockRecord)]

Tokens == /\ LF \in Token /\ CR \in Token /\ Colon \in Token /\ IdField \in Token
          /\ EventField \in Token /\ DataField \in Token /\ OtherField \in Token
          /\ \A n \in Nat : Text(n) \in Token

LEMMA TokensAre == Tokens
BY DEF Tokens, Token, LF, CR, Colon, IdField, EventField, DataField, OtherField, Text

LEMMA LineType == ASSUME NEW raw \in Value PROVE Line(raw) \in Value
BY DEF Line, Value, Last, Front

LEMMA DispatchType == ASSUME NEW p \in Parser PROVE Dispatch(p) \in Parser
<1> DEFINE block == [id |-> p.id, name |-> p.name, data |-> p.data]
<1>1. block \in BlockRecord /\ Append(p.ready, block) \in Seq(BlockRecord)
  BY AppendProperties DEF Parser, BlockRecord
<1>2. <<>> \in Value /\ <<>> \in Seq(Value)
  BY DEF Value
<1> QED
  BY <1>1, <1>2 DEF Dispatch, Parser

LEMMA ProcessLineType ==
    ASSUME NEW p \in Parser, NEW line \in Value
    PROVE  ProcessLine(p, line) \in Parser
<1>1. CASE line = <<>>
  BY <1>1, DispatchType DEF ProcessLine
<1>2. CASE line # <<>>
  <2>1. Tail(line) \in Value
    BY <1>2, HeadTailProperties DEF Value
  <2>2. Append(p.data, Tail(line)) \in Seq(Value)
    BY <2>1, AppendProperties DEF Parser
  <2>3. \/ ProcessLine(p, line) = [p EXCEPT !.name = Tail(line)]
        \/ ProcessLine(p, line) = [p EXCEPT !.data = Append(@, Tail(line))]
        \/ ProcessLine(p, line) = [p EXCEPT !.id = Tail(line)]
        \/ ProcessLine(p, line) = p
    BY <1>2 DEF ProcessLine
  <2> QED
    BY <2>1, <2>2, <2>3 DEF Parser
<1> QED
  BY <1>1, <1>2

LEMMA AbsorbType ==
    ASSUME NEW p \in Parser, NEW token \in Token
    PROVE  Absorb(p, token) \in Parser
<1>1. p.buffer \in Value /\ <<>> \in Value /\ Append(p.buffer, token) \in Value
  BY AppendProperties, EmptySeq DEF Parser, Value
<1>2. [p EXCEPT !.buffer = <<>>] \in Parser /\ [p EXCEPT !.buffer = Append(@, token)] \in Parser
  BY <1>1 DEF Parser
<1>3. Line(p.buffer) \in Value
  BY <1>1, LineType
<1> QED
  BY <1>2, <1>3, ProcessLineType DEF Absorb

LEMMA FeedType ==
    ASSUME NEW p \in Parser, NEW s \in Value
    PROVE  Feed(p, s) \in Parser
<1> DEFINE S == {u \in Value : Feed(p, u) \in Parser}
<1>1. <<>> \in S
  BY FeedEmpty, EmptySeq DEF Value
<1>2. ASSUME NEW u \in Value, NEW token \in Token, u \in S PROVE Append(u, token) \in S
  BY <1>2, FeedAppend, AbsorbType, AppendProperties DEF Value
<1>3. Seq(Token) \subseteq S
  <2> HIDE DEF S
  <2> QED
    BY <1>1, <1>2, SeqInduction DEF Value
<1> QED
  BY <1>3 DEF Value

\* The events that were ready before do not influence how the parser goes on.
Prepend(events, p) == [p EXCEPT !.ready = events \o @]

LEMMA DispatchPrepend ==
    ASSUME NEW p \in Parser, NEW r \in Seq(BlockRecord)
    PROVE  Dispatch(Prepend(r, p)) = Prepend(r, Dispatch(p))
<1> DEFINE block == [id |-> p.id, name |-> p.name, data |-> p.data]
<1>1. block \in BlockRecord /\ p.ready \in Seq(BlockRecord) /\ <<block>> \in Seq(BlockRecord)
  BY DEF Parser, BlockRecord
<1>2. Append(r \o p.ready, block) = r \o Append(p.ready, block)
  <2>1. r \o p.ready \in Seq(BlockRecord)
    BY <1>1, ConcatProperties
  <2>2. (r \o p.ready) \o <<block>> = r \o (p.ready \o <<block>>)
    <3>1. \A a, b \in Seq(BlockRecord) : (r \o a) \o b = r \o (a \o b)
      BY ConcatAssociative
    <3> QED
      BY <1>1, <3>1
  <2> QED
    BY <1>1, <2>1, <2>2, AppendIsConcat
<1>3. Prepend(r, p).ready = r \o p.ready
  BY DEF Prepend, Parser
<1> QED
  BY <1>1, <1>2, <1>3 DEF Dispatch, Prepend, Parser

LEMMA ProcessLinePrepend ==
    ASSUME NEW p \in Parser, NEW r \in Seq(BlockRecord), NEW line \in Value
    PROVE  ProcessLine(Prepend(r, p), line) = Prepend(r, ProcessLine(p, line))
<1>1. CASE line = <<>>
  BY <1>1, DispatchPrepend DEF ProcessLine
<1>2. CASE line # <<>>
  <2> DEFINE v == Tail(line)
             w == Append(p.data, v)
  <2>1. Prepend(r, p).data = p.data
    BY DEF Prepend, Parser
  <2>2. /\ [Prepend(r, p) EXCEPT !.name = v] = Prepend(r, [p EXCEPT !.name = v])
        /\ [Prepend(r, p) EXCEPT !.id = v] = Prepend(r, [p EXCEPT !.id = v])
        /\ [Prepend(r, p) EXCEPT !.data = w] = Prepend(r, [p EXCEPT !.data = w])
    <3> HIDE DEF v, w
    <3> QED
      BY DEF Prepend, Parser
  <2> QED
    BY <1>2, <2>1, <2>2 DEF ProcessLine
<1> QED
  BY <1>1, <1>2

LEMMA AbsorbPrepend ==
    ASSUME NEW p \in Parser, NEW r \in Seq(BlockRecord), NEW token \in Token
    PROVE  Absorb(Prepend(r, p), token) = Prepend(r, Absorb(p, token))
<1> DEFINE q == [p EXCEPT !.buffer = <<>>]
<1>1. q \in Parser /\ Line(p.buffer) \in Value
  <2>1. p.buffer \in Value /\ <<>> \in Value
    BY EmptySeq DEF Parser, Value
  <2> QED
    BY <2>1, LineType DEF Parser
<1>2. [Prepend(r, p) EXCEPT !.buffer = <<>>] = Prepend(r, q) /\ Prepend(r, p).buffer = p.buffer
  BY DEF Prepend, Parser
<1>3. [Prepend(r, p) EXCEPT !.buffer = Append(@, token)]
        = Prepend(r, [p EXCEPT !.buffer = Append(@, token)])
  <2> DEFINE w == Append(p.buffer, token)
  <2>1. [Prepend(r, p) EXCEPT !.buffer = w] = Prepend(r, [p EXCEPT !.buffer = w])
    <3> HIDE DEF w
    <3> QED
      BY DEF Prepend, Parser
  <2> QED
    BY <1>2, <2>1
<1>4. ProcessLine(Prepend(r, q), Line(p.buffer)) = Prepend(r, ProcessLine(q, Line(p.buffer)))
  BY <1>1, ProcessLinePrepend
<1> QED
  BY <1>2, <1>3, <1>4 DEF Absorb

LEMMA FeedPrepend ==
    ASSUME NEW p \in Parser, NEW r \in Seq(BlockRecord), NEW s \in Value
    PROVE  Feed(Prepend(r, p), s) = Prepend(r, Feed(p, s))
<1> DEFINE S == {u \in Value : Feed(Prepend(r, p), u) = Prepend(r, Feed(p, u))}
<1>1. <<>> \in S
  BY FeedEmpty, EmptySeq DEF Value
<1>2. ASSUME NEW u \in Value, NEW token \in Token, u \in S PROVE Append(u, token) \in S
  <2>1. Feed(p, u) \in Parser /\ Append(u, token) \in Value
    BY FeedType, AppendProperties DEF Value
  <2>2. Feed(p, Append(u, token)) = Absorb(Feed(p, u), token)
    BY FeedAppend DEF Value
  <2>3. Feed(Prepend(r, p), Append(u, token)) = Absorb(Feed(Prepend(r, p), u), token)
    BY FeedAppend DEF Value
  <2> QED
    BY <1>2, <2>1, <2>2, <2>3, AbsorbPrepend
<1>3. Seq(Token) \subseteq S
  <2> HIDE DEF S
  <2> QED
    BY <1>1, <1>2, SeqInduction DEF Value
<1> QED
  BY <1>3 DEF Value

-----------------------------------------------------------------------------
\* What the parser makes of the lines and frames the server writes.
LEMMA FeedToken ==
    ASSUME NEW p, NEW s \in Value, NEW token \in Token, NEW t, t = Append(s, token)
    PROVE  Feed(p, t) = Absorb(Feed(p, s), token)
BY FeedAppend DEF Value

LEMMA FeedOne ==
    ASSUME NEW p, NEW a \in Token
    PROVE  Feed(p, <<a>>) = Absorb(p, a)
<1> DEFINE s == <<>>
           t == <<a>>
<1>1. s \in Value /\ t = Append(s, a)
  BY DEF Value
<1>2. Feed(p, s) = p
  BY FeedEmpty
<1> HIDE DEF s, t
<1>3. Feed(p, t) = Absorb(Feed(p, s), a)
  BY <1>1, FeedToken
<1> QED
  BY <1>2, <1>3 DEF t

LEMMA FeedThree ==
    ASSUME NEW p, NEW a \in Token, NEW b \in Token, NEW c \in Token
    PROVE  Feed(p, <<a, b, c>>) = Absorb(Absorb(Absorb(p, a), b), c)
<1> DEFINE s == <<a>>
           t == <<a, b>>
           u == <<a, b, c>>
<1>1. s \in Value /\ t \in Value /\ t = Append(s, b) /\ u = Append(t, c)
  BY DEF Value
<1>2. Feed(p, s) = Absorb(p, a)
  BY FeedOne
<1> HIDE DEF s, t, u
<1>3. Feed(p, t) = Absorb(Feed(p, s), b)
  BY <1>1, FeedToken
<1>4. Feed(p, u) = Absorb(Feed(p, t), c)
  BY <1>1, FeedToken
<1> QED
  BY <1>2, <1>3, <1>4 DEF u

\* One line of the stream.
LEMMA FeedLine ==
    ASSUME NEW p \in Parser, p.buffer = <<>>, NEW field \in Token, field # LF, NEW n \in Nat
    PROVE  Feed(p, <<field, Text(n), LF>>) = ProcessLine(p, <<field, Text(n)>>)
<1>1. Text(n) \in Token /\ LF \in Token /\ Text(n) # LF /\ Text(n) # CR
  BY TokensAre DEF Tokens, Text, LF, CR
<1>2. Absorb(p, field) = [p EXCEPT !.buffer = <<field>>]
  BY DEF Absorb, Parser
<1>3. Absorb([p EXCEPT !.buffer = <<field>>], Text(n)) = [p EXCEPT !.buffer = <<field, Text(n)>>]
  <2>1. Append(<<field>>, Text(n)) = <<field, Text(n)>>
    <3>1. \A a, b \in Token : <<a, b>> = Append(<<a>>, b)
      OBVIOUS
    <3> QED
      BY <1>1, <3>1
  <2>2. [p EXCEPT !.buffer = <<field>>].buffer = <<field>>
    BY DEF Parser
  <2>3. \A v : [[p EXCEPT !.buffer = <<field>>] EXCEPT !.buffer = v] = [p EXCEPT !.buffer = v]
    BY DEF Parser
  <2> QED
    BY <1>1, <2>1, <2>2, <2>3 DEF Absorb
<1>4. Line(<<field, Text(n)>>) = <<field, Text(n)>>
  BY <1>1 DEF Line, Last
<1>5. Absorb([p EXCEPT !.buffer = <<field, Text(n)>>], LF) = ProcessLine(p, <<field, Text(n)>>)
  <2>1. [[p EXCEPT !.buffer = <<field, Text(n)>>] EXCEPT !.buffer = <<>>] = p
    BY DEF Parser
  <2>2. [p EXCEPT !.buffer = <<field, Text(n)>>].buffer = <<field, Text(n)>>
    BY DEF Parser
  <2> QED
    BY <1>4, <2>1, <2>2 DEF Absorb
<1> QED
  BY <1>1, <1>2, <1>3, <1>5, FeedThree

\* A blank line.
LEMMA FeedBlank ==
    ASSUME NEW p \in Parser, p.buffer = <<>>
    PROVE  Feed(p, <<LF>>) = Dispatch(p)
<1>1. [p EXCEPT !.buffer = <<>>] = p /\ Line(<<>>) = <<>>
  BY DEF Parser, Line
<1>2. Absorb(p, LF) = ProcessLine(p, <<>>)
  BY <1>1 DEF Absorb
<1> QED
  BY <1>2, FeedOne, TokensAre DEF Tokens, ProcessLine

LEMMA FieldLines ==
    ASSUME NEW p \in Parser, NEW n \in Nat
    PROVE  /\ ProcessLine(p, <<IdField, Text(n)>>) = [p EXCEPT !.id = <<Text(n)>>]
           /\ ProcessLine(p, <<EventField, Text(n)>>) = [p EXCEPT !.name = <<Text(n)>>]
           /\ ProcessLine(p, <<DataField, Text(n)>>) = [p EXCEPT !.data = Append(@, <<Text(n)>>)]
<1>1. /\ IdField # EventField /\ IdField # DataField /\ EventField # DataField
      /\ IdField # LF /\ EventField # LF /\ DataField # LF
  BY DEF IdField, EventField, DataField, LF
<1>2. \A f : <<f, Text(n)>> # <<>> /\ Head(<<f, Text(n)>>) = f /\ Tail(<<f, Text(n)>>) = <<Text(n)>>
  OBVIOUS
<1> QED
  BY <1>1, <1>2 DEF ProcessLine

\* The parser is between two blocks.
Clean(p) == p \in Parser /\ p.buffer = <<>> /\ p.id = <<>> /\ p.name = <<>> /\ p.data = <<>>

LineTokens(field, n) == <<field, Text(n), LF>>

LEMMA LinesType ==
    ASSUME NEW n \in Nat, NEW field \in {IdField, EventField, DataField}
    PROVE  LineTokens(field, n) \in Value /\ <<LF>> \in Value
BY TokensAre DEF Tokens, LineTokens, Value

LEMMA FieldsAre ==
    /\ IdField \in Token /\ DataField \in Token /\ EventField \in Token
    /\ IdField # LF /\ DataField # LF /\ EventField # LF
BY TokensAre DEF Tokens, IdField, DataField, EventField, LF

LEMMA FeedId ==
    ASSUME NEW p \in Parser, p.buffer = <<>>, NEW n \in Nat
    PROVE  Feed(p, LineTokens(IdField, n)) = [p EXCEPT !.id = <<Text(n)>>]
<1>1. Feed(p, <<IdField, Text(n), LF>>) = ProcessLine(p, <<IdField, Text(n)>>)
  BY FieldsAre, FeedLine
<1>2. ProcessLine(p, <<IdField, Text(n)>>) = [p EXCEPT !.id = <<Text(n)>>]
  BY FieldLines
<1> QED
  BY <1>1, <1>2, Zenon DEF LineTokens

LEMMA FeedName ==
    ASSUME NEW p \in Parser, p.buffer = <<>>, NEW n \in Nat
    PROVE  Feed(p, LineTokens(EventField, n)) = [p EXCEPT !.name = <<Text(n)>>]
<1>1. Feed(p, <<EventField, Text(n), LF>>) = ProcessLine(p, <<EventField, Text(n)>>)
  BY FieldsAre, FeedLine
<1>2. ProcessLine(p, <<EventField, Text(n)>>) = [p EXCEPT !.name = <<Text(n)>>]
  BY FieldLines
<1> QED
  BY <1>1, <1>2, Zenon DEF LineTokens

LEMMA FeedData ==
    ASSUME NEW p \in Parser, p.buffer = <<>>, p.data = <<>>, NEW n \in Nat
    PROVE  Feed(p, LineTokens(DataField, n)) = [p EXCEPT !.data = <<<<Text(n)>>>>]
<1>1. Feed(p, <<DataField, Text(n), LF>>) = ProcessLine(p, <<DataField, Text(n)>>)
  BY FieldsAre, FeedLine
<1>2. ProcessLine(p, <<DataField, Text(n)>>) = [p EXCEPT !.data = Append(@, <<Text(n)>>)]
  BY FieldLines
<1>3. \A v \in Value : <<v>> = Append(<<>>, v)
  OBVIOUS
<1>4. <<Text(n)>> \in Value
  BY TokensAre DEF Tokens, Value
<1>5. [p EXCEPT !.data = Append(@, <<Text(n)>>)] = [p EXCEPT !.data = <<<<Text(n)>>>>]
  BY <1>3, <1>4, Zenon
<1> QED
  BY <1>1, <1>2, <1>5, Zenon DEF LineTokens

LEMMA FeedJoin ==
    \A p : \A s, t \in Value : s \o t \in Value /\ Feed(p, s \o t) = Feed(Feed(p, s), t)
BY FeedConcat, ConcatProperties DEF Value

LEMMA FeedLines ==
    ASSUME NEW p, NEW a \in Value, NEW b \in Value, NEW c \in Value
    PROVE  /\ (a \o b) \o c \in Value
           /\ Feed(p, (a \o b) \o c) = Feed(Feed(Feed(p, a), b), c)
<1>1. a \o b \in Value /\ Feed(p, a \o b) = Feed(Feed(p, a), b)
  BY FeedJoin
<1> DEFINE ab == a \o b
<1> HIDE DEF ab
<1>2. ab \in Value /\ Feed(p, ab) = Feed(Feed(p, a), b)
  BY <1>1 DEF ab
<1>3. ab \o c \in Value /\ Feed(p, ab \o c) = Feed(Feed(p, ab), c)
  BY <1>2, FeedJoin
<1> QED
  BY <1>2, <1>3 DEF ab

\* The tokens of a line, of a frame and of a notice, and how lines are put
\* together.
Triple(a, b, c) == <<a, b, c>>
Single(c) == <<c>>
FrameShape(a, b, c, d) == <<a, b, c, d, b, c, c>>
NoticeShape(a, b, c, d, e) == <<a, b, c, d, b, c, e, b, c, c>>
Glue3(s, t, u) == (s \o t) \o u
Glue(s, t, u, v) == ((s \o t) \o u) \o v

LEMMA PlainIs ==
    \A a, b, c, d \in Token :
        /\ FrameShape(a, b, c, d) \in Value
        /\ FrameShape(a, b, c, d) = Glue3(Triple(a, b, c), Triple(d, b, c), Single(c))
BY DEF FrameShape, Triple, Single, Glue3, Value

LEMMA FrameIs ==
    ASSUME NEW e \in Nat
    PROVE  /\ Frame(e) \in Value
           /\ Frame(e) = (LineTokens(IdField, e) \o LineTokens(DataField, e)) \o <<LF>>
<1>1. IdField \in Token /\ Text(e) \in Token /\ LF \in Token /\ DataField \in Token
  BY TokensAre DEF Tokens
<1>2. \A f : LineTokens(f, e) = Triple(f, Text(e), LF)
  BY Zenon DEF LineTokens, Triple
<1>3. Frame(e) = FrameShape(IdField, Text(e), LF, DataField)
  BY Zenon DEF Frame, FrameShape
<1>4. Single(LF) = <<LF>>
  BY Zenon DEF Single
<1>5. /\ FrameShape(IdField, Text(e), LF, DataField) \in Value
      /\ FrameShape(IdField, Text(e), LF, DataField)
           = Glue3(Triple(IdField, Text(e), LF), Triple(DataField, Text(e), LF), Single(LF))
  BY <1>1, PlainIs
<1>6. Frame(e) = Glue3(LineTokens(IdField, e), LineTokens(DataField, e), <<LF>>)
  BY <1>2, <1>3, <1>4, <1>5
<1> QED
  BY <1>3, <1>5, <1>6, Zenon DEF Glue3

\* A frame between two blocks becomes one event.
LEMMA FeedFrame ==
    ASSUME NEW p, Clean(p), NEW e \in Nat
    PROVE  Feed(p, Frame(e)) = [p EXCEPT !.ready = Append(@, Parsed(e)), !.last = <<Text(e)>>]
<1> DEFINE q == [p EXCEPT !.id = <<Text(e)>>]
           r == [q EXCEPT !.data = <<<<Text(e)>>>>]
           idLine == LineTokens(IdField, e)
           dataLine == LineTokens(DataField, e)
           blank == <<LF>>
<1>1. <<Text(e)>> \in Value /\ <<<<Text(e)>>>> \in Seq(Value)
  BY TokensAre DEF Tokens, Value
<1>2. /\ p \in Parser /\ q \in Parser /\ r \in Parser
      /\ q.buffer = <<>> /\ r.buffer = <<>> /\ q.data = <<>>
  BY <1>1 DEF Clean, Parser
<1>3. Feed(p, idLine) = q
  BY FeedId DEF Clean
<1>4. Feed(q, dataLine) = r
  BY <1>2, FeedData
<1>5. Feed(r, blank) = Dispatch(r)
  BY <1>2, FeedBlank
<1>6. idLine \in Value /\ dataLine \in Value /\ blank \in Value
  BY LinesType
<1>7. Frame(e) = (idLine \o dataLine) \o blank
  BY FrameIs
<1>9. Feed(p, Frame(e)) = Dispatch(r)
  <2>1. Feed(p, Frame(e)) = Feed(Feed(Feed(p, idLine), dataLine), blank)
    BY <1>6, <1>7, FeedLines
  <2> QED
    BY <1>3, <1>4, <1>5, <2>1
<1>10. /\ r.id = <<Text(e)>> /\ r.name = <<>> /\ r.data = <<<<Text(e)>>>>
       /\ r.data # <<>> /\ r.id # <<>>
  BY DEF Clean, Parser
<1>11. Dispatch(r) = [r EXCEPT !.ready = Append(@, Parsed(e)), !.last = <<Text(e)>>,
                              !.id = <<>>, !.name = <<>>, !.data = <<>>]
  BY <1>10 DEF Dispatch, Parsed
<1>12. Dispatch(r) = [p EXCEPT !.ready = Append(@, Parsed(e)), !.last = <<Text(e)>>]
  BY <1>11 DEF Clean, Parser
<1> QED
  BY <1>9, <1>12

LEMMA BlockIs ==
    \A a, b, c, d, e \in Token :
        NoticeShape(a, b, c, d, e) = Glue(Triple(a, b, c), Triple(d, b, c), Triple(e, b, c), Single(c))
BY DEF NoticeShape, Triple, Single, Glue

LEMMA NoticeLines ==
    ASSUME Notice \in Nat
    PROVE  NoticeFrame = Glue(LineTokens(EventField, Notice), LineTokens(IdField, Notice),
                              LineTokens(DataField, Notice), <<LF>>)
<1>1. /\ IdField \in Token /\ Text(Notice) \in Token /\ LF \in Token
      /\ DataField \in Token /\ EventField \in Token
  BY TokensAre DEF Tokens
<1>2. \A f : LineTokens(f, Notice) = Triple(f, Text(Notice), LF)
  BY Zenon DEF LineTokens, Triple
<1>3. NoticeFrame = NoticeShape(EventField, Text(Notice), LF, IdField, DataField)
  BY Zenon DEF NoticeFrame, NoticeShape
<1>4. NoticeShape(EventField, Text(Notice), LF, IdField, DataField)
        = Glue(Triple(EventField, Text(Notice), LF), Triple(IdField, Text(Notice), LF),
               Triple(DataField, Text(Notice), LF), Single(LF))
  BY <1>1, BlockIs
<1>5. Single(LF) = <<LF>>
  BY Zenon DEF Single
<1> QED
  BY <1>2, <1>3, <1>4, <1>5

\* A notice becomes one event, a keep-alive none.
LEMMA FeedNotice ==
    ASSUME NEW p, Clean(p)
    PROVE  /\ NoticeFrame \in Value
           /\ Feed(p, NoticeFrame)
                = [p EXCEPT !.ready = Append(@, ParsedNotice), !.last = <<Text(Notice)>>]
<1> DEFINE v == <<Text(Notice)>>
           q == [p EXCEPT !.name = v]
           r == [q EXCEPT !.id = v]
           t == [r EXCEPT !.data = <<v>>]
           nameLine == LineTokens(EventField, Notice)
           idLine == LineTokens(IdField, Notice)
           dataLine == LineTokens(DataField, Notice)
           blank == <<LF>>
<1>1. Notice \in Nat
  BY BoundsAssumption DEF Notice
<1>2. v \in Value /\ <<v>> \in Seq(Value)
  BY <1>1, TokensAre DEF Tokens, Value
<1>3. /\ p \in Parser /\ q \in Parser /\ r \in Parser /\ t \in Parser
      /\ p.buffer = <<>> /\ q.buffer = <<>> /\ r.buffer = <<>> /\ t.buffer = <<>> /\ r.data = <<>>
  <2> HIDE DEF v
  <2> QED
    BY <1>2 DEF Clean, Parser
<1>4. Feed(p, nameLine) = q
  BY <1>1, <1>3, FeedName
<1>5. Feed(q, idLine) = r
  BY <1>1, <1>3, FeedId
<1>6. Feed(r, dataLine) = t
  BY <1>1, <1>3, FeedData
<1>7. Feed(t, blank) = Dispatch(t)
  BY <1>3, FeedBlank
<1>8. nameLine \in Value /\ idLine \in Value /\ dataLine \in Value /\ blank \in Value
  BY <1>1, LinesType
<1>9. NoticeFrame = ((nameLine \o idLine) \o dataLine) \o blank
  BY <1>1, NoticeLines, Zenon DEF Glue
<1>10. NoticeFrame \in Value /\ Feed(p, NoticeFrame) = Dispatch(t)
  <2> DEFINE front == nameLine \o idLine
  <2>1. front \in Value /\ Feed(p, front) = Feed(Feed(p, nameLine), idLine)
    BY <1>8, FeedJoin
  <2>2. NoticeFrame = (front \o dataLine) \o blank
    BY <1>9
  <2> HIDE DEF front
  <2>3. NoticeFrame \in Value /\ Feed(p, NoticeFrame) = Feed(Feed(Feed(p, front), dataLine), blank)
    BY <1>8, <2>1, <2>2, FeedLines
  <2> QED
    BY <1>4, <1>5, <1>6, <1>7, <2>1, <2>3
<1>11. t.id = v /\ t.name = v /\ t.data = <<v>> /\ t.data # <<>> /\ t.id # <<>>
  BY DEF Clean, Parser
<1>12. Dispatch(t) = [t EXCEPT !.ready = Append(@, ParsedNotice), !.last = v,
                               !.id = <<>>, !.name = <<>>, !.data = <<>>]
  BY <1>11 DEF Dispatch, ParsedNotice, NoticeName
<1>13. Dispatch(t) = [p EXCEPT !.ready = Append(@, ParsedNotice), !.last = v]
  BY <1>12 DEF Clean, Parser
<1> QED
  BY <1>10, <1>13

LEMMA FeedKeepAlive ==
    ASSUME NEW p, Clean(p)
    PROVE  KeepAlive \in Value /\ Feed(p, KeepAlive) = p
<1> DEFINE q == [p EXCEPT !.buffer = <<Colon>>]
           s == <<Colon>>
<1>1. Colon \in Token /\ LF \in Token /\ Colon # LF /\ Colon # CR
  BY TokensAre DEF Tokens, Colon, LF, CR
<1>2. Colon # EventField /\ Colon # DataField /\ Colon # IdField
  BY DEF Colon, EventField, DataField, IdField
<1>3. Absorb(p, Colon) = q
  BY <1>1 DEF Absorb, Clean, Parser
<1>4. s \in Value /\ KeepAlive = Append(s, LF) /\ KeepAlive \in Value
  <2>1. \A a, b \in Token : <<a, b>> = Append(<<a>>, b)
    OBVIOUS
  <2>2. <<Colon, LF>> \in Value
    BY <1>1 DEF Value
  <2> QED
    BY <1>1, <2>1, <2>2 DEF Value, KeepAlive
<1>5. Feed(p, s) = q
  BY <1>1, <1>3, FeedOne
<1>6. Absorb(q, LF) = p
  <2>1. [q EXCEPT !.buffer = <<>>] = p /\ q.buffer = s
    BY DEF Clean, Parser
  <2>2. Line(s) = s
    BY <1>1 DEF Line, Last
  <2>3. s # <<>> /\ Head(s) = Colon
    OBVIOUS
  <2>4. ProcessLine(p, s) = p
    <3> HIDE DEF s
    <3> QED
      BY <1>2, <2>3 DEF ProcessLine
  <2> QED
    BY <2>1, <2>2, <2>4 DEF Absorb
<1>7. Feed(p, KeepAlive) = Absorb(Feed(p, s), LF)
  <2> HIDE DEF s
  <2> QED
    BY <1>1, <1>4, FeedToken
<1> QED
  BY <1>4, <1>5, <1>6, <1>7

-----------------------------------------------------------------------------
\* The recursion of ProcessEvents, in the same way.
DeliveryRun(f, acc, s) ==
    f = [i \in 0..Len(s) |-> IF i = 0 THEN acc ELSE ProcessEvent(f[i - 1], s[i])]

LEMMA ProcessIsDelivery ==
    ASSUME NEW acc, NEW s
    PROVE  ProcessEvents(acc, s) = (CHOOSE f : DeliveryRun(f, acc, s))[Len(s)]
BY DEF ProcessEvents, DeliveryRun

LEMMA DeliveryExists ==
    ASSUME NEW T, NEW acc, NEW s \in Seq(T)
    PROVE  \E f : DeliveryRun(f, acc, s)
<1> DEFINE Upto(n) == \E f : f = [i \in 0..n |-> IF i = 0 THEN acc ELSE ProcessEvent(f[i - 1], s[i])]
           S == {n \in Nat : Upto(n)}
<1>1. 0 \in S
  <2>1. [i \in 0..0 |-> acc]
          = [i \in 0..0 |-> IF i = 0 THEN acc ELSE ProcessEvent([j \in 0..0 |-> acc][i - 1], s[i])]
    OBVIOUS
  <2> QED
    BY <2>1
<1>2. ASSUME NEW n \in Nat, n \in S PROVE n + 1 \in S
  <2>1. PICK f : f = [i \in 0..n |-> IF i = 0 THEN acc ELSE ProcessEvent(f[i - 1], s[i])]
    BY <1>2
  <2> DEFINE g == [i \in 0..(n + 1) |-> IF i = n + 1 THEN ProcessEvent(f[n], s[n + 1]) ELSE f[i]]
  <2>2. \A i \in 0..(n + 1) : g[i] = IF i = 0 THEN acc ELSE ProcessEvent(g[i - 1], s[i])
    <3> SUFFICES ASSUME NEW i \in 0..(n + 1)
                 PROVE  g[i] = IF i = 0 THEN acc ELSE ProcessEvent(g[i - 1], s[i])
      OBVIOUS
    <3>1. CASE i = 0
      BY <2>1, <3>1
    <3>2. CASE i \in 1..n
      <4>1. g[i] = f[i] /\ g[i - 1] = f[i - 1]
        BY <3>2
      <4>2. f[i] = ProcessEvent(f[i - 1], s[i])
        BY <2>1, <3>2
      <4> QED
        BY <3>2, <4>1, <4>2
    <3>3. CASE i = n + 1
      <4>1. g[i] = ProcessEvent(f[n], s[n + 1]) /\ g[i - 1] = f[n]
        BY <3>3
      <4> QED
        BY <3>3, <4>1
    <3> QED
      BY <3>1, <3>2, <3>3
  <2>3. g = [i \in 0..(n + 1) |-> IF i = 0 THEN acc ELSE ProcessEvent(g[i - 1], s[i])]
    BY <2>2
  <2> HIDE DEF g
  <2> QED
    BY <2>3
<1>3. Nat \subseteq S
  <2> HIDE DEF S
  <2> QED
    BY <1>1, <1>2, SetInduction
<1> QED
  BY <1>3 DEF DeliveryRun

LEMMA DeliveriesAgree ==
    ASSUME NEW T, NEW acc, NEW s \in Seq(T), NEW t \in Seq(T), NEW f, NEW g,
           DeliveryRun(f, acc, s), DeliveryRun(g, acc, t), Extends(t, s)
    PROVE  \A i \in 0..Len(s) : f[i] = g[i]
<1> DEFINE S == {n \in Nat : n <= Len(s) => f[n] = g[n]}
<1>1. 0 \in S
  BY DEF DeliveryRun
<1>2. ASSUME NEW n \in Nat, n \in S PROVE n + 1 \in S
  <2> SUFFICES ASSUME n + 1 <= Len(s) PROVE f[n + 1] = g[n + 1]
    OBVIOUS
  <2>1. /\ n + 1 \in 0..Len(s) /\ n + 1 \in 0..Len(t) /\ n + 1 # 0 /\ (n + 1) - 1 = n
        /\ s[n + 1] = t[n + 1]
    BY DEF Extends
  <2>2. f[n + 1] = ProcessEvent(f[n], s[n + 1]) /\ g[n + 1] = ProcessEvent(g[n], t[n + 1])
    BY <2>1 DEF DeliveryRun
  <2> QED
    BY <1>2, <2>1, <2>2
<1>3. Nat \subseteq S
  <2> HIDE DEF S
  <2> QED
    BY <1>1, <1>2, SetInduction
<1> QED
  BY <1>3

LEMMA ProcessDelivers ==
    ASSUME NEW T, NEW acc, NEW s \in Seq(T), NEW f, DeliveryRun(f, acc, s)
    PROVE  ProcessEvents(acc, s) = f[Len(s)]
<1>1. DeliveryRun((CHOOSE g : DeliveryRun(g, acc, s)), acc, s)
  BY DeliveryExists
<1>2. Extends(s, s)
  BY DEF Extends
<1> QED
  BY <1>1, <1>2, ProcessIsDelivery, DeliveriesAgree

LEMMA ProcessNone == ASSUME NEW acc PROVE ProcessEvents(acc, <<>>) = acc
<1>1. PICK f : DeliveryRun(f, acc, <<>>)
  BY DeliveryExists, EmptySeq
<1>2. f[0] = acc
  BY <1>1 DEF DeliveryRun
<1> QED
  BY <1>1, <1>2, ProcessDelivers, EmptySeq

LEMMA ProcessAppend ==
    ASSUME NEW T, NEW acc, NEW s \in Seq(T), NEW event \in T
    PROVE  ProcessEvents(acc, Append(s, event)) = ProcessEvent(ProcessEvents(acc, s), event)
<1> DEFINE t == Append(s, event)
<1>1. /\ t \in Seq(T) /\ Len(t) = Len(s) + 1 /\ Len(s) \in Nat
      /\ \A i \in 1..Len(s) : s[i] = t[i]
      /\ t[Len(s) + 1] = event
  BY AppendProperties
<1> HIDE DEF t
<1>2. PICK f : DeliveryRun(f, acc, s)
  BY DeliveryExists
<1>3. PICK g : DeliveryRun(g, acc, t)
  BY <1>1, DeliveryExists
<1>4. f[Len(s)] = g[Len(s)]
  <2>1. \A i \in 0..Len(s) : f[i] = g[i]
    <3>1. Extends(t, s)
      BY <1>1 DEF Extends
    <3> QED
      BY <1>1, <1>2, <1>3, <3>1, DeliveriesAgree
  <2> QED
    BY <1>1, <2>1
<1>5. g[Len(s) + 1] = ProcessEvent(g[Len(s)], event)
  BY <1>1, <1>3 DEF DeliveryRun
<1>6. ProcessEvents(acc, s) = f[Len(s)] /\ ProcessEvents(acc, t) = g[Len(s) + 1]
  BY <1>1, <1>2, <1>3, ProcessDelivers
<1> QED
  BY <1>4, <1>5, <1>6 DEF t

-----------------------------------------------------------------------------
\* The blocks of the events after k up to m.
Between(k, m) == [i \in 1..(m - k) |-> Parsed(k + i)]

LEMMA ParsedType ==
    /\ \A e \in Nat : Parsed(e) \in BlockRecord
    /\ Notice \in Nat /\ ParsedNotice \in BlockRecord
<1>1. \A e \in Nat : <<Text(e)>> \in Value /\ <<<<Text(e)>>>> \in Seq(Value) /\ <<>> \in Value
  BY TokensAre DEF Tokens, Value
<1>2. Notice \in Nat
  BY BoundsAssumption DEF Notice
<1> QED
  BY <1>1, <1>2 DEF Parsed, ParsedNotice, NoticeName, BlockRecord

LEMMA BetweenType ==
    ASSUME NEW k \in Nat, NEW m \in Nat, k <= m
    PROVE  /\ Between(k, m) \in Seq(BlockRecord)
           /\ Len(Between(k, m)) = m - k
           /\ \A i \in 1..(m - k) : Between(k, m)[i] = Parsed(k + i)
<1>1. \A i \in 1..(m - k) : Parsed(k + i) \in BlockRecord
  BY ParsedType
<1> QED
  BY <1>1 DEF Between

LEMMA BetweenNone == ASSUME NEW k \in Nat PROVE Between(k, k) = <<>>
BY BetweenType, EmptySeq

LEMMA BetweenAppend ==
    ASSUME NEW k \in Nat, NEW m \in Nat, k <= m
    PROVE  Between(k, m + 1) = Append(Between(k, m), Parsed(m + 1))
<1> DEFINE s == Between(k, m)
           t == Between(k, m + 1)
           u == Append(s, Parsed(m + 1))
<1>1. /\ s \in Seq(BlockRecord) /\ Len(s) = m - k
      /\ \A i \in 1..(m - k) : s[i] = Parsed(k + i)
  BY BetweenType
<1>2. /\ t \in Seq(BlockRecord) /\ Len(t) = m + 1 - k
      /\ \A i \in 1..(m + 1 - k) : t[i] = Parsed(k + i)
  BY BetweenType
<1> HIDE DEF s, t
<1>3. /\ u \in Seq(BlockRecord) /\ Len(u) = m - k + 1
      /\ \A i \in 1..(m - k) : u[i] = s[i]
      /\ u[m - k + 1] = Parsed(m + 1)
  BY <1>1, ParsedType, AppendProperties
<1> HIDE DEF u
<1>4. Len(t) = Len(u) /\ \A i \in 1..Len(t) : t[i] = u[i]
  <2>1. Len(t) = m - k + 1 /\ k + (m - k + 1) = m + 1
    BY <1>2
  <2>2. ASSUME NEW i \in 1..(m - k + 1) PROVE t[i] = u[i]
    <3>1. CASE i \in 1..(m - k)
      BY <1>1, <1>2, <1>3, <3>1
    <3>2. CASE i = m - k + 1
      BY <1>2, <1>3, <2>1, <3>2
    <3> QED
      BY <3>1, <3>2
  <2> QED
    BY <1>3, <2>1, <2>2
<1>5. t = u
  BY <1>2, <1>3, <1>4, SeqEqual
<1> QED
  BY <1>5 DEF s, t, u

\* A prefix of consecutive blocks is consecutive, and so is what follows it.
LEMMA BetweenSplit ==
    ASSUME NEW k \in Nat, NEW m \in Nat, k <= m,
           NEW s \in Seq(BlockRecord), NEW t \in Seq(BlockRecord), s \o t = Between(k, m)
    PROVE  /\ k + Len(s) \in k..m
           /\ s = Between(k, k + Len(s))
           /\ t = Between(k + Len(s), m)
<1> DEFINE b == Between(k, m)
           n == Len(s)
           c == Between(k, k + n)
           d == Between(k + n, m)
<1>1. b \in Seq(BlockRecord) /\ Len(b) = m - k /\ \A i \in 1..(m - k) : b[i] = Parsed(k + i)
  BY BetweenType
<1>2. /\ n \in Nat /\ Len(t) \in Nat /\ m - k = n + Len(t)
      /\ \A i \in 1..n : b[i] = s[i]
      /\ \A i \in 1..Len(t) : b[n + i] = t[i]
  <2>1. n \in Nat /\ Len(t) \in Nat
    BY LenProperties
  <2>2. Len(s \o t) = n + Len(t)
    BY ConcatProperties
  <2>3. \A i \in 1..(n + Len(t)) : (s \o t)[i] = IF i <= n THEN s[i] ELSE t[i - n]
    BY ConcatProperties
  <2>4. \A i \in 1..n : i \in 1..(n + Len(t)) /\ i <= n
    BY <2>1
  <2>5. \A i \in 1..Len(t) : n + i \in 1..(n + Len(t)) /\ ~(n + i <= n) /\ (n + i) - n = i
    BY <2>1
  <2> HIDE DEF n
  <2> QED
    BY <1>1, <2>1, <2>2, <2>3, <2>4, <2>5
<1> HIDE DEF b, n
<1>3. k + n \in k..m /\ k + n \in Nat /\ k + n <= m /\ k <= k + n
  BY <1>2
<1>4. c \in Seq(BlockRecord) /\ Len(c) = n /\ \A i \in 1..n : c[i] = Parsed(k + i)
  <2>1. /\ c \in Seq(BlockRecord) /\ Len(c) = (k + n) - k
        /\ \A i \in 1..((k + n) - k) : c[i] = Parsed(k + i)
    BY <1>3, BetweenType
  <2>2. (k + n) - k = n
    BY <1>2
  <2> QED
    BY <2>1, <2>2
<1>5. d \in Seq(BlockRecord) /\ Len(d) = Len(t) /\ \A i \in 1..Len(t) : d[i] = Parsed(k + n + i)
  <2>1. /\ d \in Seq(BlockRecord) /\ Len(d) = m - (k + n)
        /\ \A i \in 1..(m - (k + n)) : d[i] = Parsed(k + n + i)
    BY <1>3, BetweenType
  <2>2. m - (k + n) = Len(t)
    BY <1>2
  <2> QED
    BY <2>1, <2>2
<1> HIDE DEF c, d
<1>6. \A i \in 1..n : s[i] = c[i]
  <2> SUFFICES ASSUME NEW i \in 1..n PROVE s[i] = c[i]
    OBVIOUS
  <2>1. i \in 1..(m - k)
    BY <1>2
  <2> QED
    BY <1>1, <1>2, <1>4, <2>1
<1>7. \A i \in 1..Len(t) : t[i] = d[i]
  <2> SUFFICES ASSUME NEW i \in 1..Len(t) PROVE t[i] = d[i]
    OBVIOUS
  <2>1. n + i \in 1..(m - k) /\ k + (n + i) = k + n + i
    BY <1>2
  <2> QED
    BY <1>1, <1>2, <1>5, <2>1
<1>8. s = c
  BY <1>4, <1>6, SeqEqual DEF n
<1>9. t = d
  BY <1>5, <1>7, SeqEqual
<1> QED
  BY <1>3, <1>8, <1>9 DEF c, d, n

-----------------------------------------------------------------------------
\* What the reader has counted is what was printed.
Reader == [cursor : 0..LastEvent, total : Nat, here : BOOLEAN, stop : BOOLEAN]
Shown == [events : SUBSET Event, lines : Nat, intact : BOOLEAN]

Account(r, s) ==
    /\ r \in Reader /\ s \in Shown
    /\ s.intact /\ s.lines = r.total
    /\ MaxEvents # 0 => r.total <= MaxEvents
    /\ r.stop <=> (MaxEvents # 0 /\ r.total >= MaxEvents)
    /\ r.cursor = NoCursor => s.events = {}
    /\ r.cursor # NoCursor => \E a \in 1..r.cursor : s.events = a..r.cursor

LEMMA NumberParsed ==
    ASSUME NEW e \in Nat
    PROVE  Number(Parsed(e).id) = e /\ Parsed(e).name = <<>>
<1>1. Last(<<Text(e)>>)[2] = e
  BY DEF Last, Text
<1> QED
  BY <1>1 DEF Number, Parsed

LEMMA DeliverOne ==
    ASSUME NEW acc, Account(acc.reader, acc.seen), ~acc.reader.stop, NEW e \in Event,
           acc.reader.cursor # NoCursor => acc.reader.cursor \in {e - 1, e}
    PROVE  LET next == ProcessEvent(acc, Parsed(e))
           IN  Account(next.reader, next.seen) /\ next.reader.cursor = e
<1> DEFINE r == Delivery(acc.reader, e)
           s == [events |-> acc.seen.events \cup {e}, lines |-> acc.seen.lines + 1,
                 intact |-> acc.seen.intact /\ Parsed(e) = Parsed(e)]
<1>1. e \in Nat /\ e # NoCursor /\ LastEvent \in Nat /\ MaxEvents \in Nat
  BY BoundsAssumption DEF Event, NoCursor
<1>2. ProcessEvent(acc, Parsed(e)) = [reader |-> r, seen |-> s]
  <2>1. Parsed(e).name # NoticeName
    <3>1. Parsed(e).name = <<>>
      BY <1>1, NumberParsed
    <3>2. <<>> # NoticeName
      BY DEF NoticeName
    <3> QED
      BY <3>1, <3>2
  <2> QED
    BY <1>1, <2>1, NumberParsed DEF ProcessEvent, Stops
<1>3. r.cursor = e /\ r.total = acc.reader.total + 1
      /\ r.stop = (MaxEvents # 0 /\ acc.reader.total + 1 >= MaxEvents)
  BY <1>1 DEF Delivery
<1>4. r \in Reader /\ s \in Shown
  BY <1>1 DEF Delivery, Reader, Shown, Account, Event
<1>5. s.intact /\ s.lines = r.total
  BY <1>3 DEF Account
<1>6. MaxEvents # 0 => r.total <= MaxEvents
  BY <1>1, <1>3 DEF Account, Reader
<1>7. \E a \in 1..e : s.events = a..e
  <2>1. CASE acc.reader.cursor = NoCursor
    <3>1. s.events = e..e
      BY <1>1, <2>1 DEF Account
    <3> QED
      BY <1>1, <3>1 DEF Event
  <2>2. CASE acc.reader.cursor # NoCursor
    <3> DEFINE c == acc.reader.cursor
    <3>1. PICK a \in 1..c : acc.seen.events = a..c
      BY <2>2 DEF Account
    <3>2. c \in {e - 1, e} /\ c \in Nat
      BY <1>1, <2>2
    <3>3. s.events = (a..c) \cup {e}
      BY <3>1
    <3>4. (a..c) \cup {e} = a..e /\ a \in 1..e
      BY <1>1, <3>1, <3>2
    <3> QED
      BY <3>3, <3>4
  <2> QED
    BY <2>1, <2>2
<1>8. Account(r, s)
  <2> HIDE DEF r, s
  <2> QED
    BY <1>1, <1>3, <1>4, <1>5, <1>6, <1>7 DEF Account
<1> QED
  BY <1>2, <1>3, <1>8

\* A listener that has stopped takes nothing more.
LEMMA StoppedTakesNone ==
    ASSUME NEW acc, acc.reader.stop, NEW event
    PROVE  ProcessEvent(acc, event) = acc
BY DEF ProcessEvent, Stops

LEMMA NoticeOne ==
    ASSUME NEW acc, Account(acc.reader, acc.seen), ~acc.reader.stop
    PROVE  LET next == ProcessEvent(acc, ParsedNotice)
           IN  Account(next.reader, next.seen) /\ next.reader.cursor = NoCursor
<1> DEFINE r == Control(acc.reader)
           s == [acc.seen EXCEPT !.events = {}]
<1>1. ParsedNotice.name = NoticeName
  BY DEF ParsedNotice
<1>2. ProcessEvent(acc, ParsedNotice) = [reader |-> r, seen |-> s]
  BY <1>1 DEF ProcessEvent, Stops
<1>3. r.cursor = NoCursor /\ r.total = acc.reader.total /\ r.stop = acc.reader.stop /\ r \in Reader
  BY BoundsAssumption DEF Control, Account, Reader, NoCursor
<1>4. s \in Shown /\ s.events = {} /\ s.lines = acc.seen.lines /\ s.intact = acc.seen.intact
  BY DEF Account, Shown
<1>5. Account(r, s)
  <2> HIDE DEF r, s
  <2> QED
    BY <1>3, <1>4 DEF Account
<1> QED
  BY <1>2, <1>3, <1>5

\* Where the cursor may stand before the event that follows k.
Near(r, k) == r.cursor # NoCursor => r.cursor \in {k, k + 1}

\* The events of a chunk, one after the other.
LEMMA DeliverAll ==
    ASSUME NEW acc, Account(acc.reader, acc.seen), NEW k \in Nat, Near(acc.reader, k),
           NEW m \in Nat, k + m <= LastEvent
    PROVE  LET after == ProcessEvents(acc, Between(k, k + m))
           IN  /\ Account(after.reader, after.seen)
               /\ after.reader.cursor \in {acc.reader.cursor} \cup (k + 1)..(k + m)
               /\ ~after.reader.stop => Near(after.reader, k + m)
<1> DEFINE After(n) == ProcessEvents(acc, Between(k, k + n))
           Holds(a, n) == /\ Account(a.reader, a.seen)
                          /\ a.reader.cursor \in {acc.reader.cursor} \cup (k + 1)..(k + n)
                          /\ ~a.reader.stop => Near(a.reader, k + n)
           S == {n \in Nat : k + n <= LastEvent => Holds(After(n), n)}
<1>1. 0 \in S
  <2>1. After(0) = acc
    BY BetweenNone, ProcessNone
  <2> HIDE DEF After
  <2>2. Holds(acc, 0)
    OBVIOUS
  <2> QED
    BY <2>1, <2>2
<1>2. ASSUME NEW n \in Nat, n \in S PROVE n + 1 \in S
  <2> SUFFICES ASSUME k + (n + 1) <= LastEvent PROVE Holds(After(n + 1), n + 1)
    OBVIOUS
  <2> DEFINE e == k + n + 1
             a == After(n)
  <2>1. LastEvent \in Nat /\ k + n \in Nat /\ k <= k + n /\ k + n <= LastEvent /\ e \in Event
    BY BoundsAssumption DEF Event
  <2>2. Holds(a, n)
    <3> HIDE DEF After, Holds
    <3> QED
      BY <1>2, <2>1
  <2>3. After(n + 1) = ProcessEvent(a, Parsed(e))
    <3>1. Between(k, k + n + 1) = Append(Between(k, k + n), Parsed(e))
      BY <2>1, BetweenAppend
    <3>2. Between(k, k + n) \in Seq(BlockRecord) /\ Parsed(e) \in BlockRecord
      BY <2>1, BetweenType, ParsedType
    <3>3. ProcessEvents(acc, Append(Between(k, k + n), Parsed(e)))
            = ProcessEvent(ProcessEvents(acc, Between(k, k + n)), Parsed(e))
      BY <3>2, ProcessAppend
    <3>4. k + (n + 1) = k + n + 1
      OBVIOUS
    <3> QED
      BY <3>1, <3>3, <3>4, Zenon
  <2> HIDE DEF After, a
  <2>4. CASE a.reader.stop
    <3>1. After(n + 1) = a
      BY <2>3, <2>4, StoppedTakesNone
    <3> QED
      BY <2>2, <2>4, <3>1
  <2>5. CASE ~a.reader.stop
    <3> DEFINE b == ProcessEvent(a, Parsed(e))
    <3>1. a.reader.cursor # NoCursor => a.reader.cursor \in {e - 1, e}
      BY <2>2, <2>5 DEF Near
    <3>2. Account(b.reader, b.seen) /\ b.reader.cursor = e
      <4> HIDE DEF e
      <4> QED
        BY <2>1, <2>2, <2>5, <3>1, DeliverOne
    <3> HIDE DEF b
    <3>3. b.reader.cursor \in (k + 1)..(k + (n + 1)) /\ b.reader.cursor = k + (n + 1)
      BY <3>2
    <3>4. Near(b.reader, k + (n + 1))
      BY <3>3 DEF Near
    <3>5. Holds(b, n + 1)
      BY <3>2, <3>3, <3>4
    <3> QED
      BY <2>3, <3>5 DEF b
  <2> QED
    BY <2>4, <2>5
<1>3. Nat \subseteq S
  <2> HIDE DEF S
  <2> QED
    BY <1>1, <1>2, SetInduction
<1>4. Holds(After(m), m)
  <2> HIDE DEF After, Holds
  <2> QED
    BY <1>3
<1> QED
  BY <1>4

-----------------------------------------------------------------------------
\* The inductive invariant.

\* What the parser will have when it has read all that is under way.
Rest == Feed(parser, wire)

\* The blocks under way are the events after k, and the cursor is where they
\* start; no cursor that was refused lies behind them.
Continues(events, k) ==
    /\ events = Between(k, upto)
    /\ Near(reader, k)
    /\ \A c \in refused : c <= k

StreamInv ==
    conn = "streaming" =>
        /\ parser \in Parser /\ parser.ready = <<>>
        /\ wire \in Value
        /\ Clean(Rest)
        /\ ~cutting => \E k \in 0..upto : Continues(Rest.ready, k)
        /\ cutting => /\ Rest.ready \in {<<>>, <<ParsedNotice>>}
                      /\ reader.cursor # NoCursor => reader.cursor < floor

RefusedInv ==
    \A c \in refused : c < floor /\ (reader.cursor # NoCursor => c < reader.cursor)

BackoffInv == backoff >= Grown(wait)

Invariant ==
    /\ TypeOK
    /\ Account(reader, seen)
    /\ (conn = "exited") <=> reader.stop
    /\ StreamInv
    /\ RefusedInv
    /\ BackoffInv

LEMMA GrownIs ==
    ASSUME NEW d \in Nat
    PROVE  /\ Grown(d) = IF 2 * d <= MaxBackoff THEN 2 * d ELSE MaxBackoff
           /\ Grown(d) \in Nat /\ Grown(d) <= MaxBackoff
<1> DEFINE n == IF 2 * d <= MaxBackoff THEN 2 * d ELSE MaxBackoff
           s == {2 * d, MaxBackoff}
<1>1. MaxBackoff \in Nat /\ 2 * d \in Nat
  BY BoundsAssumption
<1>2. n \in s /\ \A y \in s : n <= y
  BY <1>1
<1>3. \A x \in s : (\A y \in s : x <= y) => x = n
  BY <1>1, <1>2
<1>4. Min(s) = n
  <2> HIDE DEF n, s
  <2> QED
    BY <1>2, <1>3 DEF Min
<1> QED
  BY <1>1, <1>4 DEF Grown

LEMMA NewParserClean == NewParser \in Parser /\ Clean(NewParser) /\ NewParser.ready = <<>>
BY DEF NewParser, Parser, Clean, Value

LEMMA InitInvariant == Init => Invariant
<1> SUFFICES ASSUME Init PROVE Invariant
  OBVIOUS
<1> USE BoundsAssumption
<1>1. TypeOK
  <2>1. /\ reader.cursor = 0 /\ reader.total = 0
        /\ reader.here = FALSE /\ reader.stop = FALSE /\ seen.events = {}
    BY DEF Init, NewReader, ShowsNothing, NoCursor
  <2>2. /\ log \in 0..LastEvent /\ floor \in 0..log /\ conn \in Steps /\ upto \in 0..log
        /\ reader.cursor \in 0..log
    BY <2>1 DEF Init, Steps
  <2>3. /\ backoff \in InitialBackoff..MaxBackoff /\ wait \in 0..MaxBackoff
        /\ asked \in RetryAfters \cup {0} /\ trouble \in 0..Trouble
    BY DEF Init
  <2>4. reader.here \in BOOLEAN /\ reader.stop \in BOOLEAN /\ cutting \in BOOLEAN
    BY <2>1 DEF Init
  <2>5. reader.total \in Nat /\ seen.events \subseteq Event /\ refused \subseteq Event
    BY <2>1 DEF Init
  <2> QED
    BY <2>2, <2>3, <2>4, <2>5 DEF TypeOK
<1>2. Account(reader, seen)
  BY DEF Init, Account, NewReader, ShowsNothing, NoCursor, Reader, Shown
<1>3. (conn = "exited") <=> reader.stop
  BY DEF Init, NewReader
<1>4. StreamInv /\ RefusedInv
  BY DEF Init, StreamInv, RefusedInv
<1>5. BackoffInv
  BY GrownIs DEF Init, BackoffInv
<1> QED
  BY <1>1, <1>2, <1>3, <1>4, <1>5 DEF Invariant

-----------------------------------------------------------------------------
\* A chunk and what is left of the stream.
LEMMA CutInTwo ==
    ASSUME NEW s \in Value, NEW n \in 1..Len(s)
    PROVE  /\ SubSeq(s, 1, n) \in Value /\ SubSeq(s, n + 1, Len(s)) \in Value
           /\ s = SubSeq(s, 1, n) \o SubSeq(s, n + 1, Len(s))
<1>1. s \in Seq(Token) /\ Len(s) \in Nat /\ n \in Nat /\ n <= Len(s)
  BY LenProperties DEF Value
<1>2. SubSeq(s, 1, n) \in Value
  BY <1>1, SubSeqProperties DEF Value
<1>3. SubSeq(s, n + 1, Len(s)) \in Value
  BY <1>1, SubSeqProperties DEF Value
<1>4. SubSeq(s, 1, n) \o SubSeq(s, n + 1, Len(s)) = SubSeq(s, 1, Len(s))
  <2>1. 1 \in 1..(Len(s) + 1) /\ n \in 0..Len(s) /\ Len(s) \in n..Len(s) /\ 1 - 1 = 0
    BY <1>1
  <2> QED
    BY <1>1, <2>1, ConcatAdjacentSubSeq
<1> QED
  BY <1>1, <1>2, <1>3, <1>4, SubSeqFull

LEMMA TakenIs ==
    ASSUME NEW p \in Parser
    PROVE  /\ Taken(p) \in Parser /\ Taken(p).ready = <<>> /\ p.ready \in Seq(BlockRecord)
           /\ p = Prepend(p.ready, Taken(p))
<1>1. p.ready \in Seq(BlockRecord) /\ p.ready \o <<>> = p.ready
  BY ConcatEmptySeq DEF Parser
<1>2. Taken(p) \in Parser /\ Taken(p).ready = <<>>
  <2>1. <<>> \in Seq(BlockRecord)
    BY EmptySeq
  <2> QED
    BY <2>1 DEF Taken, Parser
<1>3. Prepend(p.ready, Taken(p)) = [Taken(p) EXCEPT !.ready = p.ready]
  BY <1>1, <1>2 DEF Prepend
<1>4. [Taken(p) EXCEPT !.ready = p.ready] = p
  BY DEF Taken, Parser
<1> QED
  BY <1>1, <1>2, <1>3, <1>4

LEMMA ReadOn ==
    ASSUME NEW p \in Parser, NEW s \in Value, NEW n \in 1..Len(s)
    PROVE  LET read == Feed(p, SubSeq(s, 1, n))
               left == Feed(Taken(read), SubSeq(s, n + 1, Len(s)))
           IN  /\ read \in Parser /\ left \in Parser
               /\ Feed(p, s) = Prepend(read.ready, left)
<1> DEFINE a == SubSeq(s, 1, n)
           b == SubSeq(s, n + 1, Len(s))
           read == Feed(p, a)
           left == Feed(Taken(read), b)
<1>1. a \in Value /\ b \in Value /\ s = a \o b
  BY CutInTwo
<1> HIDE DEF a, b
<1>2. read \in Parser
  BY <1>1, FeedType
<1>3. Feed(p, s) = Feed(read, b)
  BY <1>1, FeedJoin
<1> HIDE DEF read
<1>4. /\ Taken(read) \in Parser /\ read.ready \in Seq(BlockRecord)
      /\ read = Prepend(read.ready, Taken(read))
  BY <1>2, TakenIs
<1>5. left \in Parser
  BY <1>1, <1>4, FeedType
<1>6. Feed(Prepend(read.ready, Taken(read)), b) = Prepend(read.ready, left)
  BY <1>1, <1>4, FeedPrepend
<1> QED
  BY <1>2, <1>3, <1>4, <1>5, <1>6 DEF a, b, read

\* However a stream is cut, the parser hands over the same events and is left
\* in the same state: one call of feed with both chunks, or feed, takeEvents
\* and feed with the rest (client/sse.cpp, feed and takeEvents).
THEOREM ChunkingIrrelevant ==
    ASSUME NEW p \in Parser, p.ready = <<>>, NEW s \in Value, NEW t \in Value
    PROVE  LET read == Feed(p, s)
               left == Feed(Taken(read), t)
               whole == Feed(p, s \o t)
           IN  whole.ready = read.ready \o left.ready /\ Taken(whole) = Taken(left)
<1> DEFINE read == Feed(p, s)
           left == Feed(Taken(read), t)
           whole == Feed(p, s \o t)
<1>1. read \in Parser /\ whole = Feed(read, t)
  BY FeedType, FeedJoin
<1> HIDE DEF read, whole
<1>2. /\ Taken(read) \in Parser /\ read.ready \in Seq(BlockRecord)
      /\ read = Prepend(read.ready, Taken(read))
  BY <1>1, TakenIs
<1>3. left \in Parser /\ Feed(Prepend(read.ready, Taken(read)), t) = Prepend(read.ready, left)
  BY <1>2, FeedType, FeedPrepend
<1> HIDE DEF left
<1>4. whole = Prepend(read.ready, left)
  BY <1>1, <1>2, <1>3
<1>5. whole.ready = read.ready \o left.ready
  BY <1>3, <1>4 DEF Prepend, Parser
<1>6. Taken(whole) = Taken(left)
  BY <1>3, <1>4 DEF Prepend, Parser, Taken
<1> QED
  BY <1>5, <1>6 DEF read, left, whole

LEMMA PrependClean ==
    ASSUME NEW p \in Parser, NEW r, Clean(Prepend(r, p))
    PROVE  Clean(p) /\ Prepend(r, p).ready = r \o p.ready
BY DEF Prepend, Parser, Clean

\* The blocks of a chunk and those that are still under way.
LEMMA ChunkBlocks ==
    ASSUME parser \in Parser, wire \in Value, Clean(Rest), NEW n \in 1..Len(wire)
    PROVE  LET read == Feed(parser, SubSeq(wire, 1, n))
               left == Feed(Taken(read), SubSeq(wire, n + 1, Len(wire)))
           IN  /\ SubSeq(wire, n + 1, Len(wire)) \in Value
               /\ Taken(read) \in Parser /\ Taken(read).ready = <<>> /\ Clean(left)
               /\ read.ready \in Seq(BlockRecord) /\ left.ready \in Seq(BlockRecord)
               /\ Rest.ready = read.ready \o left.ready
<1> DEFINE read == Feed(parser, SubSeq(wire, 1, n))
           left == Feed(Taken(read), SubSeq(wire, n + 1, Len(wire)))
<1>1. read \in Parser /\ left \in Parser /\ Rest = Prepend(read.ready, left)
  BY ReadOn DEF Rest
<1> HIDE DEF read, left
<1>2. Clean(left) /\ Rest.ready = read.ready \o left.ready
  BY <1>1, PrependClean
<1>3. Taken(read) \in Parser /\ Taken(read).ready = <<>> /\ read.ready \in Seq(BlockRecord)
  BY <1>1, TakenIs
<1>4. left.ready \in Seq(BlockRecord)
  BY <1>1 DEF Parser
<1> QED
  BY <1>2, <1>3, <1>4, CutInTwo DEF read, left

Now == [reader |-> reader, seen |-> seen]

\* A chunk of a replay delivers the next events, in order.
LEMMA ReplayChunk ==
    ASSUME TypeOK, Account(reader, seen), RefusedInv,
           NEW k \in 0..upto, Continues(Rest.ready, k),
           NEW r \in Seq(BlockRecord), NEW l \in Seq(BlockRecord), Rest.ready = r \o l
    PROVE  LET after == ProcessEvents(Now, r)
           IN  /\ Account(after.reader, after.seen)
               /\ after.reader.cursor \in 0..log
               /\ ParsedNotice \notin ToSet(r)
               /\ \A c \in refused : after.reader.cursor # NoCursor => c < after.reader.cursor
               /\ ~after.reader.stop =>
                      \E j \in 0..upto : /\ l = Between(j, upto) /\ Near(after.reader, j)
                                         /\ \A c \in refused : c <= j
<1> DEFINE m == Len(r)
           after == ProcessEvents(Now, r)
<1>1. /\ k \in Nat /\ upto \in Nat /\ log \in Nat /\ LastEvent \in Nat
      /\ k <= upto /\ upto <= log /\ log <= LastEvent
  BY BoundsAssumption DEF TypeOK
<1>2. r \o l = Between(k, upto) /\ Near(reader, k) /\ \A c \in refused : c <= k
  BY DEF Continues
<1>3. k + m \in k..upto /\ r = Between(k, k + m) /\ l = Between(k + m, upto)
  <2>1. r \o l = Between(k, upto)
    BY <1>2
  <2>2. /\ k + Len(r) \in k..upto
        /\ r = Between(k, k + Len(r))
        /\ l = Between(k + Len(r), upto)
    <3>1. \A s, t \in Seq(BlockRecord) :
              s \o t = Between(k, upto) =>
                  /\ k + Len(s) \in k..upto
                  /\ s = Between(k, k + Len(s))
                  /\ t = Between(k + Len(s), upto)
      BY <1>1, BetweenSplit
    <3> QED
      BY <2>1, <3>1, Zenon
  <2> QED
    BY <2>2
<1>4. m \in Nat /\ k + m <= LastEvent /\ k + m \in 0..upto
  BY <1>1, <1>3, LenProperties
<1> HIDE DEF m
<1>5. /\ Account(after.reader, after.seen)
      /\ after.reader.cursor \in {reader.cursor} \cup (k + 1)..(k + m)
      /\ ~after.reader.stop => Near(after.reader, k + m)
  <2> DEFINE acc == Now
             a == ProcessEvents(acc, Between(k, k + m))
  <2>1. acc.reader = reader /\ acc.seen = seen
    BY DEF Now
  <2> HIDE DEF acc
  <2>2. Account(acc.reader, acc.seen) /\ Near(acc.reader, k)
    BY <1>2, <2>1
  <2>3. /\ Account(a.reader, a.seen)
        /\ a.reader.cursor \in {acc.reader.cursor} \cup (k + 1)..(k + m)
        /\ ~a.reader.stop => Near(a.reader, k + m)
    BY <1>1, <1>4, <2>2, DeliverAll
  <2>4. a = after
    BY <1>3 DEF acc
  <2> HIDE DEF a
  <2> QED
    BY <2>1, <2>3, <2>4
<1> HIDE DEF after
<1>6. reader.cursor \in 0..log /\ after.reader.cursor \in 0..log
  <2>1. reader.cursor \in 0..log
    BY DEF TypeOK
  <2>2. (k + 1)..(k + m) \subseteq 0..log
    BY <1>1, <1>4
  <2> QED
    BY <1>5, <2>1, <2>2
<1>7. \A c \in refused : after.reader.cursor # NoCursor => c < after.reader.cursor
  <2> SUFFICES ASSUME NEW c \in refused, after.reader.cursor # NoCursor
               PROVE  c < after.reader.cursor
    OBVIOUS
  <2>1. c \in Nat
    BY DEF TypeOK, Event
  <2>2. c <= k /\ (reader.cursor # NoCursor => c < reader.cursor)
    BY <1>2 DEF RefusedInv
  <2>3. CASE after.reader.cursor = reader.cursor
    BY <2>2, <2>3
  <2>4. CASE after.reader.cursor \in (k + 1)..(k + m)
    BY <1>1, <1>4, <2>1, <2>2, <2>4
  <2> QED
    BY <1>5, <2>3, <2>4
<1>8. ParsedNotice \notin ToSet(r)
  <2>1. \A i \in 1..m : r[i] = Parsed(k + i)
    <3>1. k \in Nat /\ k + m \in Nat /\ k <= k + m /\ (k + m) - k = m
      BY <1>1, <1>4
    <3> QED
      BY <1>3, <3>1, BetweenType
  <2>2. \A e : Parsed(e) # ParsedNotice
    BY DEF Parsed, ParsedNotice, NoticeName
  <2>3. DOMAIN r = 1..m
    BY LenProperties DEF m
  <2> QED
    BY <2>1, <2>2, <2>3 DEF ToSet
<1>9. ~after.reader.stop =>
        \E j \in 0..upto : /\ l = Between(j, upto) /\ Near(after.reader, j)
                           /\ \A c \in refused : c <= j
  <2> SUFFICES ASSUME ~after.reader.stop
               PROVE  /\ l = Between(k + m, upto) /\ Near(after.reader, k + m)
                      /\ \A c \in refused : c <= k + m
    BY <1>4
  <2>1. \A c \in refused : c \in Nat
    BY DEF TypeOK, Event
  <2> QED
    BY <1>1, <1>2, <1>3, <1>4, <1>5, <2>1
<1> QED
  BY <1>5, <1>6, <1>7, <1>8, <1>9 DEF after

\* A chunk of the answer to an expired cursor delivers the notice or nothing.
LEMMA NoticeChunk ==
    ASSUME TypeOK, Account(reader, seen), ~reader.stop,
           Rest.ready \in {<<>>, <<ParsedNotice>>},
           NEW r \in Seq(BlockRecord), NEW l \in Seq(BlockRecord), Rest.ready = r \o l
    PROVE  LET after == ProcessEvents(Now, r)
           IN  /\ Account(after.reader, after.seen)
               /\ l \in {<<>>, <<ParsedNotice>>}
               /\ after.reader.cursor \in {reader.cursor, NoCursor}
               /\ ParsedNotice \in ToSet(r) => after.reader.cursor = NoCursor
<1> DEFINE after == ProcessEvents(Now, r)
<1>1. Now.reader = reader /\ Now.seen = seen
  BY DEF Now
<1>2. \/ r = <<>> /\ l \in {<<>>, <<ParsedNotice>>}
      \/ r = <<ParsedNotice>> /\ l = <<>>
  <2>1. /\ Len(r) \in Nat /\ Len(l) \in Nat /\ Len(Rest.ready) = Len(r) + Len(l)
        /\ \A i \in 1..(Len(r) + Len(l)) :
              Rest.ready[i] = IF i <= Len(r) THEN r[i] ELSE l[i - Len(r)]
    BY LenProperties, ConcatProperties
  <2>2. CASE Rest.ready = <<>>
    <3>1. Len(r) = 0 /\ Len(l) = 0
      BY <2>1, <2>2
    <3> QED
      BY <3>1, EmptySeq
  <2>3. CASE Rest.ready = <<ParsedNotice>>
    <3>1. Len(r) + Len(l) = 1
      BY <2>1, <2>3
    <3>2. CASE Len(r) = 0
      <4>1. r = <<>>
        BY <3>2, EmptySeq
      <4> QED
        BY <2>3, <4>1, ConcatEmptySeq
    <3>3. CASE Len(l) = 0
      <4>1. l = <<>>
        BY <3>3, EmptySeq
      <4> QED
        BY <2>3, <4>1, ConcatEmptySeq
    <3> QED
      BY <2>1, <3>1, <3>2, <3>3
  <2> QED
    BY <2>2, <2>3
<1>3. CASE r = <<>>
  <2>1. after = Now
    BY <1>3, ProcessNone
  <2>2. ParsedNotice \notin ToSet(r)
    BY <1>3 DEF ToSet
  <2> HIDE DEF after
  <2> QED
    BY <1>1, <1>2, <1>3, <2>1, <2>2 DEF after
<1>4. CASE r = <<ParsedNotice>>
  <2>1. after = ProcessEvent(Now, ParsedNotice)
    <3> DEFINE none == <<>>
    <3>1. none \in Seq(BlockRecord) /\ ParsedNotice \in BlockRecord
      BY ParsedType
    <3>2. r = Append(none, ParsedNotice)
      <4>1. \A b \in BlockRecord : <<b>> = Append(<<>>, b)
        OBVIOUS
      <4> QED
        BY <1>4, <3>1, <4>1
    <3>3. ProcessEvents(Now, none) = Now
      BY ProcessNone
    <3> HIDE DEF none
    <3>4. ProcessEvents(Now, Append(none, ParsedNotice))
            = ProcessEvent(ProcessEvents(Now, none), ParsedNotice)
      BY <3>1, ProcessAppend
    <3> QED
      BY <3>2, <3>3, <3>4
  <2> HIDE DEF after
  <2>2. Account(after.reader, after.seen) /\ after.reader.cursor = NoCursor
    <3> DEFINE acc == Now
    <3>1. Account(acc.reader, acc.seen) /\ ~acc.reader.stop
      BY <1>1
    <3>2. after = ProcessEvent(acc, ParsedNotice)
      BY <2>1
    <3> HIDE DEF acc
    <3> QED
      BY <3>1, <3>2, NoticeOne
  <2>3. l = <<>>
    <3>1. <<ParsedNotice>> # <<>>
      OBVIOUS
    <3> QED
      BY <1>2, <1>4, <3>1
  <2> QED
    BY <2>2, <2>3 DEF after
<1> QED
  BY <1>2, <1>3, <1>4

-----------------------------------------------------------------------------
\* Each action preserves the invariant.  A chunk of a replay moves k on by
\* the events delivered; one of a notice drops the cursor.

LEMMA ChunkInvariant == Invariant /\ Chunk => Invariant'
<1> SUFFICES ASSUME Invariant, Chunk PROVE Invariant'
  OBVIOUS
<1> DEFINE read(n) == Feed(parser, SubSeq(wire, 1, n))
           after(n) == ProcessEvents(Now, read(n).ready)
<1>1. PICK n \in 1..Len(wire) :
        /\ parser' = Taken(read(n)) /\ reader' = after(n).reader /\ seen' = after(n).seen
        /\ refused' = IF ParsedNotice \in ToSet(read(n).ready) /\ reader.cursor # NoCursor
                      THEN refused \cup {reader.cursor} ELSE refused
        /\ IF after(n).reader.stop
           THEN conn' = "exited" /\ wire' = <<>>
           ELSE UNCHANGED conn /\ wire' = SubSeq(wire, n + 1, Len(wire))
  BY Zenon DEF Chunk, Keeps, Now
<1> DEFINE r == read(n).ready
           left == Feed(Taken(read(n)), SubSeq(wire, n + 1, Len(wire)))
           l == left.ready
<1>2. conn = "streaming" /\ UNCHANGED <<log, floor, upto, cutting, backoff, wait, asked, trouble>>
  BY DEF Chunk, serverVars
<1>3. /\ TypeOK /\ Account(reader, seen) /\ ~reader.stop /\ RefusedInv /\ BackoffInv
      /\ parser \in Parser /\ wire \in Value /\ Clean(Rest)
      /\ ~cutting => \E k \in 0..upto : Continues(Rest.ready, k)
      /\ cutting => /\ Rest.ready \in {<<>>, <<ParsedNotice>>}
                    /\ reader.cursor # NoCursor => reader.cursor < floor
  BY <1>2 DEF Invariant, StreamInv
<1>4. /\ SubSeq(wire, n + 1, Len(wire)) \in Value
      /\ Taken(read(n)) \in Parser /\ Taken(read(n)).ready = <<>> /\ Clean(left)
      /\ r \in Seq(BlockRecord) /\ l \in Seq(BlockRecord) /\ Rest.ready = r \o l
  BY <1>3, ChunkBlocks
<1>5. ~reader'.stop => /\ conn' = "streaming" /\ parser' \in Parser /\ parser'.ready = <<>>
                       /\ wire' \in Value /\ Rest' = left
  BY <1>1, <1>2, <1>4 DEF Rest
<1>6. /\ parser' = Taken(read(n))
      /\ reader' = ProcessEvents(Now, r).reader /\ seen' = ProcessEvents(Now, r).seen
  BY <1>1
<1>7. refused' = IF ParsedNotice \in ToSet(r) /\ reader.cursor # NoCursor
                 THEN refused \cup {reader.cursor} ELSE refused
  BY <1>1
<1>8. (conn' = "exited") <=> reader'.stop
  BY <1>1, <1>2
<1>9. reader.cursor \in 0..log /\ floor \in 0..log /\ log \in 0..LastEvent /\ LastEvent \in Nat
      /\ refused \subseteq 1..LastEvent
  BY <1>3, BoundsAssumption DEF TypeOK, Event
<1> HIDE DEF read, after, r, left, l
<1>10. /\ Account(reader', seen') /\ reader'.cursor \in 0..log /\ refused' \subseteq 1..LastEvent
       /\ \A c \in refused' : c < floor /\ (reader'.cursor # NoCursor => c < reader'.cursor)
       /\ ~cutting /\ ~reader'.stop =>
             \E j \in 0..upto : /\ l = Between(j, upto) /\ Near(reader', j)
                                /\ \A c \in refused' : c <= j
       /\ cutting => /\ l \in {<<>>, <<ParsedNotice>>}
                     /\ reader'.cursor # NoCursor => reader'.cursor < floor
  <2>1. CASE ~cutting
    <3>1. PICK k \in 0..upto : Continues(Rest.ready, k)
      BY <1>3, <2>1
    <3>2. /\ Account(reader', seen') /\ reader'.cursor \in 0..log /\ ParsedNotice \notin ToSet(r)
          /\ \A c \in refused : reader'.cursor # NoCursor => c < reader'.cursor
          /\ ~reader'.stop =>
                 \E j \in 0..upto : /\ l = Between(j, upto) /\ Near(reader', j)
                                    /\ \A c \in refused : c <= j
      <4> DEFINE a == ProcessEvents(Now, r)
      <4>1. /\ Account(a.reader, a.seen) /\ a.reader.cursor \in 0..log
            /\ ParsedNotice \notin ToSet(r)
            /\ \A c \in refused : a.reader.cursor # NoCursor => c < a.reader.cursor
            /\ ~a.reader.stop =>
                 \E j \in 0..upto : /\ l = Between(j, upto) /\ Near(a.reader, j)
                                    /\ \A c \in refused : c <= j
        BY <1>3, <1>4, <3>1, ReplayChunk
      <4>2. reader' = a.reader /\ seen' = a.seen
        BY <1>6
      <4> HIDE DEF a
      <4> QED
        BY <4>1, <4>2
    <3>3. refused' = refused
      BY <1>7, <3>2
    <3> QED
      BY <1>3, <1>9, <2>1, <3>2, <3>3 DEF RefusedInv
  <2>2. CASE cutting
    <3>1. /\ Account(reader', seen') /\ l \in {<<>>, <<ParsedNotice>>}
          /\ reader'.cursor \in {reader.cursor, NoCursor}
          /\ ParsedNotice \in ToSet(r) => reader'.cursor = NoCursor
      <4> DEFINE a == ProcessEvents(Now, r)
      <4>1. /\ Account(a.reader, a.seen) /\ l \in {<<>>, <<ParsedNotice>>}
            /\ a.reader.cursor \in {reader.cursor, NoCursor}
            /\ ParsedNotice \in ToSet(r) => a.reader.cursor = NoCursor
        BY <1>3, <1>4, <2>2, NoticeChunk
      <4>2. reader' = a.reader /\ seen' = a.seen
        BY <1>6
      <4> HIDE DEF a
      <4> QED
        BY <4>1, <4>2
    <3>2. reader.cursor # NoCursor => reader.cursor < floor
      BY <1>3, <2>2
    <3>3. CASE ParsedNotice \in ToSet(r)
      <4>1. reader'.cursor = NoCursor
        BY <3>1, <3>3
      <4>2. refused' \subseteq refused \cup {reader.cursor}
            /\ (refused' # refused => reader.cursor # NoCursor)
        BY <1>7
      <4>3. \A c \in refused' : c \in 1..LastEvent /\ c < floor
        <5> SUFFICES ASSUME NEW c \in refused' PROVE c \in 1..LastEvent /\ c < floor
          OBVIOUS
        <5>1. CASE c \in refused
          BY <1>3, <1>9, <5>1 DEF RefusedInv
        <5>2. CASE c \notin refused
          <6>1. c = reader.cursor /\ reader.cursor # NoCursor
            BY <4>2, <5>2
          <6> QED
            BY <1>9, <3>2, <6>1 DEF NoCursor
        <5> QED
          BY <5>1, <5>2
      <4> QED
        BY <1>9, <2>2, <3>1, <4>1, <4>3 DEF NoCursor
    <3>4. CASE ParsedNotice \notin ToSet(r)
      <4>1. refused' = refused
        BY <1>7, <3>4
      <4>2. reader'.cursor # NoCursor => reader'.cursor = reader.cursor
        BY <3>1
      <4>3. reader'.cursor \in 0..log
        BY <1>9, <3>1 DEF NoCursor
      <4> QED
        BY <1>3, <1>9, <2>2, <3>1, <3>2, <4>1, <4>2, <4>3 DEF RefusedInv
    <3> QED
      BY <3>3, <3>4
  <2> QED
    BY <2>1, <2>2
<1>11. TypeOK'
  <2>1. /\ reader'.total \in Nat /\ reader'.here \in BOOLEAN /\ reader'.stop \in BOOLEAN
        /\ seen'.events \subseteq Event
    BY <1>10 DEF Account, Reader, Shown
  <2>2. conn' \in Steps
    BY <1>1, <1>2 DEF Steps
  <2> QED
    BY <1>2, <1>3, <1>9, <1>10, <2>1, <2>2 DEF TypeOK, Event
<1>12. StreamInv'
  <2> SUFFICES ASSUME conn' = "streaming"
               PROVE  /\ parser' \in Parser /\ parser'.ready = <<>>
                      /\ wire' \in Value /\ Clean(Rest')
                      /\ ~cutting' => \E k \in 0..upto' : Continues(Rest.ready, k)'
                      /\ cutting' => /\ Rest'.ready \in {<<>>, <<ParsedNotice>>}
                                     /\ reader'.cursor # NoCursor => reader'.cursor < floor'
    BY DEF StreamInv
  <2>1. ~reader'.stop
    BY <1>8
  <2>2. Clean(Rest')
    BY <1>4, <1>5, <2>1
  <2>3. Rest'.ready = l
    BY <1>5, <2>1 DEF l
  <2>4. ~cutting' => \E k \in 0..upto' : Continues(Rest.ready, k)'
    BY <1>2, <1>10, <2>1, <2>3 DEF Continues
  <2> QED
    BY <1>2, <1>5, <1>10, <2>1, <2>2, <2>3, <2>4
<1>13. RefusedInv' /\ BackoffInv'
  BY <1>2, <1>3, <1>10 DEF RefusedInv, BackoffInv
<1> QED
  BY <1>8, <1>10, <1>11, <1>12, <1>13 DEF Invariant

LEMMA ServerInvariant == Invariant /\ (EventOccurs \/ EventExpires) => Invariant'
<1> SUFFICES ASSUME Invariant, EventOccurs \/ EventExpires PROVE Invariant'
  OBVIOUS
<1>1. UNCHANGED <<conn, upto, wire, cutting, parser, reader, backoff, wait, asked, trouble, seen,
                  refused>>
  BY DEF EventOccurs, EventExpires, streamVars
<1>2. TypeOK /\ Account(reader, seen) /\ ((conn = "exited") <=> reader.stop)
      /\ StreamInv /\ RefusedInv /\ BackoffInv
  BY DEF Invariant
<1>3. /\ log \in Nat /\ log' \in Nat /\ floor \in Nat /\ floor' \in Nat /\ LastEvent \in Nat
      /\ log <= log' /\ floor <= floor' /\ floor' <= log' /\ log' <= LastEvent
  BY <1>2, BoundsAssumption DEF TypeOK, EventOccurs, EventExpires
<1>4. TypeOK'
  <2>1. upto' \in 0..log' /\ reader'.cursor \in 0..log'
    BY <1>1, <1>2, <1>3 DEF TypeOK
  <2>2. log' \in 0..LastEvent /\ floor' \in 0..log'
    BY <1>3
  <2> QED
    BY <1>1, <1>2, <2>1, <2>2 DEF TypeOK
<1>5. Rest' = Rest
  BY <1>1 DEF Rest
<1>6. StreamInv'
  <2>1. \A k : Continues(Rest.ready, k)' <=> Continues(Rest.ready, k)
    BY <1>1, <1>5 DEF Continues
  <2>2. reader.cursor # NoCursor /\ reader.cursor < floor => reader.cursor < floor'
    BY <1>2, <1>3 DEF TypeOK
  <2> QED
    BY <1>1, <1>2, <1>5, <2>1, <2>2 DEF StreamInv
<1>7. RefusedInv'
  <2> SUFFICES ASSUME NEW c \in refused
               PROVE  c < floor' /\ (reader.cursor # NoCursor => c < reader.cursor)
    BY <1>1 DEF RefusedInv
  <2>1. c \in Nat
    BY <1>2 DEF TypeOK, Event
  <2> QED
    BY <1>2, <1>3, <2>1 DEF RefusedInv
<1>8. Account(reader', seen') /\ ((conn' = "exited") <=> reader'.stop) /\ BackoffInv'
  BY <1>1, <1>2 DEF BackoffInv
<1> QED
  BY <1>4, <1>6, <1>7, <1>8 DEF Invariant

LEMMA WritesInvariant == Invariant /\ ServerWrites => Invariant'
<1> SUFFICES ASSUME Invariant, ServerWrites PROVE Invariant'
  OBVIOUS
<1>1. /\ conn = "streaming" /\ ~cutting /\ upto < log /\ upto' = upto + 1
      /\ wire' = wire \o Frame(upto + 1)
      /\ UNCHANGED <<log, floor, conn, cutting, parser, reader, backoff, wait, asked, trouble, seen,
                     refused>>
  BY DEF ServerWrites, serverVars
<1>2. TypeOK /\ Account(reader, seen) /\ ((conn = "exited") <=> reader.stop)
      /\ StreamInv /\ RefusedInv /\ BackoffInv
  BY DEF Invariant
<1>3. upto \in Nat /\ log \in Nat /\ upto + 1 \in 0..log /\ upto + 1 \in Nat
  BY <1>1, <1>2, BoundsAssumption DEF TypeOK
<1>4. parser \in Parser /\ parser.ready = <<>> /\ wire \in Value /\ Clean(Rest)
  BY <1>1, <1>2 DEF StreamInv
<1>5. PICK k \in 0..upto : Continues(Rest.ready, k)
  BY <1>1, <1>2 DEF StreamInv
<1>6. Frame(upto + 1) \in Value
  BY <1>3, FrameIs
<1>7. wire' \in Value /\ Rest' = Feed(Rest, Frame(upto + 1))
  <2>1. wire \o Frame(upto + 1) \in Value
        /\ Feed(parser, wire \o Frame(upto + 1)) = Feed(Feed(parser, wire), Frame(upto + 1))
    BY <1>4, <1>6, FeedJoin
  <2> QED
    BY <1>1, <2>1, Zenon DEF Rest
<1>8. Rest' = [Rest EXCEPT !.ready = Append(@, Parsed(upto + 1)), !.last = <<Text(upto + 1)>>]
  <2>1. \A e \in Nat : Feed(Rest, Frame(e)) = [Rest EXCEPT !.ready = Append(@, Parsed(e)),
                                                           !.last = <<Text(e)>>]
    BY <1>4, FeedFrame
  <2> QED
    BY <1>3, <1>7, <2>1
<1>9. Clean(Rest') /\ Rest'.ready = Append(Rest.ready, Parsed(upto + 1))
  <2>1. <<Text(upto + 1)>> \in Value /\ Parsed(upto + 1) \in BlockRecord
    BY <1>3, ParsedType, TokensAre DEF Tokens, Value
  <2>2. Rest.ready \in Seq(BlockRecord)
    BY <1>4 DEF Clean, Parser
  <2>3. Append(Rest.ready, Parsed(upto + 1)) \in Seq(BlockRecord)
    BY <2>1, <2>2, AppendProperties
  <2> QED
    BY <1>4, <1>8, <2>1, <2>3 DEF Clean, Parser
<1>10. Continues(Rest.ready, k)'
  <2>1. Rest.ready = Between(k, upto) /\ Near(reader, k) /\ \A c \in refused : c <= k
    BY <1>5 DEF Continues
  <2>2. Between(k, upto + 1) = Append(Between(k, upto), Parsed(upto + 1))
    <3>1. k \in Nat /\ k <= upto
      BY <1>3
    <3> QED
      BY <1>3, <3>1, BetweenAppend
  <2> QED
    BY <1>1, <1>9, <2>1, <2>2 DEF Continues
<1>11. TypeOK'
  BY <1>1, <1>2, <1>3 DEF TypeOK
<1>12. StreamInv'
  <2>1. k \in 0..upto'
    BY <1>1, <1>3
  <2>2. \E j \in 0..upto' : Continues(Rest.ready, j)'
    BY <1>10, <2>1
  <2> QED
    BY <1>1, <1>4, <1>7, <1>9, <2>2 DEF StreamInv
<1>13. /\ Account(reader', seen') /\ ((conn' = "exited") <=> reader'.stop)
       /\ RefusedInv' /\ BackoffInv'
  BY <1>1, <1>2 DEF RefusedInv, BackoffInv
<1> QED
  BY <1>11, <1>12, <1>13 DEF Invariant

LEMMA KeepsAliveInvariant == Invariant /\ ServerKeepsAlive => Invariant'
<1> SUFFICES ASSUME Invariant, ServerKeepsAlive PROVE Invariant'
  OBVIOUS
<1>1. /\ conn = "streaming" /\ ~cutting /\ wire = <<>> /\ wire' = KeepAlive
      /\ UNCHANGED <<log, floor, conn, upto, cutting, parser, reader, backoff, wait, asked, trouble,
                     seen, refused>>
  BY DEF ServerKeepsAlive, serverVars
<1>2. TypeOK /\ Account(reader, seen) /\ ((conn = "exited") <=> reader.stop)
      /\ StreamInv /\ RefusedInv /\ BackoffInv
  BY DEF Invariant
<1>3. Rest = parser
  BY <1>1, FeedEmpty DEF Rest
<1>4. parser \in Parser /\ parser.ready = <<>> /\ Clean(parser)
  BY <1>1, <1>2, <1>3 DEF StreamInv
<1>5. wire' \in Value /\ Rest' = Rest
  BY <1>1, <1>3, <1>4, FeedKeepAlive DEF Rest
<1>6. \A k : Continues(Rest.ready, k)' <=> Continues(Rest.ready, k)
  BY <1>1, <1>5 DEF Continues
<1>7. StreamInv'
  BY <1>1, <1>2, <1>4, <1>5, <1>6 DEF StreamInv
<1>8. TypeOK'
  BY <1>1, <1>2 DEF TypeOK
<1>9. Account(reader', seen') /\ ((conn' = "exited") <=> reader'.stop) /\ RefusedInv' /\ BackoffInv'
  BY <1>1, <1>2 DEF RefusedInv, BackoffInv
<1> QED
  BY <1>7, <1>8, <1>9 DEF Invariant

LEMMA OpensInvariant == Invariant /\ StreamOpens => Invariant'
<1> SUFFICES ASSUME Invariant, StreamOpens PROVE Invariant'
  OBVIOUS
<1>1. /\ conn = "connecting" /\ conn' = "streaming" /\ parser' = NewParser
      /\ reader' = [reader EXCEPT !.here = FALSE]
      /\ UNCHANGED <<log, floor, backoff, wait, asked, trouble, seen, refused>>
  BY DEF StreamOpens, FreshParser, serverVars
<1>2. TypeOK /\ Account(reader, seen) /\ ((conn = "exited") <=> reader.stop)
      /\ RefusedInv /\ BackoffInv
  BY DEF Invariant
<1>3. /\ reader' \in Reader /\ reader'.cursor = reader.cursor /\ reader'.total = reader.total
      /\ reader'.stop = reader.stop
  BY <1>1, <1>2 DEF Account, Reader
<1>4. Account(reader', seen')
  BY <1>1, <1>2, <1>3 DEF Account
<1>5. /\ log \in Nat /\ floor \in Nat /\ floor <= log /\ reader.cursor \in 0..log
      /\ \A c \in refused : c \in Nat /\ c < floor
                            /\ (reader.cursor # NoCursor => c < reader.cursor)
  BY <1>2, BoundsAssumption DEF TypeOK, RefusedInv, Event
<1>6. ASSUME \E start \in 0..log :
                /\ StartsAt(start)
                /\ upto' = start /\ wire' = <<>> /\ cutting' = FALSE
      PROVE  StreamInv' /\ upto' \in 0..log /\ cutting' \in BOOLEAN
  <2>1. PICK start \in 0..log :
               /\ StartsAt(start)
               /\ upto' = start /\ wire' = <<>> /\ cutting' = FALSE
    BY <1>6
  <2>2. wire' \in Value /\ Rest' = NewParser
    BY <1>1, <2>1, FeedEmpty, EmptySeq DEF Rest, Value
  <2>3. Near(reader', start)
    BY <1>3, <1>5, <2>1 DEF Near, StartsAt, NoCursor
  <2>4. \A c \in refused : c <= start
    BY <1>5, <2>1 DEF StartsAt, NoCursor
  <2>5. Between(start, start) = <<>>
    BY BetweenNone
  <2>6. Continues(Rest.ready, start)'
    BY <1>1, <2>1, <2>2, <2>3, <2>4, <2>5, NewParserClean DEF Continues
  <2>7. StreamInv'
    BY <1>1, <2>1, <2>2, <2>6, NewParserClean DEF StreamInv
  <2> QED
    BY <2>1, <2>7
<1>7. ASSUME /\ reader.cursor # NoCursor /\ reader.cursor < floor
             /\ upto' = log /\ wire' = NoticeFrame /\ cutting' = TRUE
      PROVE  StreamInv' /\ upto' \in 0..log /\ cutting' \in BOOLEAN
  <2>1. wire' \in Value /\ Rest' = Feed(NewParser, NoticeFrame)
    BY <1>1, <1>7, NewParserClean, FeedNotice DEF Rest
  <2>2. Rest' = [NewParser EXCEPT !.ready = Append(@, ParsedNotice), !.last = <<Text(Notice)>>]
    BY <2>1, NewParserClean, FeedNotice
  <2>3. Clean(Rest') /\ Rest'.ready = <<ParsedNotice>>
    <3>1. <<Text(Notice)>> \in Value /\ <<ParsedNotice>> \in Seq(BlockRecord)
      BY ParsedType, TokensAre DEF Tokens, Value
    <3>2. Append(NewParser.ready, ParsedNotice) = <<ParsedNotice>>
      <4>1. \A b \in BlockRecord : <<b>> = Append(<<>>, b)
        OBVIOUS
      <4> QED
        BY <4>1, ParsedType, NewParserClean
    <3>3. Rest' = [NewParser EXCEPT !.ready = <<ParsedNotice>>, !.last = <<Text(Notice)>>]
      BY <2>2, <3>2
    <3> QED
      BY <3>1, <3>3, NewParserClean DEF Clean, Parser
  <2>4. StreamInv'
    BY <1>1, <1>3, <1>7, <2>1, <2>3, NewParserClean DEF StreamInv
  <2> QED
    BY <1>5, <1>7, <2>4
<1>8. StreamInv' /\ upto' \in 0..log /\ cutting' \in BOOLEAN
  BY <1>6, <1>7, Zenon DEF StreamOpens
<1>9. TypeOK'
  <2>1. reader'.here \in BOOLEAN /\ conn' \in Steps
    BY <1>1, <1>3 DEF Steps, Reader
  <2> QED
    BY <1>1, <1>2, <1>3, <1>8, <2>1 DEF TypeOK
<1>10. ((conn' = "exited") <=> reader'.stop) /\ RefusedInv' /\ BackoffInv'
  BY <1>1, <1>2, <1>3 DEF RefusedInv, BackoffInv
<1> QED
  BY <1>4, <1>8, <1>9, <1>10 DEF Invariant

LEMMA ReconnectsInvariant ==
    ASSUME Invariant, conn \in {"connecting", "streaming"},
           NEW d \in {InitialBackoff, backoff}, NEW sent \in RetryAfters \cup {0},
           Reconnects(d, d, sent), trouble' \in 0..Trouble
    PROVE  Invariant'
<1>1. /\ conn' = "sleeping" /\ wait' = d /\ backoff' = Grown(d) /\ asked' = sent
      /\ cutting' = FALSE
      /\ UNCHANGED <<log, floor, upto, parser, reader, seen, refused>>
  BY DEF Reconnects, serverVars
<1>2. TypeOK /\ Account(reader, seen) /\ ((conn = "exited") <=> reader.stop) /\ RefusedInv
  BY DEF Invariant
<1>3. d \in InitialBackoff..MaxBackoff /\ InitialBackoff \in Nat /\ MaxBackoff \in Nat
  BY <1>2, BoundsAssumption DEF TypeOK
<1>4. backoff' \in InitialBackoff..MaxBackoff /\ wait' \in 0..MaxBackoff
  BY <1>1, <1>3, GrownIs
<1>5. TypeOK'
  BY <1>1, <1>2, <1>4 DEF TypeOK, Steps
<1>6. BackoffInv'
  <2>1. Grown(d) \in Nat
    BY <1>3, GrownIs
  <2> QED
    BY <1>1, <2>1 DEF BackoffInv, Grown
<1>7. StreamInv' /\ RefusedInv' /\ Account(reader', seen') /\ ((conn' = "exited") <=> reader'.stop)
  BY <1>1, <1>2 DEF StreamInv, RefusedInv
<1> QED
  BY <1>5, <1>6, <1>7 DEF Invariant

LEMMA EndsInvariant == Invariant /\ (StreamCloses \/ TransportFails \/ Unavailable) => Invariant'
<1> SUFFICES ASSUME Invariant, StreamCloses \/ TransportFails \/ Unavailable PROVE Invariant'
  OBVIOUS
<1>1. conn \in {"connecting", "streaming"}
  BY DEF StreamCloses, TransportFails, Unavailable
<1>2. trouble' \in 0..Trouble
  BY BoundsAssumption DEF StreamCloses, TransportFails, Unavailable, MoreTrouble, Invariant, TypeOK
<1>3. CASE StreamCloses
  <2>1. ResetBackoff \in {InitialBackoff, backoff} /\ Reconnects(ResetBackoff, ResetBackoff, 0)
    BY <1>3 DEF StreamCloses, ResetBackoff
  <2> QED
    BY <1>1, <1>2, <2>1, ReconnectsInvariant
<1>4. CASE TransportFails
  <2>1. Reconnects(backoff, backoff, 0)
    BY <1>4 DEF TransportFails
  <2> QED
    BY <1>1, <1>2, <2>1, ReconnectsInvariant
<1>5. CASE Unavailable
  <2>1. PICK sent \in RetryAfters : Reconnects(backoff, backoff, sent)
    BY <1>5 DEF Unavailable, HeaderSeen
  <2> QED
    BY <1>1, <1>2, <2>1, ReconnectsInvariant
<1> QED
  BY <1>3, <1>4, <1>5

LEMMA RestInvariant == Invariant /\ (Rejected \/ SleepEnds \/ UNCHANGED vars) => Invariant'
<1> SUFFICES ASSUME Invariant, Rejected \/ SleepEnds \/ UNCHANGED vars PROVE Invariant'
  OBVIOUS
<1>1. UNCHANGED <<log, floor, upto, wire, cutting, parser, reader, backoff, wait, asked, trouble,
                  seen, refused>>
  BY DEF Rejected, SleepEnds, vars, serverVars, streamVars
<1>2. /\ conn' \in Steps /\ ((conn' = "exited") <=> (conn = "exited"))
      /\ conn' = "streaming" => conn = "streaming"
  BY DEF Rejected, SleepEnds, vars, Steps, Invariant, TypeOK
<1>3. TypeOK'
  BY <1>1, <1>2 DEF Invariant, TypeOK
<1>4. StreamInv'
  <2>1. Rest' = Rest /\ \A k : Continues(Rest.ready, k)' <=> Continues(Rest.ready, k)
    BY <1>1 DEF Rest, Continues
  <2> QED
    BY <1>1, <1>2, <2>1 DEF Invariant, StreamInv
<1> QED
  BY <1>1, <1>2, <1>3, <1>4 DEF Invariant, RefusedInv, BackoffInv

LEMMA NextInvariant == Invariant /\ [Next]_vars => Invariant'
BY ChunkInvariant, ServerInvariant, WritesInvariant, KeepsAliveInvariant, OpensInvariant,
   EndsInvariant, RestInvariant DEF Next

\* The invariant the properties below follow from.
THEOREM Inductive == Spec => []Invariant
BY InitInvariant, NextInvariant, PTL DEF Spec

\* The loop's locals, the server's counters and the history keep their types;
\* the cursor never runs ahead of the workspace's events (events/listen.cpp,
\* runListenLoop).
THEOREM TypeCorrect == Spec => []TypeOK
<1>1. Invariant => TypeOK
  BY DEF Invariant
<1> QED
  BY <1>1, Inductive, PTL

\* Between two snapshot.required notices no event is left out, whichever byte
\* a connection broke at: the cursor names the last event printed and a
\* frame's id is used only when its block is complete (events/listen.cpp,
\* processEvent and attempt).
THEOREM NoHoles == Spec => []SeenContiguous
<1>1. Invariant => SeenContiguous
  <2> SUFFICES ASSUME Invariant, NEW a \in seen.events, NEW b \in seen.events, NEW e \in a..b
               PROVE  e \in seen.events
    BY DEF SeenContiguous
  <2>1. PICK c \in 1..reader.cursor : seen.events = c..reader.cursor
    BY DEF Invariant, Account
  <2>2. reader.cursor \in Nat
    BY BoundsAssumption DEF Invariant, Account, Reader
  <2> QED
    BY <2>1, <2>2
<1> QED
  BY <1>1, Inductive, PTL

\* Every line printed is the payload of one event, none of a frame that a
\* disconnect cut in two: each attempt has a parser of its own
\* (events/listen.cpp, attempt).
THEOREM NoMixing == Spec => []LinesIntact
<1>1. Invariant => LinesIntact
  BY DEF Invariant, Account, LinesIntact
<1> QED
  BY <1>1, Inductive, PTL

\* --max-events N prints N domain events and exits, in the middle of a chunk
\* too, and counts no control event (events/listen.cpp, processEvent).
THEOREM LimitHolds == Spec => []StopsAtLimit
<1>1. Invariant => StopsAtLimit
  <2> SUFFICES ASSUME Invariant PROVE StopsAtLimit
    OBVIOUS
  <2>1. /\ seen.lines = reader.total /\ reader.total \in Nat /\ MaxEvents \in Nat
        /\ MaxEvents # 0 => reader.total <= MaxEvents
        /\ conn = "exited" => MaxEvents # 0 /\ reader.total >= MaxEvents
    BY BoundsAssumption DEF Invariant, Account, Reader
  <2> QED
    BY <2>1 DEF StopsAtLimit
<1> QED
  BY <1>1, Inductive, PTL

\* A cursor that was answered by snapshot.required is never presented again,
\* not after any number of disconnects: whatever the server starts with
\* lies behind it (events/listen.cpp, processEvent).
THEOREM NeverAskedAgain == Spec => []ExpiredCursorDropped
<1>1. Invariant => ExpiredCursorDropped
  <2> SUFFICES ASSUME Invariant, reader.cursor \in refused PROVE FALSE
    BY DEF ExpiredCursorDropped
  <2>1. reader.cursor \in Nat /\ reader.cursor # NoCursor
    BY BoundsAssumption DEF Invariant, TypeOK, Event, NoCursor
  <2>2. reader.cursor < reader.cursor
    BY <2>1 DEF Invariant, RefusedInv
  <2> QED
    BY <2>1, <2>2
<1> QED
  BY <1>1, Inductive, PTL

\* A wait is at least twice the one before, up to the maximum, unless the
\* connection in between delivered an event (events/listen.cpp, growBackoff
\* and the tail of runListenLoop).
THEOREM WaitsGrow == Spec => SlowsDown
<1> DEFINE Step == conn' = "sleeping" /\ conn # "sleeping" =>
                     \/ conn = "streaming" /\ reader.here
                     \/ wait' >= Min({2 * wait, MaxBackoff})
<1>1. Invariant /\ [Next]_vars => [Step]_vars
  <2> SUFFICES ASSUME Invariant, Next, conn' = "sleeping", conn # "sleeping",
                      ~(conn = "streaming" /\ reader.here)
               PROVE  wait' >= Min({2 * wait, MaxBackoff})
    OBVIOUS
  <2>1. StreamCloses \/ TransportFails \/ Unavailable
    BY DEF Next, EventOccurs, EventExpires, ServerWrites, ServerKeepsAlive, Chunk, StreamOpens,
           Rejected, SleepEnds
  <2>2. wait' = backoff
    BY <2>1 DEF StreamCloses, TransportFails, Unavailable, Reconnects, ResetBackoff, HeaderSeen
  <2> QED
    BY <2>2 DEF Invariant, BackoffInv, Grown
<1> QED
  BY <1>1, Inductive, PTL DEF Spec, SlowsDown

-----------------------------------------------------------------------------
(***************************************************************************)
(* A whole stream                                                          *)
(*                                                                         *)
(* What is read is the complete lines and some tokens of the next          *)
(* (Received), line after line makes the parser what After says of it, and *)
(* the tokens of an unfinished line stay in the buffer (FeedInside).       *)
(***************************************************************************)
\* A recursive function of 0..N exists: each value is made from the one before.
Follows(f, N, z, G) == f[0] = z /\ \A i \in 1..N : f[i] = G[i][f[i - 1]]

LEMMA Recursion ==
    ASSUME NEW X, NEW z \in X, NEW N \in Nat, NEW G, \A i \in 1..N : G[i] \in [X -> X]
    PROVE  \E f \in [0..N -> X] : Follows(f, N, z, G)
<1> DEFINE Upto(n, f) == f[0] = z /\ \A i \in 1..n : f[i] = G[i][f[i - 1]]
           S == {n \in Nat : n <= N => \E f \in [0..n -> X] : Upto(n, f)}
<1>1. 0 \in S
  <2>1. [i \in 0..0 |-> z] \in [0..0 -> X] /\ Upto(0, [i \in 0..0 |-> z])
    OBVIOUS
  <2> QED
    BY <2>1
<1>2. ASSUME NEW n \in Nat, n \in S PROVE n + 1 \in S
  <2> SUFFICES ASSUME n + 1 <= N PROVE \E f \in [0..(n + 1) -> X] : Upto(n + 1, f)
    OBVIOUS
  <2>1. PICK f \in [0..n -> X] : Upto(n, f)
    BY <1>2
  <2> DEFINE g == [i \in 0..(n + 1) |-> IF i = n + 1 THEN G[n + 1][f[n]] ELSE f[i]]
  <2>2. G[n + 1] \in [X -> X] /\ f[n] \in X
    BY <2>1
  <2>3. G[n + 1][f[n]] \in X
    BY <2>2
  <2>4. g \in [0..(n + 1) -> X]
    BY <2>1, <2>3
  <2>5. g[0] = z
    BY <2>1
  <2>6. ASSUME NEW i \in 1..(n + 1) PROVE g[i] = G[i][g[i - 1]]
    <3>1. i - 1 \in 0..n /\ g[i - 1] = f[i - 1]
      OBVIOUS
    <3>2. CASE i = n + 1
      BY <3>1, <3>2
    <3>3. CASE i \in 1..n
      BY <2>1, <3>1, <3>3
    <3> QED
      BY <3>2, <3>3
  <2> HIDE DEF g
  <2> QED
    BY <2>4, <2>5, <2>6
<1>3. Nat \subseteq S
  <2> HIDE DEF S
  <2> QED
    BY <1>1, <1>2, SetInduction
<1> QED
  BY <1>3 DEF Follows

LEMMA FollowsTyped ==
    ASSUME NEW X, NEW N \in Nat, NEW w, w[0] \in X,
           \A i \in 1..N : w[i - 1] \in X => w[i] \in X
    PROVE  \A n \in 0..N : w[n] \in X
<1> DEFINE S == {n \in Nat : n <= N => w[n] \in X}
<1>1. 0 \in S
  OBVIOUS
<1>2. ASSUME NEW n \in Nat, n \in S PROVE n + 1 \in S
  <2> SUFFICES ASSUME n + 1 <= N PROVE w[n + 1] \in X
    OBVIOUS
  <2>1. n + 1 \in 1..N /\ (n + 1) - 1 = n /\ w[n] \in X
    BY <1>2
  <2> QED
    BY <2>1
<1>3. Nat \subseteq S
  <2> HIDE DEF S
  <2> QED
    BY <1>1, <1>2, SetInduction
<1> QED
  BY <1>3

\* Tokens that end no line, and lines that end in no carriage return.
Inside == Token \ {LF}
Lines == {line \in Seq(Inside) : line # <<>> => Last(line) # CR}
Ends == {<<LF>>, <<CR, LF>>}

LEMMA InsideIs ==
    /\ \A s \in Seq(Inside) : s \in Value
    /\ \A e \in Ends : e \in Value
    /\ \A l \in Lines : l \in Value
    /\ <<>> \in Value /\ <<>> \in Seq(Inside)
<1>1. \A s \in Seq(Inside) : s \in Value
  BY DEF Inside, Value
<1>2. \A e \in Ends : e \in Value
  <2>1. \A a, b \in Token : <<a>> \in Value /\ <<a, b>> \in Value
    BY DEF Value
  <2>2. CR \in Token /\ LF \in Token
    BY TokensAre DEF Tokens
  <2> QED
    BY <2>1, <2>2 DEF Ends
<1> QED
  BY <1>1, <1>2, EmptySeq DEF Lines, Value

\* Tokens that end no line go to the buffer.
LEMMA FeedInside ==
    ASSUME NEW p \in Parser, NEW s \in Seq(Inside)
    PROVE  Feed(p, s) = [p EXCEPT !.buffer = @ \o s]
<1> DEFINE S == {u \in Seq(Inside) : Feed(p, u) = [p EXCEPT !.buffer = @ \o u]}
<1>1. <<>> \in S
  <2>1. p.buffer \o <<>> = p.buffer
    BY ConcatEmptySeq DEF Parser, Value
  <2>2. [p EXCEPT !.buffer = p.buffer] = p
    BY DEF Parser
  <2> QED
    BY <2>1, <2>2, FeedEmpty, EmptySeq
<1>2. ASSUME NEW u \in Seq(Inside), NEW token \in Inside, u \in S PROVE Append(u, token) \in S
  <2>1. token \in Token /\ token # LF /\ u \in Value /\ p.buffer \in Value
    BY InsideIs DEF Inside, Parser
  <2>2. Feed(p, Append(u, token)) = Absorb([p EXCEPT !.buffer = @ \o u], token)
    <3>1. Feed(p, Append(u, token)) = Absorb(Feed(p, u), token)
      BY <2>1, FeedAppend DEF Value
    <3> QED
      BY <1>2, <3>1
  <2> DEFINE b == p.buffer \o u
             q == [p EXCEPT !.buffer = b]
  <2>3. Absorb(q, token) = [q EXCEPT !.buffer = Append(@, token)]
    BY <2>1 DEF Absorb
  <2>4. q.buffer = b /\ \A v : [q EXCEPT !.buffer = v] = [p EXCEPT !.buffer = v]
    <3> HIDE DEF b
    <3> QED
      BY DEF Parser
  <2>5. Append(b, token) = p.buffer \o Append(u, token)
    <3>1. \A x, y \in Value : \A t \in Token : Append(x \o y, t) = x \o Append(y, t)
      <4> SUFFICES ASSUME NEW x \in Value, NEW y \in Value, NEW t \in Token
                   PROVE  Append(x \o y, t) = x \o Append(y, t)
        OBVIOUS
      <4>1. x \o y \in Seq(Token) /\ <<t>> \in Seq(Token)
        BY ConcatProperties DEF Value
      <4>2. (x \o y) \o <<t>> = x \o (y \o <<t>>)
        BY <4>1, ConcatAssociative DEF Value
      <4> QED
        BY <4>1, <4>2, AppendIsConcat DEF Value
    <3> QED
      BY <2>1, <3>1
  <2>6. Absorb(q, token) = [p EXCEPT !.buffer = p.buffer \o Append(u, token)]
    <3> HIDE DEF q, b
    <3>1. Absorb(q, token) = [q EXCEPT !.buffer = Append(b, token)]
      BY <2>3, <2>4
    <3> QED
      BY <2>4, <2>5, <3>1
  <2> QED
    BY <2>2, <2>6, AppendProperties
<1>3. Seq(Inside) \subseteq S
  <2> HIDE DEF S
  <2> QED
    BY <1>1, <1>2, SeqInduction
<1> QED
  BY <1>3

\* A line with its end is processed, whichever end it has.
LEMMA FeedEnded ==
    ASSUME NEW p \in Parser, p.buffer = <<>>, NEW l \in Lines, NEW e \in Ends
    PROVE  Feed(p, l \o e) = ProcessLine(p, l)
<1>1. l \in Seq(Inside) /\ l \in Value /\ e \in Value /\ LF \in Token /\ CR \in Token /\ CR # LF
      /\ Len(l) \in Nat
  BY InsideIs, TokensAre DEF Lines, Tokens, CR, LF
<1> DEFINE q == [p EXCEPT !.buffer = l]
<1>2. Feed(p, l \o e) = Feed(q, e)
  <2>1. <<>> \o l = l
    BY <1>1, ConcatEmptySeq DEF Value
  <2>2. Feed(p, l) = [p EXCEPT !.buffer = <<>> \o l]
    BY <1>1, FeedInside
  <2> QED
    BY <1>1, <2>1, <2>2, FeedJoin
<1>3. q.buffer = l /\ (\A v : [q EXCEPT !.buffer = v] = [p EXCEPT !.buffer = v])
      /\ [p EXCEPT !.buffer = <<>>] = p
  BY DEF Parser
<1> HIDE DEF q
<1>4. CASE e = <<LF>>
  <2>1. Line(l) = l
    BY DEF Line, Lines
  <2>2. Feed(q, e) = Absorb(q, LF)
    BY <1>1, <1>4, FeedOne
  <2> QED
    BY <1>2, <1>3, <2>1, <2>2 DEF Absorb
<1>5. CASE e = <<CR, LF>>
  <2> DEFINE c == Append(l, CR)
             r == [q EXCEPT !.buffer = c]
  <2>1. Line(c) = l
    <3>1. Len(c) = Len(l) + 1 /\ c[Len(l) + 1] = CR /\ c # <<>>
      BY <1>1, AppendProperties DEF Value
    <3>2. SubSeq(c, 1, Len(l)) = l
      <4>1. \A s \in Value, t \in Token : SubSeq(Append(s, t), 1, Len(s)) = s
        BY DEF Value
      <4> QED
        BY <1>1, <4>1
    <3> HIDE DEF c
    <3>3. Last(c) = CR /\ Front(c) = l
      BY <1>1, <3>1, <3>2 DEF Last, Front
    <3> QED
      BY <3>1, <3>3 DEF Line
  <2>2. Absorb(q, CR) = r
    BY <1>1, <1>3 DEF Absorb
  <2>3. r.buffer = c /\ [r EXCEPT !.buffer = <<>>] = p
    <3> HIDE DEF c
    <3> QED
      BY <1>3 DEF Parser, q
  <2> HIDE DEF c, r
  <2>4. Absorb(r, LF) = ProcessLine(p, l)
    BY <2>1, <2>3 DEF Absorb
  <2>5. Feed(q, e) = Absorb(Absorb(q, CR), LF)
    <3> DEFINE one == <<CR>>
    <3>1. Feed(q, one) = Absorb(q, CR) /\ one \in Value
      BY <1>1, FeedOne DEF Value
    <3>2. e = Append(one, LF)
      <4>1. \A a, b \in Token : <<a, b>> = Append(<<a>>, b)
        OBVIOUS
      <4> QED
        BY <1>1, <1>5, <4>1
    <3> HIDE DEF one
    <3>3. Feed(q, e) = Absorb(Feed(q, one), LF)
      BY <1>1, <3>1, <3>2, FeedToken
    <3> QED
      BY <3>1, <3>3
  <2> QED
    BY <1>2, <2>2, <2>4, <2>5
<1> QED
  BY <1>4, <1>5 DEF Ends

-----------------------------------------------------------------------------
\* The recursive functions of the reference, without the recursion.
LEMMA WrittenIs ==
    ASSUME lines \in Seq(Value), ending \in Value
    PROVE  /\ Written \in [0..Len(lines) -> Value]
           /\ Written[0] = <<>>
           /\ \A n \in 1..Len(lines) : Written[n] = Written[n - 1] \o lines[n] \o ending
<1> DEFINE Def(f) == f = [n \in 0..Len(lines) |->
                             IF n = 0 THEN <<>> ELSE f[n - 1] \o lines[n] \o ending]
           G == [i \in 1..Len(lines) |-> [s \in Value |-> s \o lines[i] \o ending]]
<1>1. <<>> \in Value /\ Len(lines) \in Nat /\ \A i \in 1..Len(lines) : lines[i] \in Value
  BY InsideIs, ElementOfSeq
<1>2. \A i \in 1..Len(lines) : G[i] \in [Value -> Value]
  <2> SUFFICES ASSUME NEW i \in 1..Len(lines) PROVE G[i] \in [Value -> Value]
    OBVIOUS
  <2>1. ASSUME NEW s \in Value PROVE s \o lines[i] \o ending \in Value
    <3>1. s \o lines[i] \in Value
      BY <1>1, FeedJoin
    <3> QED
      BY <3>1, FeedJoin
  <2> QED
    BY <2>1
<1>3. PICK f \in [0..Len(lines) -> Value] : Follows(f, Len(lines), <<>>, G)
  <2> HIDE DEF G
  <2> QED
    BY <1>1, <1>2, Recursion, Zenon
<1>4. f[0] = <<>> /\ \A i \in 1..Len(lines) : f[i] = f[i - 1] \o lines[i] \o ending
  <2> SUFFICES ASSUME NEW i \in 1..Len(lines) PROVE f[i] = f[i - 1] \o lines[i] \o ending
    BY <1>3 DEF Follows
  <2>1. f[i - 1] \in Value
    <3>1. i - 1 \in 0..Len(lines)
      BY <1>1
    <3> QED
      BY <1>3, <3>1
  <2>2. f[i] = G[i][f[i - 1]]
    BY <1>3 DEF Follows
  <2> QED
    BY <2>1, <2>2
<1>5. Def(f)
  <2>1. \A n \in 0..Len(lines) : f[n] = IF n = 0 THEN <<>> ELSE f[n - 1] \o lines[n] \o ending
    BY <1>1, <1>4
  <2> HIDE DEF G
  <2>2. f = [n \in 0..Len(lines) |-> f[n]]
    BY <1>3
  <2> QED
    BY <2>1, <2>2
<1>6. Def(CHOOSE g : Def(g))
  <2> HIDE DEF Def
  <2> QED
    BY <1>5
<1>7. Def(Written)
  BY <1>6 DEF Written
<1> DEFINE W == Written
<1>8. /\ \A n \in 1..Len(lines) : W[n] = W[n - 1] \o lines[n] \o ending
      /\ W[0] = <<>> /\ W = [n \in 0..Len(lines) |-> W[n]]
  <2> HIDE DEF W
  <2>1. Def(W)
    BY <1>7 DEF W
  <2> QED
    BY <1>1, <2>1
<1> HIDE DEF W
<1>9. \A n \in 0..Len(lines) : W[n] \in Value
  <2>1. \A n \in 1..Len(lines) : W[n - 1] \in Value => W[n] \in Value
    <3> SUFFICES ASSUME NEW n \in 1..Len(lines), W[n - 1] \in Value PROVE W[n] \in Value
      OBVIOUS
    <3>1. W[n - 1] \o lines[n] \in Value
      BY <1>1, FeedJoin
    <3>2. (W[n - 1] \o lines[n]) \o ending \in Value
      BY <3>1, FeedJoin
    <3> QED
      BY <1>8, <3>2
  <2> QED
    BY <1>1, <1>8, <2>1, FollowsTyped
<1>10. W \in [0..Len(lines) -> Value]
  BY <1>8, <1>9
<1> QED
  BY <1>8, <1>10 DEF W

\* What a field has after one line more.
Taking(values, field, line) ==
    IF Head(line) = field THEN Append(values, Tail(line)) ELSE values

Nonblank == Value \ {<<>>}

LEMMA TakingType ==
    ASSUME NEW line \in Nonblank, NEW values \in Seq(Value), NEW field
    PROVE  Taking(values, field, line) \in Seq(Value)
BY HeadTailProperties, AppendProperties DEF Taking, Nonblank, Value

\* The recursion of Values.
Takes(f, field, block) ==
    f = [n \in 0..Len(block) |-> IF n = 0 THEN <<>> ELSE Taking(f[n - 1], field, block[n])]

LEMMA TakesExists ==
    ASSUME NEW field, NEW block \in Seq(Nonblank)
    PROVE  \E f : Takes(f, field, block)
<1> DEFINE G == [i \in 1..Len(block) |-> [v \in Seq(Value) |-> Taking(v, field, block[i])]]
<1>1. <<>> \in Seq(Value) /\ Len(block) \in Nat /\ \A i \in 1..Len(block) : block[i] \in Nonblank
  BY EmptySeq, ElementOfSeq
<1>2. \A i \in 1..Len(block) : G[i] \in [Seq(Value) -> Seq(Value)]
  BY <1>1, TakingType
<1>3. PICK f \in [0..Len(block) -> Seq(Value)] : Follows(f, Len(block), <<>>, G)
  <2> HIDE DEF G
  <2> QED
    BY <1>1, <1>2, Recursion, Zenon
<1>4. f[0] = <<>> /\ \A i \in 1..Len(block) : f[i] = Taking(f[i - 1], field, block[i])
  <2> SUFFICES ASSUME NEW i \in 1..Len(block) PROVE f[i] = Taking(f[i - 1], field, block[i])
    BY <1>3 DEF Follows
  <2>1. f[i - 1] \in Seq(Value)
    <3>1. i - 1 \in 0..Len(block)
      BY <1>1
    <3> QED
      BY <1>3, <3>1
  <2>2. f[i] = G[i][f[i - 1]]
    BY <1>3 DEF Follows
  <2> QED
    BY <2>1, <2>2
<1>5. \A n \in 0..Len(block) : f[n] = IF n = 0 THEN <<>> ELSE Taking(f[n - 1], field, block[n])
  BY <1>1, <1>4
<1>6. f = [n \in 0..Len(block) |-> f[n]]
  BY <1>3
<1>7. Takes(f, field, block)
  <2> HIDE DEF G
  <2> QED
    BY <1>5, <1>6 DEF Takes
<1> QED
  BY <1>7

LEMMA ValuesAre ==
    ASSUME NEW field, NEW block \in Seq(Nonblank)
    PROVE  \E f : Takes(f, field, block) /\ Values(block, field) = f[Len(block)]
<1>1. Takes((CHOOSE f : Takes(f, field, block)), field, block)
  BY TakesExists
<1>2. Values(block, field) = (CHOOSE f : Takes(f, field, block))[Len(block)]
  BY DEF Values, Takes, Taking
<1> QED
  BY <1>1, <1>2

LEMMA ValuesOfNothing == ASSUME NEW field PROVE Values(<<>>, field) = <<>>
<1>1. PICK f : Takes(f, field, <<>>) /\ Values(<<>>, field) = f[Len(<<>>)]
  BY EmptySeq, ValuesAre
<1> QED
  BY <1>1, EmptySeq DEF Takes

LEMMA ValuesType ==
    ASSUME NEW field, NEW block \in Seq(Nonblank)
    PROVE  Values(block, field) \in Seq(Value)
<1>1. PICK f : Takes(f, field, block) /\ Values(block, field) = f[Len(block)]
  BY ValuesAre
<1>2. Len(block) \in Nat /\ \A i \in 1..Len(block) : block[i] \in Nonblank
  BY ElementOfSeq
<1>3. f[0] = <<>> /\ \A i \in 1..Len(block) : f[i] = Taking(f[i - 1], field, block[i])
  BY <1>1, <1>2 DEF Takes
<1>4. f[0] \in Seq(Value)
  BY <1>3, EmptySeq
<1>5. \A i \in 1..Len(block) : f[i - 1] \in Seq(Value) => f[i] \in Seq(Value)
  BY <1>2, <1>3, TakingType
<1>6. \A n \in 0..Len(block) : f[n] \in Seq(Value)
  BY <1>2, <1>4, <1>5, FollowsTyped
<1> QED
  BY <1>1, <1>2, <1>6

LEMMA ValuesAppend ==
    ASSUME NEW field, NEW block \in Seq(Nonblank), NEW line \in Nonblank
    PROVE  Values(Append(block, line), field) = Taking(Values(block, field), field, line)
<1> DEFINE more == Append(block, line)
<1>1. /\ more \in Seq(Nonblank) /\ Len(more) = Len(block) + 1 /\ Len(block) \in Nat
      /\ \A i \in 1..Len(block) : more[i] = block[i]
      /\ more[Len(block) + 1] = line
  BY AppendProperties
<1> HIDE DEF more
<1>2. PICK f : Takes(f, field, block) /\ Values(block, field) = f[Len(block)]
  BY ValuesAre
<1>3. PICK g : Takes(g, field, more) /\ Values(more, field) = g[Len(more)]
  BY <1>1, ValuesAre
<1>4. f[0] = g[0] /\ \A i \in 1..Len(block) : f[i - 1] = g[i - 1] => f[i] = g[i]
  <2>1. f[0] = <<>> /\ g[0] = <<>>
    BY <1>1, <1>2, <1>3 DEF Takes
  <2>2. ASSUME NEW i \in 1..Len(block), f[i - 1] = g[i - 1] PROVE f[i] = g[i]
    <3>1. i \in 0..Len(block) /\ i \in 0..Len(more) /\ i # 0 /\ more[i] = block[i]
      BY <1>1
    <3>2. f[i] = Taking(f[i - 1], field, block[i])
      BY <1>2, <3>1 DEF Takes
    <3>3. g[i] = Taking(g[i - 1], field, more[i])
      BY <1>3, <3>1 DEF Takes
    <3> QED
      BY <2>2, <3>1, <3>2, <3>3
  <2> QED
    BY <2>1, <2>2
<1>5. f[Len(block)] = g[Len(block)]
  <2> DEFINE S == {n \in Nat : n <= Len(block) => f[n] = g[n]}
  <2>1. 0 \in S
    BY <1>4
  <2>2. ASSUME NEW n \in Nat, n \in S PROVE n + 1 \in S
    <3> SUFFICES ASSUME n + 1 <= Len(block) PROVE f[n + 1] = g[n + 1]
      OBVIOUS
    <3>1. n + 1 \in 1..Len(block) /\ (n + 1) - 1 = n /\ f[n] = g[n]
      BY <1>1, <2>2
    <3> QED
      BY <1>4, <3>1
  <2>3. Nat \subseteq S
    <3> HIDE DEF S
    <3> QED
      BY <2>1, <2>2, SetInduction
  <2> QED
    BY <1>1, <2>3
<1>6. g[Len(block) + 1] = Taking(g[Len(block)], field, line)
  <2>1. /\ Len(block) + 1 \in 0..Len(more) /\ Len(block) + 1 # 0
        /\ (Len(block) + 1) - 1 = Len(block)
    BY <1>1
  <2> QED
    BY <1>1, <1>3, <2>1 DEF Takes
<1> QED
  BY <1>1, <1>2, <1>3, <1>5, <1>6 DEF more

-----------------------------------------------------------------------------
\* The blocks.  Open(n) is what has been said since the last blank line among
\* the first n lines.
LinesAre == lines \in Seq(Lines) /\ ending \in Ends

LatestBlank(n) == Max({0} \cup Blanks(n))
Open(n) == SubSeq(lines, LatestBlank(n) + 1, n)

LEMMA BlockIsOpen == ASSUME NEW n \in Nat PROVE Block(n + 1) = Open(n)
<1>1. (n + 1) - 1 = n
  OBVIOUS
<1> QED
  BY <1>1 DEF Block, Open, LatestBlank

LEMMA MaxIs ==
    ASSUME NEW b \in Nat, NEW S \in SUBSET (0..b), S # {}
    PROVE  Max(S) \in S /\ \A k \in S : k <= Max(S)
<1> DEFINE R == {k \in Nat : b - k \in S}
<1>1. R # {}
  <2>1. PICK k \in S : TRUE
    OBVIOUS
  <2>2. b - k \in Nat /\ b - (b - k) = k
    BY <2>1
  <2>3. b - k \in R
    BY <2>1, <2>2
  <2> QED
    BY <2>3
<1>2. PICK m \in R : \A k \in R : ~(k < m)
  <2>1. IsWellFoundedOn(OpToRel(<, Nat), Nat)
    BY NatLessThanWellFounded
  <2>2. PICK m \in R : \A k \in R : <<k, m>> \notin OpToRel(<, Nat)
    BY <1>1, <2>1, WFMin
  <2> QED
    BY <2>2 DEF OpToRel
<1>3. \A k \in S : b - m >= k
  <2> SUFFICES ASSUME NEW k \in S PROVE b - m >= k
    OBVIOUS
  <2>1. b - k \in Nat /\ b - (b - k) = k
    OBVIOUS
  <2>2. b - k \in R
    BY <2>1
  <2>3. ~(b - k < m)
    BY <1>2, <2>2
  <2> QED
    BY <2>1, <2>3
<1>4. \E x \in S : \A k \in S : x >= k
  BY <1>2, <1>3
<1>5. Max(S) \in S /\ \A k \in S : Max(S) >= k
  BY <1>4 DEF Max
<1> QED
  BY <1>5

LEMMA LatestBlankIs ==
    ASSUME NEW n \in Nat
    PROVE  /\ LatestBlank(n) \in 0..n
           /\ \A i \in Blanks(n) : i <= LatestBlank(n)
           /\ LatestBlank(n) = 0 \/ LatestBlank(n) \in Blanks(n)
<1>1. {0} \cup Blanks(n) \in SUBSET (0..n) /\ {0} \cup Blanks(n) # {}
  BY DEF Blanks
<1>2. LatestBlank(n) \in {0} \cup Blanks(n) /\ \A k \in {0} \cup Blanks(n) : k <= LatestBlank(n)
  BY <1>1, MaxIs DEF LatestBlank
<1> QED
  BY <1>1, <1>2

LEMMA OpenType ==
    ASSUME LinesAre, NEW n \in 0..Len(lines)
    PROVE  Open(n) \in Seq(Nonblank)
<1>1. Len(lines) \in Nat /\ n \in Nat /\ \A i \in 1..Len(lines) : lines[i] \in Lines
  BY ElementOfSeq DEF LinesAre
<1>2. LatestBlank(n) \in 0..n /\ \A i \in Blanks(n) : i <= LatestBlank(n)
  BY <1>1, LatestBlankIs
<1>3. ASSUME NEW i \in (LatestBlank(n) + 1)..n PROVE lines[i] \in Nonblank
  <2>1. i \in 1..n /\ i \in 1..Len(lines) /\ ~(i <= LatestBlank(n))
    BY <1>1, <1>2
  <2>2. i \notin Blanks(n)
    BY <1>2, <2>1
  <2>3. lines[i] # <<>>
    BY <2>1, <2>2 DEF Blanks
  <2> QED
    BY <1>1, <2>1, <2>3, InsideIs DEF Nonblank
<1>4. LatestBlank(n) + 1 \in Int /\ n \in Int
  BY <1>1, <1>2
<1> QED
  BY <1>3, <1>4, SubSeqProperties DEF Open

LEMMA OpenAtBlank ==
    ASSUME LinesAre, NEW n \in Nat, lines[n + 1] = <<>>
    PROVE  Open(n + 1) = <<>>
<1>1. n + 1 \in Blanks(n + 1)
  BY DEF Blanks
<1>2. LatestBlank(n + 1) = n + 1
  BY <1>1, LatestBlankIs
<1> QED
  BY <1>2, SubSeqEmpty DEF Open

LEMMA OpenAtLine ==
    ASSUME LinesAre, NEW n \in 0..Len(lines), n + 1 <= Len(lines), lines[n + 1] # <<>>
    PROVE  Open(n + 1) = Append(Open(n), lines[n + 1])
<1>1. Len(lines) \in Nat /\ n \in Nat /\ n + 1 \in 1..Len(lines)
  BY DEF LinesAre
<1>2. Blanks(n + 1) = Blanks(n)
  BY <1>1 DEF Blanks
<1>3. LatestBlank(n + 1) = LatestBlank(n)
  BY <1>2 DEF LatestBlank
<1>4. LatestBlank(n) + 1 \in 1..Len(lines) /\ n + 1 \in (LatestBlank(n) + 1)..Len(lines) /\ (n + 1) - 1 = n
  BY <1>1, LatestBlankIs
<1>5. Open(n + 1) = SubSeq(lines, LatestBlank(n) + 1, n) \o <<lines[n + 1]>>
  <2>1. SubSeq(lines, LatestBlank(n) + 1, n + 1)
          = SubSeq(lines, LatestBlank(n) + 1, (n + 1) - 1) \o <<lines[n + 1]>>
    BY <1>4, SubSeqRecursiveSecond DEF LinesAre
  <2> QED
    BY <1>3, <1>4, <2>1 DEF Open
<1>6. Open(n) \in Seq(Nonblank) /\ lines[n + 1] \in Nonblank
  <2>1. lines[n + 1] \in Lines
    BY <1>1, ElementOfSeq DEF LinesAre
  <2> QED
    BY <2>1, OpenType, InsideIs DEF Nonblank
<1> QED
  BY <1>5, <1>6, AppendIsConcat DEF Open

LEMMA LastValueIs ==
    /\ LastValue(<<>>) = <<>>
    /\ \A vs \in Seq(Value) : LastValue(vs) \in Value
    /\ \A vs \in Seq(Value), v \in Value : LastValue(Append(vs, v)) = v
<1>1. LastValue(<<>>) = <<>>
  BY DEF LastValue
<1>2. ASSUME NEW vs \in Seq(Value) PROVE LastValue(vs) \in Value
  <2>1. CASE vs = <<>>
    BY <2>1, <1>1, InsideIs
  <2>2. CASE vs # <<>>
    <3>1. Len(vs) \in 1..Len(vs)
      BY <2>2, EmptySeq
    <3> QED
      BY <2>2, <3>1, ElementOfSeq DEF LastValue, Last
  <2> QED
    BY <2>1, <2>2
<1>3. ASSUME NEW vs \in Seq(Value), NEW v \in Value PROVE LastValue(Append(vs, v)) = v
  BY AppendProperties DEF LastValue, Last
<1> QED
  BY <1>1, <1>2, <1>3

LEMMA MeaningIs ==
    ASSUME LinesAre, NEW n \in 0..Len(lines)
    PROVE  /\ Meaning(n + 1) = [id |-> LastValue(Values(Open(n), IdField)),
                                name |-> LastValue(Values(Open(n), EventField)),
                                data |-> Values(Open(n), DataField)]
           /\ Meaning(n + 1) \in BlockRecord
<1>1. n \in Nat /\ Open(n) \in Seq(Nonblank)
  BY OpenType DEF LinesAre
<1>2. Meaning(n + 1) = [id |-> LastValue(Values(Open(n), IdField)),
                        name |-> LastValue(Values(Open(n), EventField)),
                        data |-> Values(Open(n), DataField)]
  BY <1>1, BlockIsOpen DEF Meaning
<1>3. \A field : Values(Open(n), field) \in Seq(Value)
  BY <1>1, ValuesType
<1>4. \A field : LastValue(Values(Open(n), field)) \in Value
  BY <1>3, LastValueIs
<1> QED
  BY <1>2, <1>3, <1>4 DEF BlockRecord

LEMMA EventsAre ==
    ASSUME LinesAre
    PROVE  /\ Events[0] = <<>>
           /\ \A n \in 0..Len(lines) : n + 1 <= Len(lines) =>
                 Events[n + 1] = IF lines[n + 1] = <<>> /\ Meaning(n + 1).data # <<>>
                                 THEN Append(Events[n], Meaning(n + 1))
                                 ELSE Events[n]
<1> DEFINE Add(n, events) == IF lines[n] = <<>> /\ Meaning(n).data # <<>>
                             THEN Append(events, Meaning(n)) ELSE events
           Def(f) == f = [n \in 0..Len(lines) |-> IF n = 0 THEN <<>> ELSE Add(n, f[n - 1])]
           X == Seq(BlockRecord)
           G == [i \in 1..Len(lines) |-> [e \in X |-> Add(i, e)]]
<1>1. Len(lines) \in Nat /\ <<>> \in X
  BY EmptySeq DEF LinesAre
<1>2. \A i \in 1..Len(lines) : \A e \in X : Add(i, e) \in X
  <2> SUFFICES ASSUME NEW i \in 1..Len(lines), NEW e \in X PROVE Add(i, e) \in X
    OBVIOUS
  <2>1. i - 1 \in 0..Len(lines) /\ (i - 1) + 1 = i
    BY <1>1
  <2>2. Meaning(i) \in BlockRecord
    BY <2>1, MeaningIs
  <2> QED
    BY <2>2, AppendProperties
<1>3. PICK f \in [0..Len(lines) -> X] : Follows(f, Len(lines), <<>>, G)
  <2>1. \A i \in 1..Len(lines) : G[i] \in [X -> X]
    <3> HIDE DEF Add, X
    <3> QED
      BY <1>2
  <2> HIDE DEF G, X
  <2> QED
    BY <1>1, <2>1, Recursion, Zenon
<1> HIDE DEF Add, X
<1>4. f[0] = <<>> /\ \A i \in 1..Len(lines) : f[i] = Add(i, f[i - 1])
  <2> SUFFICES ASSUME NEW i \in 1..Len(lines) PROVE f[i] = Add(i, f[i - 1])
    BY <1>3 DEF Follows
  <2>1. f[i - 1] \in X
    <3>1. i - 1 \in 0..Len(lines)
      BY <1>1
    <3> QED
      BY <1>3, <3>1
  <2>2. f[i] = G[i][f[i - 1]]
    BY <1>3 DEF Follows
  <2> QED
    BY <2>1, <2>2
<1>5. Def(f)
  <2>1. \A n \in 0..Len(lines) : f[n] = IF n = 0 THEN <<>> ELSE Add(n, f[n - 1])
    BY <1>1, <1>4
  <2> HIDE DEF G
  <2>2. f = [n \in 0..Len(lines) |-> f[n]]
    BY <1>3
  <2> QED
    BY <2>1, <2>2
<1>6. Def(CHOOSE g : Def(g))
  <2> HIDE DEF Def
  <2> QED
    BY <1>5
<1>7. Def(Events)
  BY <1>6 DEF Events, Add
<1>8. Events[0] = <<>>
  <2> DEFINE E == Events
  <2> HIDE DEF E
  <2>1. Def(E)
    BY <1>7 DEF E
  <2>2. E[0] = <<>>
    BY <1>1, <2>1
  <2> QED
    BY <2>2 DEF E
<1>9. ASSUME NEW n \in 0..Len(lines), n + 1 <= Len(lines)
      PROVE  Events[n + 1] = Add(n + 1, Events[n])
  <2> DEFINE E == Events
  <2> HIDE DEF E
  <2>1. Def(E)
    BY <1>7 DEF E
  <2>2. n + 1 \in 0..Len(lines) /\ n + 1 # 0 /\ (n + 1) - 1 = n
    BY <1>1, <1>9
  <2>3. E[n + 1] = Add(n + 1, E[n])
    BY <2>1, <2>2
  <2> QED
    BY <2>3 DEF E
<1> QED
  BY <1>8, <1>9 DEF Add

LEMMA LatestIdAtLine ==
    ASSUME LinesAre, NEW n \in Nat, lines[n + 1] # <<>>
    PROVE  LatestId(n + 1) = LatestId(n)
<1>1. Blanks(n + 1) = Blanks(n)
  BY DEF Blanks
<1>2. Identified(n + 1) = Identified(n)
  BY <1>1 DEF Identified
<1> QED
  BY <1>2 DEF LatestId

LEMMA LatestIdAtBlank ==
    ASSUME LinesAre, NEW n \in Nat, lines[n + 1] = <<>>
    PROVE  LatestId(n + 1) = IF Meaning(n + 1).id = <<>> THEN LatestId(n) ELSE Meaning(n + 1).id
<1>1. Blanks(n + 1) = Blanks(n) \cup {n + 1}
  BY DEF Blanks
<1>2. CASE Meaning(n + 1).id = <<>>
  <2>1. Identified(n + 1) = Identified(n)
    BY <1>1, <1>2 DEF Identified
  <2> QED
    BY <1>2, <2>1 DEF LatestId
<1>3. CASE Meaning(n + 1).id # <<>>
  <2>1. n + 1 \in Identified(n + 1)
    BY <1>1, <1>3 DEF Identified
  <2>2. Identified(n + 1) \in SUBSET (0..(n + 1))
    BY DEF Identified, Blanks
  <2>3. Max(Identified(n + 1)) \in Identified(n + 1) /\ n + 1 <= Max(Identified(n + 1))
    <3> DEFINE S == Identified(n + 1)
    <3> HIDE DEF S
    <3>1. n + 1 \in Nat /\ S \in SUBSET (0..(n + 1)) /\ S # {} /\ n + 1 \in S
      BY <2>1, <2>2 DEF S
    <3>2. Max(S) \in S /\ \A k \in S : k <= Max(S)
      BY <3>1, MaxIs
    <3> QED
      BY <3>1, <3>2 DEF S
  <2>4. Max(Identified(n + 1)) = n + 1
    BY <2>2, <2>3
  <2> QED
    BY <1>3, <2>1, <2>4 DEF LatestId
<1> QED
  BY <1>2, <1>3

\* What the parser is after the first n lines.
After(p, n) ==
    /\ p \in Parser /\ p.buffer = <<>>
    /\ p.id = LastValue(Values(Open(n), IdField))
    /\ p.name = LastValue(Values(Open(n), EventField))
    /\ p.data = Values(Open(n), DataField)
    /\ p.last = LatestId(n)
    /\ p.ready = Events[n]

LEMMA AfterNone == ASSUME LinesAre PROVE After(NewParser, 0)
<1>1. Open(0) = <<>> /\ Blanks(0) = {}
  <2>1. LatestBlank(0) = 0
    BY LatestBlankIs
  <2> QED
    BY <2>1, SubSeqEmpty DEF Open, Blanks
<1>2. \A field : Values(Open(0), field) = <<>>
  BY <1>1, ValuesOfNothing
<1>3. LatestId(0) = <<>>
  BY <1>1 DEF LatestId, Identified
<1>4. Events[0] = <<>>
  BY EventsAre
<1> QED
  BY <1>2, <1>3, <1>4, LastValueIs, NewParserClean DEF After, NewParser

LEMMA AfterBlank ==
    ASSUME LinesAre, NEW n \in 0..Len(lines), n + 1 <= Len(lines), lines[n + 1] = <<>>,
           NEW p, After(p, n)
    PROVE  After(ProcessLine(p, lines[n + 1]), n + 1)
<1>1. n \in Nat /\ p \in Parser
  BY DEF LinesAre, After
<1>2. Meaning(n + 1) = [id |-> p.id, name |-> p.name, data |-> p.data]
  BY MeaningIs DEF After
<1> DEFINE q == Dispatch(p)
<1>3. ProcessLine(p, lines[n + 1]) = q
  BY DEF ProcessLine
<1>4. q \in Parser
  BY <1>1, DispatchType
<1>5. /\ q.buffer = <<>> /\ q.id = <<>> /\ q.name = <<>> /\ q.data = <<>>
      /\ q.last = IF p.id = <<>> THEN p.last ELSE p.id
      /\ q.ready = IF p.data = <<>> THEN p.ready ELSE Append(p.ready, Meaning(n + 1))
  BY <1>1, <1>2 DEF Dispatch, Parser, After
<1> HIDE DEF q
<1>6. \A field : Values(Open(n + 1), field) = <<>>
  BY <1>1, OpenAtBlank, ValuesOfNothing
<1>7. q.last = LatestId(n + 1)
  BY <1>1, <1>2, <1>5, LatestIdAtBlank DEF After
<1>8. q.ready = Events[n + 1]
  BY <1>2, <1>5, EventsAre DEF After
<1> QED
  BY <1>3, <1>4, <1>5, <1>6, <1>7, <1>8, LastValueIs DEF After

LEMMA AfterField ==
    ASSUME LinesAre, NEW n \in 0..Len(lines), n + 1 <= Len(lines), lines[n + 1] # <<>>,
           NEW p, After(p, n)
    PROVE  After(ProcessLine(p, lines[n + 1]), n + 1)
<1> DEFINE line == lines[n + 1]
           v == Tail(line)
           q == ProcessLine(p, line)
<1>1. n \in Nat /\ p \in Parser /\ Open(n) \in Seq(Nonblank)
  BY OpenType DEF LinesAre, After
<1>2. line \in Nonblank /\ line \in Value /\ line # <<>> /\ v \in Value
  <2>1. n + 1 \in 1..Len(lines)
    BY <1>1 DEF LinesAre
  <2>2. line \in Lines
    BY <2>1, ElementOfSeq DEF LinesAre
  <2>3. line \in Value
    BY <2>2, InsideIs
  <2> QED
    BY <2>3, HeadTailProperties DEF Nonblank, Value
<1>3. \A field : Values(Open(n + 1), field) = Taking(Values(Open(n), field), field, line)
  <2>1. Open(n + 1) = Append(Open(n), line)
    BY OpenAtLine
  <2> HIDE DEF line
  <2> QED
    BY <1>1, <1>2, <2>1, ValuesAppend
<1>4. LatestId(n + 1) = LatestId(n) /\ Events[n + 1] = Events[n]
  BY <1>1, EventsAre, LatestIdAtLine
<1>5. \A field : Values(Open(n), field) \in Seq(Value)
  BY <1>1, ValuesType
<1>6. q \in Parser
  BY <1>1, <1>2, ProcessLineType
<1> HIDE DEF line
<1>7. /\ q = IF Head(line) = EventField THEN [p EXCEPT !.name = v]
             ELSE IF Head(line) = DataField THEN [p EXCEPT !.data = Append(@, v)]
             ELSE IF Head(line) = IdField THEN [p EXCEPT !.id = v]
             ELSE p
  BY <1>2 DEF ProcessLine, EventField, DataField, IdField
<1>8. /\ q.buffer = <<>> /\ q.last = p.last /\ q.ready = p.ready
      /\ q.id = IF Head(line) = IdField THEN v ELSE p.id
      /\ q.name = IF Head(line) = EventField THEN v ELSE p.name
      /\ q.data = IF Head(line) = DataField THEN Append(p.data, v) ELSE p.data
  <2>1. IdField # EventField /\ IdField # DataField /\ EventField # DataField
    BY DEF IdField, EventField, DataField
  <2> HIDE DEF v, q
  <2> QED
    BY <1>1, <1>7, <2>1 DEF Parser, After
<1>9. /\ q.id = LastValue(Values(Open(n + 1), IdField))
      /\ q.name = LastValue(Values(Open(n + 1), EventField))
      /\ q.data = Values(Open(n + 1), DataField)
  <2> HIDE DEF q
  <2>1. \A field : LastValue(Append(Values(Open(n), field), v)) = v
    BY <1>2, <1>5, LastValueIs
  <2> QED
    BY <1>3, <1>8, <2>1 DEF After, Taking
<1> QED
  BY <1>4, <1>6, <1>8, <1>9 DEF After, line

LEMMA LinesHaveTypes ==
    ASSUME LinesAre
    PROVE  /\ lines \in Seq(Value) /\ ending \in Value /\ Len(lines) \in Nat
           /\ Written \in [0..Len(lines) -> Value] /\ Written[0] = <<>>
           /\ \A n \in 0..Len(lines) : n + 1 <= Len(lines) =>
                 Written[n + 1] = Written[n] \o (lines[n + 1] \o ending)
<1>1. lines \in Seq(Value) /\ ending \in Value /\ Len(lines) \in Nat
  BY InsideIs DEF LinesAre
<1>2. /\ Written \in [0..Len(lines) -> Value] /\ Written[0] = <<>>
      /\ \A n \in 1..Len(lines) : Written[n] = Written[n - 1] \o lines[n] \o ending
  BY <1>1, WrittenIs
<1>3. ASSUME NEW n \in 0..Len(lines), n + 1 <= Len(lines)
      PROVE  Written[n + 1] = Written[n] \o (lines[n + 1] \o ending)
  <2>1. n + 1 \in 1..Len(lines) /\ (n + 1) - 1 = n
    BY <1>1, <1>3
  <2>2. Written[n] \in Value /\ lines[n + 1] \in Value
    BY <1>1, <1>2, <2>1, ElementOfSeq
  <2>3. Written[n + 1] = (Written[n] \o lines[n + 1]) \o ending
    BY <1>2, <2>1
  <2>4. \A a, b, c \in Value : (a \o b) \o c = a \o (b \o c)
    BY ConcatAssociative DEF Value
  <2> QED
    BY <1>1, <2>2, <2>3, <2>4
<1> QED
  BY <1>1, <1>2, <1>3

LEMMA AfterLines ==
    ASSUME LinesAre, NEW n \in 0..Len(lines)
    PROVE  After(Feed(NewParser, Written[n]), n)
<1> DEFINE S == {k \in Nat : k <= Len(lines) => After(Feed(NewParser, Written[k]), k)}
<1>1. 0 \in S
  <2>1. Feed(NewParser, Written[0]) = NewParser
    BY LinesHaveTypes, FeedEmpty
  <2> QED
    BY <2>1, AfterNone
<1>2. ASSUME NEW k \in Nat, k \in S PROVE k + 1 \in S
  <2> SUFFICES ASSUME k + 1 <= Len(lines) PROVE After(Feed(NewParser, Written[k + 1]), k + 1)
    OBVIOUS
  <2>1. k \in 0..Len(lines) /\ k + 1 \in 1..Len(lines) /\ Len(lines) \in Nat
    BY LinesHaveTypes
  <2> DEFINE p == Feed(NewParser, Written[k])
             line == lines[k + 1]
  <2>2. After(p, k)
    BY <1>2, <2>1
  <2>3. line \in Lines /\ line \in Value /\ ending \in Ends /\ ending \in Value
        /\ Written[k] \in Value
    BY <2>1, LinesHaveTypes, ElementOfSeq, InsideIs DEF LinesAre
  <2>4. Feed(NewParser, Written[k + 1]) = Feed(p, line \o ending)
    <3>1. Written[k + 1] = Written[k] \o (line \o ending)
      BY <2>1, LinesHaveTypes
    <3>2. line \o ending \in Value
      BY <2>3, FeedJoin
    <3> QED
      BY <2>3, <3>1, <3>2, FeedJoin
  <2> HIDE DEF p
  <2>5. Feed(p, line \o ending) = ProcessLine(p, line)
    <3>1. p \in Parser /\ p.buffer = <<>>
      BY <2>2 DEF After
    <3> HIDE DEF line
    <3> QED
      BY <2>3, <3>1, FeedEnded
  <2>6. After(ProcessLine(p, line), k + 1)
    BY <2>1, <2>2, AfterBlank, AfterField
  <2> QED
    BY <2>4, <2>5, <2>6
<1>3. Nat \subseteq S
  <2> HIDE DEF S
  <2> QED
    BY <1>1, <1>2, SetInduction
<1>4. n \in Nat /\ n <= Len(lines)
  BY LinesHaveTypes
<1> QED
  BY <1>3, <1>4

\* The first n lines are where the stream begins.
LEMMA WrittenBegins ==
    ASSUME LinesAre, NEW n \in 0..Len(lines)
    PROVE  \A m \in n..Len(lines) : \E t \in Value : Written[m] = Written[n] \o t
<1> DEFINE S == {k \in Nat : n + k <= Len(lines) =>
                               \E t \in Value : Written[n + k] = Written[n] \o t}
<1>1. n \in Nat /\ Len(lines) \in Nat /\ \A k \in 0..Len(lines) : Written[k] \in Value
  BY LinesHaveTypes
<1>2. 0 \in S
  <2>1. n + 0 = n /\ Written[n] = Written[n] \o <<>> /\ <<>> \in Value
    BY <1>1, ConcatEmptySeq, InsideIs DEF Value
  <2> QED
    BY <2>1
<1>3. ASSUME NEW k \in Nat, k \in S PROVE k + 1 \in S
  <2> SUFFICES ASSUME n + (k + 1) <= Len(lines)
               PROVE  \E t \in Value : Written[n + (k + 1)] = Written[n] \o t
    OBVIOUS
  <2>1. n + k \in 0..Len(lines) /\ (n + k) + 1 = n + (k + 1) /\ (n + k) + 1 \in 1..Len(lines)
    BY <1>1
  <2>2. PICK t \in Value : Written[n + k] = Written[n] \o t
    BY <1>3, <2>1
  <2> DEFINE u == lines[n + (k + 1)] \o ending
  <2>3. u \in Value /\ Written[n + (k + 1)] = Written[n + k] \o u
    <3>1. lines[(n + k) + 1] \in Value /\ ending \in Value
      BY <2>1, LinesHaveTypes, ElementOfSeq
    <3>2. Written[(n + k) + 1] = Written[n + k] \o (lines[(n + k) + 1] \o ending)
      BY <2>1, LinesHaveTypes
    <3> QED
      BY <2>1, <3>1, <3>2, FeedJoin
  <2> HIDE DEF u
  <2>4. (Written[n] \o t) \o u = Written[n] \o (t \o u) /\ t \o u \in Value
    <3>1. \A a, b, c \in Value : (a \o b) \o c = a \o (b \o c)
      BY ConcatAssociative DEF Value
    <3>2. Written[n] \in Value
      BY <1>1, <2>1
    <3> QED
      BY <2>2, <2>3, <3>1, <3>2, FeedJoin
  <2> QED
    BY <2>2, <2>3, <2>4
<1>4. Nat \subseteq S
  <2> HIDE DEF S
  <2> QED
    BY <1>2, <1>3, SetInduction
<1>5. ASSUME NEW m \in n..Len(lines) PROVE \E t \in Value : Written[m] = Written[n] \o t
  <2>1. m - n \in Nat /\ n + (m - n) = m /\ n + (m - n) <= Len(lines)
    BY <1>1
  <2>2. m - n \in S
    BY <1>4, <2>1
  <2> QED
    BY <2>1, <2>2
<1> QED
  BY <1>5

\* What has been received is the complete lines and some tokens of the next.
LEMMA CutSplits ==
    ASSUME NEW w \in Value, NEW l \in Lines, NEW e \in Ends, NEW t \in Value,
           NEW k \in Nat, Len(w) <= k, k < Len(w \o (l \o e))
    PROVE  \E s \in Seq(Inside) : SubSeq((w \o (l \o e)) \o t, 1, k) = w \o s
<1> DEFINE m == k - Len(w)
           le == l \o e
           s == SubSeq(le, 1, m)
           all == (w \o le) \o t
<1>1. /\ l \in Seq(Inside) /\ l \in Value /\ e \in Value /\ le \in Value /\ w \in Seq(Token)
      /\ le \in Seq(Token) /\ t \in Seq(Token)
  BY InsideIs, FeedJoin DEF Lines, Value
<1>2. /\ Len(le) = Len(l) + Len(e) /\ Len(l) \in Nat /\ Len(e) \in Nat /\ Len(w) \in Nat
      /\ Len(le) \in Nat /\ Len(t) \in Nat
      /\ \A i \in 1..Len(l) : le[i] = l[i]
      /\ \A i \in (Len(l) + 1)..(Len(l) + Len(e)) : le[i] = e[i - Len(l)]
  BY <1>1, LenProperties, ConcatProperties DEF Value
<1>3. Len(w \o le) = Len(w) + Len(le) /\ w \o le \in Seq(Token)
  BY <1>1, ConcatProperties
<1>4. m \in Nat /\ m < Len(le)
  BY <1>2, <1>3
<1>5. \A i \in 1..m : le[i] \in Inside
  <2> SUFFICES ASSUME NEW i \in 1..m PROVE le[i] \in Inside
    OBVIOUS
  <2>1. CASE i \in 1..Len(l)
    BY <1>1, <1>2, <2>1, ElementOfSeq
  <2>2. CASE i > Len(l)
    <3>1. e = <<CR, LF>> /\ i = Len(l) + 1 /\ le[i] = e[1]
      <4>1. CASE e = <<LF>>
        <5>1. Len(e) = 1
          BY <4>1
        <5> QED
          BY <1>2, <1>4, <2>2, <5>1
      <4>2. CASE e = <<CR, LF>>
        <5>1. Len(e) = 2
          BY <4>2
        <5>2. i = Len(l) + 1
          BY <1>2, <1>4, <2>2, <5>1
        <5> QED
          BY <1>2, <4>2, <5>1, <5>2
      <4> QED
        BY <4>1, <4>2 DEF Ends
    <3>2. e[1] = CR
      BY <3>1
    <3>3. CR \in Inside
      BY TokensAre DEF Tokens, Inside, CR, LF
    <3> QED
      BY <3>1, <3>2, <3>3
  <2> QED
    BY <1>2, <1>4, <2>1, <2>2
<1> HIDE DEF le
<1>6. s \in Seq(Inside)
  BY <1>4, <1>5, SubSeqProperties
<1>7. SubSeq(all, 1, k) = w \o s
  <2>1. /\ all \in Seq(Token) /\ Len(all) = Len(w) + Len(le) + Len(t)
        /\ \A i \in 1..(Len(w) + Len(le)) : all[i] = (w \o le)[i]
    <3> DEFINE front == w \o le
    <3>1. front \in Seq(Token) /\ Len(front) = Len(w) + Len(le)
      BY <1>3
    <3> HIDE DEF front
    <3>2. /\ front \o t \in Seq(Token) /\ Len(front \o t) = Len(front) + Len(t)
          /\ \A i \in 1..Len(front) : (front \o t)[i] = front[i]
      <4>1. \A a, b \in Seq(Token) :
                /\ a \o b \in Seq(Token) /\ Len(a \o b) = Len(a) + Len(b)
                /\ \A i \in 1..Len(a) : (a \o b)[i] = a[i]
        BY ConcatProperties
      <4> QED
        BY <1>1, <3>1, <4>1
    <3>3. all = front \o t
      BY DEF front
    <3> QED
      BY <1>2, <3>1, <3>2, <3>3 DEF front
  <2>2. /\ \A i \in 1..Len(w) : (w \o le)[i] = w[i]
        /\ \A i \in (Len(w) + 1)..(Len(w) + Len(le)) : (w \o le)[i] = le[i - Len(w)]
    BY <1>1, ConcatProperties
  <2>3. /\ s \in Seq(Inside) /\ Len(s) = m /\ \A i \in 1..m : s[i] = le[i]
    <3>1. Len(s) = m /\ \A i \in 1..m : s[i] = le[1 + i - 1]
      BY <1>4, <1>5, SubSeqProperties
    <3>2. \A i \in 1..m : 1 + i - 1 = i
      BY <1>4
    <3> QED
      BY <1>6, <3>1, <3>2
  <2> HIDE DEF all, s
  <2>4. s \in Seq(Token)
    BY <1>6, InsideIs DEF Value
  <2>5. /\ w \o s \in Seq(Token) /\ Len(w \o s) = k
        /\ \A i \in 1..Len(w) : (w \o s)[i] = w[i]
        /\ \A i \in (Len(w) + 1)..k : (w \o s)[i] = s[i - Len(w)]
    BY <1>1, <1>2, <1>4, <2>3, <2>4, ConcatProperties
  <2>6. k <= Len(all) /\ k \in 0..Len(all) /\ Len(all) \in Nat
    BY <1>2, <1>4, <2>1
  <2>7. /\ SubSeq(all, 1, k) \in Seq(Token) /\ Len(SubSeq(all, 1, k)) = k
        /\ \A i \in 1..k : SubSeq(all, 1, k)[i] = all[i]
    <3>1. \A i \in 1..k : all[i] \in Token
      BY <2>1, <2>6, ElementOfSeq
    <3>2. /\ SubSeq(all, 1, k) \in Seq(Token)
          /\ Len(SubSeq(all, 1, k)) = IF 1 <= k THEN k - 1 + 1 ELSE 0
          /\ \A i \in 1..(k - 1 + 1) : SubSeq(all, 1, k)[i] = all[1 + i - 1]
      BY <3>1, SubSeqProperties
    <3>3. k - 1 + 1 = k /\ \A i \in 1..k : 1 + i - 1 = i
      OBVIOUS
    <3> QED
      BY <3>2, <3>3
  <2>8. \A i \in 1..k : all[i] = (w \o s)[i]
    <3> SUFFICES ASSUME NEW i \in 1..k PROVE all[i] = (w \o s)[i]
      OBVIOUS
    <3>1. i \in 1..(Len(w) + Len(le))
      BY <1>2, <1>4
    <3>2. CASE i \in 1..Len(w)
      BY <2>1, <2>2, <2>5, <3>1, <3>2
    <3>3. CASE i \in (Len(w) + 1)..k
      <4>1. i - Len(w) \in 1..m /\ i \in (Len(w) + 1)..(Len(w) + Len(le))
        BY <1>2, <1>4, <3>3
      <4> QED
        BY <2>1, <2>2, <2>3, <2>5, <3>1, <3>3, <4>1
    <3>4. i \in 1..Len(w) \/ i \in (Len(w) + 1)..k
      BY <1>2
    <3> QED
      BY <3>2, <3>3, <3>4
  <2> QED
    BY <2>5, <2>7, <2>8, SeqEqual
<1> QED
  BY <1>6, <1>7 DEF le

LEMMA Received ==
    ASSUME LinesAre, fed \in 0..Len(Sent)
    PROVE  /\ Complete \in 0..Len(lines)
           /\ \E s \in Seq(Inside) : SubSeq(Sent, 1, fed) = Written[Complete] \o s
<1> DEFINE N == {n \in 0..Len(lines) : Len(Written[n]) <= fed}
           c == Complete
<1>1. /\ Len(lines) \in Nat /\ lines \in Seq(Lines) /\ ending \in Ends
      /\ \A n \in 0..Len(lines) : Written[n] \in Value /\ Len(Written[n]) \in Nat
      /\ Written[0] = <<>> /\ Sent \in Value /\ Len(Sent) \in Nat /\ fed \in Nat
      /\ Sent = Written[Len(lines)]
  <2>1. \A n \in 0..Len(lines) : Written[n] \in Value
    BY LinesHaveTypes
  <2>2. \A s \in Value : Len(s) \in Nat
    BY DEF Value
  <2> QED
    BY <2>1, <2>2, LinesHaveTypes DEF Sent, LinesAre
<1>2. N \in SUBSET (0..Len(lines)) /\ 0 \in N
  <2>1. Len(Written[0]) = 0
    BY <1>1, EmptySeq
  <2> QED
    BY <1>1, <2>1
<1>3. c \in N /\ \A n \in N : n <= c
  <2>1. c = Max(N)
    BY DEF Complete
  <2> HIDE DEF N, c
  <2>2. N # {}
    BY <1>2
  <2> QED
    BY <1>1, <1>2, <2>1, <2>2, MaxIs
<1> HIDE DEF c
<1>4. c \in 0..Len(lines) /\ Len(Written[c]) <= fed /\ Written[c] \in Value
  BY <1>1, <1>3
<1>5. CASE c = Len(lines)
  <2>1. fed = Len(Sent)
    BY <1>1, <1>4, <1>5
  <2>2. SubSeq(Sent, 1, fed) = Sent /\ Written[c] \o <<>> = Sent
    BY <1>1, <1>5, <2>1, SubSeqFull, ConcatEmptySeq DEF Value
  <2> QED
    BY <1>4, <2>2, InsideIs DEF c
<1>6. CASE c # Len(lines)
  <2>1. c + 1 \in 0..Len(lines) /\ c + 1 <= Len(lines) /\ c + 1 \in 1..Len(lines)
        /\ Len(lines) \in (c + 1)..Len(lines)
    BY <1>1, <1>4, <1>6
  <2>2. fed < Len(Written[c + 1])
    <3>1. c + 1 \notin N
      BY <1>3, <1>4
    <3> QED
      BY <1>1, <2>1, <3>1
  <2> DEFINE l == lines[c + 1]
  <2>3. l \in Lines /\ Written[c + 1] = Written[c] \o (l \o ending)
    BY <1>1, <1>4, <2>1, LinesHaveTypes, ElementOfSeq
  <2>4. PICK t \in Value : Sent = Written[c + 1] \o t
    BY <1>1, <2>1, WrittenBegins
  <2> HIDE DEF l
  <2>5. \E s \in Seq(Inside) : SubSeq((Written[c] \o (l \o ending)) \o t, 1, fed) = Written[c] \o s
    <3> DEFINE w == Written[c]
    <3> HIDE DEF w
    <3>1. w \in Value /\ Len(w) <= fed /\ fed < Len(w \o (l \o ending)) /\ fed \in Nat
      BY <1>1, <1>4, <2>2, <2>3 DEF w
    <3>2. \E s \in Seq(Inside) : SubSeq((w \o (l \o ending)) \o t, 1, fed) = w \o s
      BY <1>1, <2>3, <2>4, <3>1, CutSplits
    <3> QED
      BY <3>2 DEF w
  <2> QED
    BY <1>4, <2>3, <2>4, <2>5 DEF c
<1> QED
  BY <1>5, <1>6

LEMMA ReceivedMeans ==
    ASSUME LinesAre, fed \in 0..Len(Sent)
    PROVE  LET p == Feed(NewParser, SubSeq(Sent, 1, fed))
           IN  p.ready = Events[Complete] /\ p.last = LatestId(Complete)
<1> DEFINE c == Complete
           p == Feed(NewParser, Written[c])
<1>1. c \in 0..Len(lines)
  BY Received
<1>2. PICK s \in Seq(Inside) : SubSeq(Sent, 1, fed) = Written[c] \o s
  BY Received
<1>3. Written[c] \in Value /\ s \in Value
  BY <1>1, LinesHaveTypes, InsideIs
<1> HIDE DEF c
<1>4. After(p, c)
  BY <1>1, AfterLines
<1>5. Feed(NewParser, SubSeq(Sent, 1, fed)) = Feed(p, s)
  <2> DEFINE w == Written[c]
  <2> HIDE DEF w
  <2>1. w \in Value /\ SubSeq(Sent, 1, fed) = w \o s
    BY <1>2, <1>3 DEF w
  <2>2. Feed(NewParser, w \o s) = Feed(Feed(NewParser, w), s)
    BY <1>3, <2>1, FeedJoin
  <2> QED
    BY <2>1, <2>2 DEF w
<1> HIDE DEF p
<1>6. Feed(p, s) = [p EXCEPT !.buffer = @ \o s]
  BY <1>4, FeedInside DEF After
<1>7. Feed(p, s).ready = p.ready /\ Feed(p, s).last = p.last
  BY <1>4, <1>6 DEF After, Parser
<1> QED
  BY <1>4, <1>5, <1>7 DEF After, c

\* What has been taken and what the parser still holds is what one call of
\* feed with all the tokens received would have made.
TakenAndHeld ==
    /\ LinesAre
    /\ fed \in 0..Len(Sent)
    /\ sse \in Parser /\ sse.ready = <<>> /\ out \in Seq(BlockRecord)
    /\ Prepend(out, sse) = Feed(NewParser, SubSeq(Sent, 1, fed))

LEMMA TakenAndHeldInit == StreamInit => TakenAndHeld
<1> SUFFICES ASSUME StreamInit PROVE TakenAndHeld
  OBVIOUS
<1>1. lines \in Seq(LineKinds) /\ ending \in Ends
  BY StreamAssumption DEF StreamInit, BoundedSeq, SeqOf, Ends
<1>2. LinesAre
  <2>1. \A l \in LineKinds : l \in Lines
    BY LinesAssumption DEF Lines, Inside
  <2> QED
    BY <1>1, <2>1 DEF LinesAre
<1>3. Sent \in Value /\ Len(Sent) \in Nat
  <2>1. Sent \in Value
    BY <1>2, LinesHaveTypes DEF Sent
  <2> QED
    BY <2>1, LenProperties DEF Value
<1>4. fed = 0 /\ fed \in 0..Len(Sent) /\ sse = NewParser /\ out = <<>>
  BY <1>3 DEF StreamInit
<1>5. SubSeq(Sent, 1, fed) = <<>>
  BY <1>4, SubSeqEmpty
<1>6. out \in Seq(BlockRecord) /\ Prepend(out, sse) = NewParser
  <2>1. <<>> \o NewParser.ready = NewParser.ready
    BY NewParserClean, EmptySeq, ConcatEmptySeq
  <2>2. [NewParser EXCEPT !.ready = NewParser.ready] = NewParser
    BY DEF NewParser
  <2> QED
    BY <1>4, <2>1, <2>2, EmptySeq DEF Prepend
<1> QED
  BY <1>2, <1>4, <1>5, <1>6, FeedEmpty, NewParserClean DEF TakenAndHeld

LEMMA TakenAndHeldChunk == TakenAndHeld /\ StreamChunk => TakenAndHeld'
<1> SUFFICES ASSUME TakenAndHeld, StreamChunk PROVE TakenAndHeld'
  OBVIOUS
<1>1. PICK next \in fed + 1 .. Min({fed + MaxChunk, Len(Sent)}) :
          LET read == Feed(sse, SubSeq(Sent, fed + 1, next))
          IN  /\ out' = out \o read.ready
              /\ sse' = Taken(read)
              /\ fed' = next
              /\ UNCHANGED <<lines, ending>>
  BY DEF StreamChunk
<1>2. LinesAre /\ Sent \in Value /\ Len(Sent) \in Nat /\ fed \in 0..Len(Sent)
      /\ sse \in Parser /\ out \in Seq(BlockRecord)
      /\ Prepend(out, sse) = Feed(NewParser, SubSeq(Sent, 1, fed))
  <2>1. Sent \in Value
    BY LinesHaveTypes DEF TakenAndHeld, Sent
  <2> QED
    BY <2>1, LenProperties DEF TakenAndHeld, Value
<1>3. LinesAre' /\ Sent' = Sent
  BY <1>1, <1>2 DEF LinesAre, Sent, Written
<1>4. next \in Nat /\ fed < next /\ next <= Len(Sent) /\ fed \in Nat
  <2>1. Min({fed + MaxChunk, Len(Sent)}) <= Len(Sent)
        /\ Min({fed + MaxChunk, Len(Sent)}) \in Nat
    BY <1>2, StreamAssumption DEF Min
  <2> QED
    BY <1>1, <1>2, <2>1
<1> DEFINE a == SubSeq(Sent, 1, fed)
           b == SubSeq(Sent, fed + 1, next)
           read == Feed(sse, b)
<1>5. a \in Value /\ b \in Value /\ SubSeq(Sent, 1, next) = a \o b
  <2>1. \A i \in 1..Len(Sent) : Sent[i] \in Token
    BY <1>2, ElementOfSeq DEF Value
  <2>2. a \in Value /\ b \in Value
    BY <1>2, <1>4, <2>1, SubSeqProperties DEF Value
  <2>3. 1 \in 1..(Len(Sent) + 1) /\ fed \in (1 - 1)..Len(Sent) /\ next \in fed..Len(Sent)
    BY <1>2, <1>4
  <2> QED
    BY <1>2, <2>2, <2>3, ConcatAdjacentSubSeq DEF Value
<1>6. out' = out \o read.ready /\ sse' = Taken(read) /\ fed' = next
  BY <1>1
<1> HIDE DEF a, b
<1>7. read \in Parser
  BY <1>2, <1>5, FeedType
<1>8. Feed(NewParser, SubSeq(Sent, 1, next)) = Prepend(out, read)
  <2>1. Feed(NewParser, a \o b) = Feed(Feed(NewParser, a), b)
    BY <1>5, FeedJoin
  <2>2. Feed(Prepend(out, sse), b) = Prepend(out, read)
    BY <1>2, <1>5, FeedPrepend
  <2> QED
    BY <1>2, <1>5, <2>1, <2>2 DEF a
<1> HIDE DEF read
<1>9. /\ Taken(read) \in Parser /\ Taken(read).ready = <<>> /\ read.ready \in Seq(BlockRecord)
      /\ read = Prepend(read.ready, Taken(read))
  BY <1>7, TakenIs
<1>10. out' \in Seq(BlockRecord) /\ Prepend(out', sse') = Prepend(out, read)
  <2>1. out' \in Seq(BlockRecord)
    BY <1>2, <1>6, <1>9, ConcatProperties
  <2>2. out' \o <<>> = out'
    BY <2>1, ConcatEmptySeq
  <2>3. Prepend(out', sse') = [Taken(read) EXCEPT !.ready = out']
    BY <1>6, <1>9, <2>2 DEF Prepend
  <2>4. Prepend(out, read) = [read EXCEPT !.ready = out']
    BY <1>6, <1>7 DEF Prepend
  <2>5. \A v : [Taken(read) EXCEPT !.ready = v] = [read EXCEPT !.ready = v]
    BY <1>7 DEF Taken, Parser
  <2> QED
    BY <2>1, <2>3, <2>4, <2>5
<1> QED
  BY <1>3, <1>4, <1>6, <1>8, <1>9, <1>10, <1>2 DEF TakenAndHeld

LEMMA TakenAndHeldNext == TakenAndHeld /\ [StreamChunk]_stream => TakenAndHeld'
<1> SUFFICES ASSUME TakenAndHeld, UNCHANGED stream PROVE TakenAndHeld'
  BY TakenAndHeldChunk
<1> QED
  BY DEF TakenAndHeld, stream, LinesAre, Sent, Written

LEMMA BlocksTaken == TakenAndHeld => EventsAreTheBlocks
<1> SUFFICES ASSUME TakenAndHeld PROVE EventsAreTheBlocks
  OBVIOUS
<1> DEFINE p == Feed(NewParser, SubSeq(Sent, 1, fed))
<1>1. p.ready = Events[Complete] /\ p.last = LatestId(Complete)
  BY ReceivedMeans DEF TakenAndHeld
<1>2. Prepend(out, sse).ready = out /\ Prepend(out, sse).last = sse.last
  <2>1. out \o <<>> = out
    BY ConcatEmptySeq DEF TakenAndHeld
  <2> QED
    BY <2>1 DEF TakenAndHeld, Prepend, Parser
<1>3. Prepend(out, sse) = p
  BY DEF TakenAndHeld
<1> QED
  BY <1>1, <1>2, <1>3 DEF EventsAreTheBlocks

\* Whatever lines the server writes, with whichever line ends, and however the
\* bytes arrive: the events taken are those of the complete blocks, and
\* lastEventId is the id of the last of them that has one (client/sse.cpp,
\* feed, processLine, dispatch and takeEvents).
THEOREM BlocksBecomeEvents == StreamSpec => []EventsAreTheBlocks
BY TakenAndHeldInit, TakenAndHeldNext, BlocksTaken, PTL DEF StreamSpec
=============================================================================
