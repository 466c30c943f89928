------------------------- MODULE CollectionsProofs -------------------------
(***************************************************************************)
(* What TLAPS proves of Collections for any clients, actors, command lines *)
(* and sizes:                                                              *)
(*   NotTwice             a command that is run again makes nothing twice; *)
(*   OwnAnswer            it reports a row that its own arguments made;    *)
(*   ListingsAreComplete  a listing has every row that stayed, and once    *)
(*                        unless the server takes the first of its cursors *)
(*                        and it came to a third page.                     *)
(*                                                                         *)
(* The first rests on what the server records of each row. The second      *)
(* needs that texts without a separator can be told from what they are     *)
(* joined to, by induction over the sequence of texts; the third that the  *)
(* rows of a page are those up to its last place. That a listing ends      *)
(* (ListingEnds) is liveness and stays with TLC.                           *)
(***************************************************************************)
EXTENDS Collections, SequenceTheorems, FiniteSetTheorems, WellFoundedInduction, TLAPS

(***************************************************************************)
(* Rows and what the server remembers of them                              *)
(***************************************************************************)
\* Every row has a history; an entry of the memory is of its row.
Recorded ==
    /\ place \in Seq(0..MaxPosition)
    /\ made \in Seq([line : CommandLine, actor : Actor])
    /\ Len(made) = Len(place)
    /\ \A e \in memory :
          /\ e.row \in Rows
          /\ e.actor = made[e.row].actor
          /\ e.endpoint = Endpoint(made[e.row].line)
          /\ \A c \in Client : e.key = Key(c, made[e.row].line)

Inv == Recorded /\ CreatedOnce

-----------------------------------------------------------------------------
LEMMA InitInv == Init => Inv
BY DEF Init, Inv, Recorded, CreatedOnce, Rows

\* The key of a line does not depend on the process.
LEMMA KeyOfLine == \A c, d, l : Key(c, l) = Key(d, l)
BY DEF Key

\* A new row is made only when nothing of its actor, endpoint and key is
\* remembered; so no older row of the same line is.
LEMMA CreatesInv ==
    ASSUME Inv, NEW c \in Client, NEW l \in CommandLine, NEW lost \in BOOLEAN, Creates(c, l, lost)
    PROVE  Inv'
<1> DEFINE n == Len(place) + 1
           entry == [actor |-> ActorOf[c], endpoint |-> Endpoint(l), key |-> Key(c, l), row |-> n]
           row == [line |-> l, actor |-> ActorOf[c]]
<1>1. /\ Remembered(c, l) = {} /\ made' = Append(made, row)
      /\ memory' = memory \cup {entry}
  BY DEF Creates
<1>2. PICK p \in 1..MaxPosition : place' = Append(place, p)
  BY DEF Creates
<1>3. row \in [line : CommandLine, actor : Actor] /\ p \in 0..MaxPosition
  BY <1>2, CollectionsAssumption
<1>4. /\ place' \in Seq(0..MaxPosition) /\ Len(place') = n /\ n \in Nat
      /\ made' \in Seq([line : CommandLine, actor : Actor]) /\ Len(made') = n
      /\ \A m \in 1..Len(place) : made'[m] = made[m]
      /\ made'[n] = row
  BY <1>1, <1>2, <1>3 DEF Inv, Recorded
<1>5. Rows = 1..Len(place) /\ Rows' = 1..n
  BY <1>4 DEF Rows
<1>6. Recorded'
  <2> SUFFICES ASSUME NEW e \in memory'
               PROVE  /\ e.row \in Rows' /\ e.actor = made'[e.row].actor
                      /\ e.endpoint = Endpoint(made'[e.row].line)
                      /\ \A d \in Client : e.key = Key(d, made'[e.row].line)
    BY <1>4 DEF Recorded
  <2>1. CASE e \in memory
    BY <1>4, <1>5, <2>1 DEF Inv, Recorded
  <2>2. CASE e = entry
    BY <1>4, <1>5, <2>2, KeyOfLine
  <2> QED
    BY <1>1, <2>1, <2>2
<1>7. CreatedOnce'
  <2> SUFFICES ASSUME NEW i \in Rows', NEW j \in Rows', i < j, made'[i] = made'[j],
                      NEW e \in memory', e.row = i
               PROVE  FALSE
    BY DEF CreatedOnce
  <2>1. i \in Rows /\ e \in memory
    BY <1>1, <1>4, <1>5
  <2>2. CASE j \in Rows
    BY <1>4, <1>5, <2>1, <2>2 DEF Inv, CreatedOnce
  <2>3. CASE j = n
    <3>1. made[i] = row
      BY <1>4, <1>5, <2>1, <2>3
    <3>2. e.actor = ActorOf[c] /\ e.endpoint = Endpoint(l) /\ e.key = Key(c, l)
      BY <2>1, <3>1 DEF Inv, Recorded
    <3> QED
      BY <1>1, <2>1, <3>2 DEF Remembered
  <2> QED
    BY <1>4, <1>5, <2>2, <2>3
<1> QED
  BY <1>6, <1>7 DEF Inv

\* All other steps keep what was made, and remember nothing new.
LEMMA OthersInv ==
    ASSUME Inv, UNCHANGED made, memory' \subseteq memory,
           place' \in Seq(0..MaxPosition), Len(place') = Len(place)
    PROVE  Inv'
BY DEF Inv, Recorded, CreatedOnce, Rows

LEMMA NextInv == Inv /\ [Next]_vars => Inv'
<1> SUFFICES ASSUME Inv, [Next]_vars
             PROVE  Inv'
  OBVIOUS
<1>1. ASSUME NEW c \in Client, NEW l \in CommandLine, Creates(c, l, TRUE) \/ Creates(c, l, FALSE)
      PROVE  Inv'
  BY <1>1, CreatesInv
<1>2. CASE UNCHANGED <<place, made>> /\ memory' \subseteq memory
  BY <1>2, OthersInv DEF Inv, Recorded
<1>3. ASSUME NEW n \in Rows, NEW p \in 0..MaxPosition, place' = [place EXCEPT ![n] = p],
             UNCHANGED <<made, memory>>
      PROVE  Inv'
  <2>1. place' \in Seq(0..MaxPosition) /\ Len(place') = Len(place)
    BY <1>3 DEF Inv, Recorded, Rows
  <2> QED
    BY <1>3, <2>1, OthersInv
<1>4. ASSUME NEW c \in Client, NEW l \in CommandLine, Replays(c, l) PROVE Inv'
  BY <1>2, <1>4 DEF Replays
<1>5. CASE StartListing \/ NextPage \/ LastPage \/ Stops \/ Forgets \/ UNCHANGED vars
  BY <1>2, <1>5 DEF StartListing, NextPage, LastPage, Stops, EndsListing, Forgets, vars
<1>6. ASSUME NEW n \in Rows, Leaves(n) \/ \E p \in 1..MaxPosition : Moves(n, p) PROVE Inv'
  BY <1>3, <1>6, CollectionsAssumption DEF Leaves, Moves, Gone
<1> QED
  BY <1>1, <1>4, <1>5, <1>6 DEF Next

LEMMA Invariant == Spec => []Inv
BY InitInv, NextInv, PTL DEF Spec

-----------------------------------------------------------------------------
\* Whoever runs add, add-tree or send again within the window gets the row of
\* the first run, for any arguments and from any process (the keys of runAdd,
\* runAddTree and runSend).
THEOREM NotTwice == Spec => []CreatedOnce
BY Invariant, PTL DEF Inv

-----------------------------------------------------------------------------
(***************************************************************************)
(* Induction over natural numbers and sequences                            *)
(***************************************************************************)
\* A set of numbers has a least one; so what holds of 0 and of n + 1 with n
\* holds of every number.
LEMMA NatSetMin ==
    ASSUME NEW S \in SUBSET Nat, S # {}
    PROVE  \E m \in S : \A k \in S : m <= k
<1>1. IsWellFoundedOn(OpToRel(<,Nat), Nat)
  BY NatLessThanWellFounded
<1>2. PICK m \in S : \A k \in S : <<k, m>> \notin OpToRel(<,Nat)
  BY <1>1, WFMin
<1>3. \A k \in S : k \in Nat /\ m \in Nat
  OBVIOUS
<1>4. \A k \in S : ~(k < m)
  BY <1>2, <1>3 DEF OpToRel
<1> QED
  BY <1>3, <1>4

LEMMA SetInduction ==
    ASSUME NEW S, 0 \in S, \A n \in Nat : n \in S => n + 1 \in S
    PROVE  Nat \subseteq S
<1> SUFFICES ASSUME Nat \ S # {} PROVE FALSE
  OBVIOUS
<1>1. PICK n \in Nat \ S : \A m \in Nat \ S : n <= m
  BY NatSetMin
<1>2. n - 1 \in Nat /\ n - 1 \in S /\ n - 1 + 1 = n
  BY <1>1
<1> QED
  BY <1>2

\* What holds of <<>> and is kept by Append holds of every sequence.
LEMMA SeqInduction ==
    ASSUME NEW T, NEW S, <<>> \in S, \A s \in Seq(T), e \in T : s \in S => Append(s, e) \in S
    PROVE  Seq(T) \subseteq S
<1> DEFINE N == {n \in Nat : \A s \in Seq(T) : Len(s) = n => s \in S}
<1>1. 0 \in N
  BY EmptySeq
<1>2. ASSUME NEW n \in Nat, n \in N PROVE n + 1 \in N
  <2> SUFFICES ASSUME NEW s \in Seq(T), Len(s) = n + 1 PROVE s \in S
    OBVIOUS
  <2>1. PICK t \in Seq(T), e \in T : s = Append(t, e)
    <3>1. s # <<>>
      BY EmptySeq
    <3> QED
      BY <3>1, SequenceEmptyOrAppend
  <2>2. Len(t) = n
    BY <2>1, AppendProperties, LenProperties
  <2> QED
    BY <1>2, <2>1, <2>2
<1>3. Nat \subseteq N
  <2> HIDE DEF N
  <2> QED
    BY <1>1, <1>2, SetInduction
<1> QED
  BY <1>3, LenProperties

-----------------------------------------------------------------------------
(***************************************************************************)
(* Joining texts                                                           *)
(***************************************************************************)
\* The recursion of Joined: f holds what each prefix of s comes to.
JoinRun(f, s) ==
    f = [i \in 1..Len(s) |-> IF i = 1 THEN s[1] ELSE Linked(f[i - 1], s[i])]

LEMMA JoinedIsRun == ASSUME NEW s PROVE Joined(s) = (CHOOSE f : JoinRun(f, s))[Len(s)]
BY DEF Joined, JoinRun

LEMMA JoinExists ==
    ASSUME NEW T, NEW s \in Seq(T)
    PROVE  \E f : JoinRun(f, s)
<1> DEFINE Upto(n) == \E f : f = [i \in 1..n |-> IF i = 1 THEN s[1] ELSE Linked(f[i - 1], s[i])]
           S == {n \in Nat : Upto(n)}
<1>1. 0 \in S
  <2> DEFINE f == [i \in 1..0 |-> s[1]]
  <2>1. f = [i \in 1..0 |-> IF i = 1 THEN s[1] ELSE Linked(f[i - 1], s[i])]
    OBVIOUS
  <2> QED
    BY <2>1
<1>2. ASSUME NEW n \in Nat, n \in S PROVE n + 1 \in S
  <2>1. PICK f : f = [i \in 1..n |-> IF i = 1 THEN s[1] ELSE Linked(f[i - 1], s[i])]
    BY <1>2
  <2> DEFINE last == IF n = 0 THEN s[1] ELSE Linked(f[n], s[n + 1])
             g == [i \in 1..(n + 1) |-> IF i = n + 1 THEN last ELSE f[i]]
  <2>2. \A i \in 1..(n + 1) : g[i] = IF i = 1 THEN s[1] ELSE Linked(g[i - 1], s[i])
    <3> SUFFICES ASSUME NEW i \in 1..(n + 1)
                 PROVE  g[i] = IF i = 1 THEN s[1] ELSE Linked(g[i - 1], s[i])
      OBVIOUS
    <3>1. CASE i \in 1..n /\ i = 1
      BY <2>1, <3>1
    <3>2. CASE i \in 1..n /\ i # 1
      <4>1. g[i] = f[i] /\ g[i - 1] = f[i - 1]
        BY <3>2
      <4>2. f[i] = Linked(f[i - 1], s[i])
        BY <2>1, <3>2
      <4> QED
        BY <3>2, <4>1, <4>2
    <3>3. CASE i = n + 1 /\ n = 0
      BY <3>3
    <3>4. CASE i = n + 1 /\ n # 0
      <4>1. g[i] = Linked(f[n], s[n + 1]) /\ g[i - 1] = f[n] /\ i # 1
        BY <3>4
      <4> QED
        BY <3>4, <4>1
    <3> QED
      BY <3>1, <3>2, <3>3, <3>4
  <2>3. g = [i \in 1..(n + 1) |-> IF i = 1 THEN s[1] ELSE Linked(g[i - 1], s[i])]
    BY <2>2
  <2> HIDE DEF g
  <2> QED
    BY <2>3
<1>3. Nat \subseteq S
  <2> HIDE DEF S
  <2> QED
    BY <1>1, <1>2, SetInduction
<1> QED
  BY <1>3 DEF JoinRun

Extends(t, s) == Len(s) <= Len(t) /\ \A i \in 1..Len(s) : s[i] = t[i]

LEMMA JoinsAgree ==
    ASSUME NEW T, NEW s \in Seq(T), NEW t \in Seq(T), NEW f, NEW g,
           JoinRun(f, s), JoinRun(g, t), Extends(t, s)
    PROVE  \A i \in 1..Len(s) : f[i] = g[i]
<1> DEFINE S == {n \in Nat : n >= 1 /\ n <= Len(s) => f[n] = g[n]}
<1>1. 0 \in S
  OBVIOUS
<1>2. ASSUME NEW n \in Nat, n \in S PROVE n + 1 \in S
  <2> SUFFICES ASSUME n + 1 <= Len(s) PROVE f[n + 1] = g[n + 1]
    OBVIOUS
  <2>1. n + 1 \in 1..Len(s) /\ n + 1 \in 1..Len(t) /\ s[n + 1] = t[n + 1] /\ s[1] = t[1]
    BY DEF Extends
  <2>2. CASE n = 0
    BY <2>1, <2>2 DEF JoinRun
  <2>3. CASE n # 0
    <3>1. n + 1 # 1 /\ (n + 1) - 1 = n /\ f[n] = g[n]
      BY <1>2, <2>3
    <3>2. f[n + 1] = Linked(f[n], s[n + 1])
      BY <2>1, <3>1 DEF JoinRun
    <3>3. g[n + 1] = Linked(g[n], t[n + 1])
      BY <2>1, <3>1 DEF JoinRun
    <3> QED
      BY <2>1, <3>1, <3>2, <3>3
  <2> QED
    BY <2>2, <2>3
<1>3. Nat \subseteq S
  <2> HIDE DEF S
  <2> QED
    BY <1>1, <1>2, SetInduction
<1> QED
  BY <1>3

LEMMA JoinedRuns ==
    ASSUME NEW T, NEW s \in Seq(T), s # <<>>, NEW f, JoinRun(f, s)
    PROVE  Joined(s) = f[Len(s)]
<1>1. JoinRun((CHOOSE g : JoinRun(g, s)), s)
  BY JoinExists
<1>2. Extends(s, s) /\ Len(s) \in 1..Len(s)
  BY EmptySeq, LenProperties DEF Extends
<1> QED
  BY <1>1, <1>2, JoinedIsRun, JoinsAgree

LEMMA JoinedOne ==
    ASSUME NEW T, NEW a \in T
    PROVE  Joined(<<a>>) = a
<1> DEFINE s == <<a>>
<1>1. s \in Seq(T) /\ s # <<>> /\ Len(s) = 1 /\ s[1] = a
  OBVIOUS
<1> HIDE DEF s
<1>2. PICK f : JoinRun(f, s)
  BY <1>1, JoinExists
<1>3. f[1] = a
  BY <1>1, <1>2 DEF JoinRun
<1> QED
  BY <1>1, <1>2, <1>3, JoinedRuns DEF s

LEMMA JoinedAppend ==
    ASSUME NEW T, NEW s \in Seq(T), s # <<>>, NEW a \in T
    PROVE  Joined(Append(s, a)) = Linked(Joined(s), a)
<1> DEFINE t == Append(s, a)
<1>1. /\ t \in Seq(T) /\ Len(t) = Len(s) + 1 /\ Len(s) \in Nat /\ Len(s) # 0
      /\ \A i \in 1..Len(s) : s[i] = t[i]
      /\ t[Len(s) + 1] = a /\ t # <<>>
  BY AppendProperties, EmptySeq
<1> HIDE DEF t
<1>2. PICK f : JoinRun(f, s)
  BY JoinExists
<1>3. PICK g : JoinRun(g, t)
  BY <1>1, JoinExists
<1>4. f[Len(s)] = g[Len(s)]
  <2>1. Extends(t, s) /\ Len(s) \in 1..Len(s)
    BY <1>1 DEF Extends
  <2>2. \A i \in 1..Len(s) : f[i] = g[i]
    BY <1>1, <1>2, <1>3, <2>1, JoinsAgree
  <2> QED
    BY <2>1, <2>2
<1>5. g[Len(s) + 1] = Linked(g[Len(s)], a)
  <2>1. Len(s) + 1 \in 1..Len(t) /\ Len(s) + 1 # 1 /\ (Len(s) + 1) - 1 = Len(s)
    BY <1>1
  <2> QED
    BY <1>1, <1>3, <2>1 DEF JoinRun
<1>6. Joined(s) = f[Len(s)] /\ Joined(t) = g[Len(s) + 1]
  <2>1. Joined(s) = f[Len(s)]
    BY <1>2, JoinedRuns
  <2>2. Joined(t) = g[Len(t)]
    BY <1>1, <1>3, JoinedRuns
  <2> QED
    BY <1>1, <2>1, <2>2
<1> QED
  BY <1>4, <1>5, <1>6 DEF t

-----------------------------------------------------------------------------
\* Texts without a separator can be told from what they are joined to.
Tidy(text) == \A i \in 1..Len(text) : text[i] # Separator

LEMMA LinkedIs ==
    ASSUME NEW x \in Text, NEW a \in Text
    PROVE  /\ Linked(x, a) \in Text
           /\ Len(x) \in Nat /\ Len(a) \in Nat
           /\ Len(Linked(x, a)) = Len(x) + 1 + Len(a)
           /\ \A i \in 1..Len(x) : Linked(x, a)[i] = x[i]
           /\ Linked(x, a)[Len(x) + 1] = Separator
           /\ \A i \in 1..Len(a) : Linked(x, a)[Len(x) + 1 + i] = a[i]
<1> DEFINE bar == <<Separator>>
           front == x \o bar
           whole == front \o a
<1>1. /\ x \in Seq(Character) /\ a \in Seq(Character)
      /\ bar \in Seq(Character) /\ Len(bar) = 1 /\ bar[1] = Separator
  BY CollectionsAssumption DEF Text
<1> HIDE DEF bar
<1>2. Len(x) \in Nat /\ Len(a) \in Nat
  BY <1>1, LenProperties
<1>3. /\ front \in Seq(Character) /\ Len(front) = Len(x) + 1
      /\ \A i \in 1..(Len(x) + 1) : front[i] = IF i <= Len(x) THEN x[i] ELSE bar[i - Len(x)]
  <2>1. /\ front \in Seq(Character) /\ Len(front) = Len(x) + Len(bar)
        /\ \A i \in 1..(Len(x) + Len(bar)) :
              front[i] = IF i <= Len(x) THEN x[i] ELSE bar[i - Len(x)]
    BY <1>1, ConcatProperties
  <2> HIDE DEF front
  <2> QED
    BY <1>1, <2>1
<1>4. front[Len(x) + 1] = Separator /\ \A i \in 1..Len(x) : front[i] = x[i]
  <2>1. Len(x) + 1 \in 1..(Len(x) + 1) /\ ~(Len(x) + 1 <= Len(x)) /\ (Len(x) + 1) - Len(x) = 1
    BY <1>2
  <2>2. \A i \in 1..Len(x) : i \in 1..(Len(x) + 1) /\ i <= Len(x)
    BY <1>2
  <2> HIDE DEF front
  <2> QED
    BY <1>1, <1>3, <2>1, <2>2
<1> HIDE DEF front
<1>5. /\ whole \in Seq(Character) /\ Len(whole) = Len(front) + Len(a)
      /\ \A i \in 1..(Len(front) + Len(a)) :
            whole[i] = IF i <= Len(front) THEN front[i] ELSE a[i - Len(front)]
  <2>1. \A s, t \in Seq(Character) :
            /\ s \o t \in Seq(Character) /\ Len(s \o t) = Len(s) + Len(t)
            /\ \A i \in 1..(Len(s) + Len(t)) :
                  (s \o t)[i] = IF i <= Len(s) THEN s[i] ELSE t[i - Len(s)]
    BY ConcatProperties
  <2> QED
    BY <1>1, <1>3, <2>1, Zenon
<1> HIDE DEF whole
<1>6. \A i \in 1..(Len(x) + 1) : whole[i] = front[i]
  <2> SUFFICES ASSUME NEW i \in 1..(Len(x) + 1) PROVE whole[i] = front[i]
    OBVIOUS
  <2>1. i \in 1..(Len(front) + Len(a)) /\ i <= Len(front)
    BY <1>2, <1>3
  <2> QED
    BY <1>5, <2>1
<1>7. \A i \in 1..Len(a) : whole[Len(x) + 1 + i] = a[i]
  <2> SUFFICES ASSUME NEW i \in 1..Len(a) PROVE whole[Len(x) + 1 + i] = a[i]
    OBVIOUS
  <2> DEFINE j == Len(x) + 1 + i
  <2>1. j \in 1..(Len(front) + Len(a)) /\ ~(j <= Len(front)) /\ j - Len(front) = i
    BY <1>2, <1>3
  <2> HIDE DEF j
  <2>2. whole[j] = a[i]
    BY <1>5, <2>1
  <2> QED
    BY <2>2 DEF j
<1>8. Linked(x, a) = whole
  BY Zenon DEF Linked, whole, front, bar
<1>9. \A i \in 1..Len(x) : whole[i] = x[i]
  BY <1>2, <1>4, <1>6
<1>10. whole[Len(x) + 1] = Separator
  BY <1>2, <1>4, <1>6
<1>11. Len(whole) = Len(x) + 1 + Len(a)
  BY <1>3, <1>5
<1> QED
  BY <1>2, <1>5, <1>7, <1>8, <1>9, <1>10, <1>11 DEF Text

\* Of two texts that link to one, the part after a tidy one is the shorter.
LEMMA LinkedTails ==
    ASSUME NEW x \in Text, NEW y \in Text, NEW a \in Text, NEW b \in Text,
           Tidy(a), Linked(x, a) = Linked(y, b)
    PROVE  Len(y) <= Len(x)
<1> SUFFICES ASSUME Len(x) < Len(y) PROVE FALSE
  BY LinkedIs
<1> DEFINE w == Linked(x, a)
           j == Len(y) - Len(x)
<1>1. /\ Len(x) \in Nat /\ Len(a) \in Nat /\ Len(w) = Len(x) + 1 + Len(a)
      /\ \A i \in 1..Len(a) : w[Len(x) + 1 + i] = a[i]
  BY LinkedIs
<1>2. /\ Len(y) \in Nat /\ Len(b) \in Nat /\ Len(w) = Len(y) + 1 + Len(b)
      /\ w[Len(y) + 1] = Separator
  <2> DEFINE v == Linked(y, b)
  <2>1. /\ Len(y) \in Nat /\ Len(b) \in Nat /\ Len(v) = Len(y) + 1 + Len(b)
        /\ v[Len(y) + 1] = Separator
    BY LinkedIs
  <2>2. w = v
    OBVIOUS
  <2> HIDE DEF v, w
  <2> QED
    BY <2>1, <2>2
<1> HIDE DEF w
<1>3. j \in 1..Len(a) /\ Len(x) + 1 + j = Len(y) + 1
  BY <1>1, <1>2
<1> HIDE DEF j
<1>4. a[j] = Separator
  BY <1>1, <1>2, <1>3
<1> QED
  BY <1>3, <1>4 DEF Tidy

LEMMA LinkedEqual ==
    ASSUME NEW x \in Text, NEW y \in Text, NEW a \in Text, NEW b \in Text,
           Tidy(a), Tidy(b), Linked(x, a) = Linked(y, b)
    PROVE  x = y /\ a = b
<1>1. Len(y) <= Len(x)
  BY LinkedTails
<1>2. Len(x) <= Len(y)
  BY LinkedTails
<1> DEFINE w == Linked(x, a)
<1>3. /\ Len(x) \in Nat /\ Len(a) \in Nat /\ Len(w) = Len(x) + 1 + Len(a)
      /\ \A i \in 1..Len(x) : w[i] = x[i]
      /\ \A i \in 1..Len(a) : w[Len(x) + 1 + i] = a[i]
  BY LinkedIs
<1>4. /\ Len(y) \in Nat /\ Len(b) \in Nat /\ Len(w) = Len(y) + 1 + Len(b)
      /\ \A i \in 1..Len(y) : w[i] = y[i]
      /\ \A i \in 1..Len(b) : w[Len(y) + 1 + i] = b[i]
  <2> DEFINE v == Linked(y, b)
  <2>1. /\ Len(y) \in Nat /\ Len(b) \in Nat /\ Len(v) = Len(y) + 1 + Len(b)
        /\ \A i \in 1..Len(y) : v[i] = y[i]
        /\ \A i \in 1..Len(b) : v[Len(y) + 1 + i] = b[i]
    BY LinkedIs
  <2>2. w = v
    OBVIOUS
  <2> HIDE DEF v, w
  <2> QED
    BY <2>1, <2>2
<1> HIDE DEF w
<1>5. Len(x) = Len(y) /\ Len(a) = Len(b)
  BY <1>1, <1>2, <1>3, <1>4
<1>6. x = y
  <2>1. \A i \in 1..Len(x) : x[i] = y[i]
    BY <1>3, <1>4, <1>5
  <2> QED
    BY <1>5, <2>1, SeqEqual DEF Text
<1>7. a = b
  <2>1. \A i \in 1..Len(a) : a[i] = b[i]
    BY <1>3, <1>4, <1>5
  <2> QED
    BY <1>5, <2>1, SeqEqual DEF Text
<1> QED
  BY <1>6, <1>7

AllTidy(texts) == \A i \in 1..Len(texts) : Tidy(texts[i])

LEMMA JoinedType ==
    ASSUME NEW s \in Seq(Text), s # <<>>
    PROVE  Joined(s) \in Text
<1> DEFINE S == {u \in Seq(Text) : u # <<>> => Joined(u) \in Text}
<1>1. <<>> \in S
  BY EmptySeq
<1>2. ASSUME NEW u \in Seq(Text), NEW a \in Text, u \in S PROVE Append(u, a) \in S
  <2>1. Append(u, a) \in Seq(Text)
    BY AppendProperties
  <2>2. CASE u = <<>>
    <3>1. <<a>> = Append(u, a)
      BY <2>2
    <3>2. Joined(<<a>>) = a
      BY JoinedOne
    <3> QED
      BY <2>1, <3>1, <3>2
  <2>3. CASE u # <<>>
    <3>1. Joined(Append(u, a)) = Linked(Joined(u), a)
      BY <2>3, JoinedAppend
    <3>2. Joined(u) \in Text
      BY <1>2, <2>3
    <3>3. Linked(Joined(u), a) \in Text
      BY <3>2, LinkedIs
    <3> QED
      BY <2>1, <3>1, <3>3
  <2> QED
    BY <2>2, <2>3
<1>3. Seq(Text) \subseteq S
  <2> HIDE DEF S
  <2> QED
    BY <1>1, <1>2, SeqInduction
<1> QED
  BY <1>3

\* The last of the joined texts is the only one, or all but it are joined too.
LEMMA JoinedEnds ==
    ASSUME NEW t \in Seq(Text), t # <<>>
    PROVE  \E u \in Seq(Text), b \in Text :
               /\ t = Append(u, b)
               /\ AllTidy(t) => AllTidy(u) /\ Tidy(b)
               /\ u = <<>> => Joined(t) = b
               /\ u # <<>> => Joined(t) = Linked(Joined(u), b)
<1>1. PICK u \in Seq(Text), b \in Text : t = Append(u, b)
  BY SequenceEmptyOrAppend
<1>2. /\ Len(t) = Len(u) + 1 /\ Len(u) \in Nat
      /\ \A i \in 1..Len(u) : t[i] = u[i]
      /\ t[Len(u) + 1] = b
  BY <1>1, AppendProperties, LenProperties
<1>3. AllTidy(t) => AllTidy(u) /\ Tidy(b)
  BY <1>2 DEF AllTidy
<1>4. u = <<>> => Joined(t) = b
  <2> SUFFICES ASSUME u = <<>> PROVE Joined(t) = b
    OBVIOUS
  <2>1. <<b>> = t
    BY <1>1
  <2>2. Joined(<<b>>) = b
    BY JoinedOne
  <2> QED
    BY <2>1, <2>2
<1>5. u # <<>> => Joined(t) = Linked(Joined(u), b)
  BY <1>1, JoinedAppend
<1> QED
  BY <1>1, <1>3, <1>4, <1>5

\* A tidy text is not the link of two others.
LEMMA LinkedNotTidy ==
    ASSUME NEW x \in Text, NEW a \in Text
    PROVE  ~Tidy(Linked(x, a))
<1>1. /\ Len(x) \in Nat /\ Len(a) \in Nat /\ Len(Linked(x, a)) = Len(x) + 1 + Len(a)
      /\ Linked(x, a)[Len(x) + 1] = Separator
  BY LinkedIs
<1>2. Len(x) + 1 \in 1..Len(Linked(x, a))
  BY <1>1
<1> QED
  BY <1>1, <1>2 DEF Tidy

\* Texts without a separator that join to one text are the same.
LEMMA JoinedInjective ==
    ASSUME NEW s \in Seq(Text), NEW t \in Seq(Text), s # <<>>, t # <<>>,
           AllTidy(s), AllTidy(t), Joined(s) = Joined(t)
    PROVE  s = t
<1> DEFINE Told(u) == u # <<>> /\ AllTidy(u) =>
                \A v \in Seq(Text) : v # <<>> /\ AllTidy(v) /\ Joined(u) = Joined(v) => u = v
           S == {u \in Seq(Text) : Told(u)}
<1>1. <<>> \in S
  BY EmptySeq
<1>2. ASSUME NEW u \in Seq(Text), NEW a \in Text, u \in S PROVE Append(u, a) \in S
  <2> DEFINE w == Append(u, a)
  <2>1. w \in Seq(Text)
    BY AppendProperties
  <2> SUFFICES ASSUME AllTidy(w), NEW v \in Seq(Text), v # <<>>, AllTidy(v), Joined(w) = Joined(v)
               PROVE  w = v
    BY <2>1
  <2>2. /\ AllTidy(u) /\ Tidy(a)
        /\ u = <<>> => Joined(w) = a
        /\ u # <<>> => Joined(w) = Linked(Joined(u), a)
    <3>1. /\ Len(w) = Len(u) + 1 /\ Len(u) \in Nat
          /\ \A i \in 1..Len(u) : w[i] = u[i]
          /\ w[Len(u) + 1] = a
      BY AppendProperties, LenProperties
    <3>2. AllTidy(u) /\ Tidy(a)
      <4> HIDE DEF w
      <4> QED
        BY <3>1 DEF AllTidy
    <3>3. u = <<>> => Joined(w) = a
      <4> SUFFICES ASSUME u = <<>> PROVE Joined(w) = a
        OBVIOUS
      <4>1. <<a>> = w
        OBVIOUS
      <4>2. Joined(<<a>>) = a
        BY JoinedOne
      <4> QED
        BY <4>1, <4>2
    <3>4. u # <<>> => Joined(w) = Linked(Joined(u), a)
      BY JoinedAppend
    <3> QED
      BY <3>2, <3>3, <3>4
  <2>3. PICK x \in Seq(Text), b \in Text :
               /\ v = Append(x, b)
               /\ AllTidy(v) => AllTidy(x) /\ Tidy(b)
               /\ x = <<>> => Joined(v) = b
               /\ x # <<>> => Joined(v) = Linked(Joined(x), b)
    BY JoinedEnds
  <2> HIDE DEF w
  <2>4. AllTidy(x) /\ Tidy(b)
    BY <2>3
  <2>5. u # <<>> => Joined(u) \in Text
    BY JoinedType
  <2>6. x # <<>> => Joined(x) \in Text
    BY JoinedType
  <2>7. u = x /\ a = b
    <3>1. CASE u = <<>> /\ x = <<>>
      BY <2>2, <2>3, <3>1
    <3>2. CASE u = <<>> /\ x # <<>>
      <4>1. a = Linked(Joined(x), b)
        BY <2>2, <2>3, <3>2
      <4>2. ~Tidy(Linked(Joined(x), b))
        BY <2>6, <3>2, LinkedNotTidy
      <4> QED
        BY <2>2, <4>1, <4>2
    <3>3. CASE u # <<>> /\ x = <<>>
      <4>1. b = Linked(Joined(u), a)
        BY <2>2, <2>3, <3>3
      <4>2. ~Tidy(Linked(Joined(u), a))
        BY <2>5, <3>3, LinkedNotTidy
      <4> QED
        BY <2>4, <4>1, <4>2
    <3>4. CASE u # <<>> /\ x # <<>>
      <4>1. Linked(Joined(u), a) = Linked(Joined(x), b)
        BY <2>2, <2>3, <3>4
      <4>2. Joined(u) = Joined(x) /\ a = b
        BY <2>2, <2>4, <2>5, <2>6, <3>4, <4>1, LinkedEqual
      <4>3. Told(u)
        BY <1>2
      <4> QED
        BY <2>2, <2>4, <3>4, <4>2, <4>3
    <3> QED
      BY <3>1, <3>2, <3>3, <3>4
  <2> QED
    BY <2>3, <2>7 DEF w
<1>3. Seq(Text) \subseteq S
  <2> HIDE DEF S
  <2> QED
    BY <1>1, <1>2, SeqInduction
<1> QED
  BY <1>3

-----------------------------------------------------------------------------
(***************************************************************************)
(* Lines and their keys                                                    *)
(***************************************************************************)
\* A line can be told from the texts its key is made of.
Quad(a, b, c, d) == <<a, b, c, d>>

IsQuad(s, a, b, c, d) == Len(s) = 4 /\ s[1] = a /\ s[2] = b /\ s[3] = c /\ s[4] = d

LEMMA QuadIs ==
    ASSUME NEW T
    PROVE  \A a, b, c, d \in T :
               Quad(a, b, c, d) \in Seq(T) /\ IsQuad(Quad(a, b, c, d), a, b, c, d)
BY DEF Quad, IsQuad

LEMMA ConcatEqual ==
    ASSUME NEW T, NEW s \in Seq(T), NEW t \in Seq(T), NEW u \in Seq(T), NEW v \in Seq(T),
           Len(s) = Len(u), s \o t = u \o v
    PROVE  s = u /\ t = v
<1> DEFINE w == s \o t
           z == u \o v
<1>1. /\ Len(s) \in Nat /\ Len(t) \in Nat /\ Len(w) = Len(s) + Len(t)
      /\ \A i \in 1..(Len(s) + Len(t)) : w[i] = IF i <= Len(s) THEN s[i] ELSE t[i - Len(s)]
  BY ConcatProperties, LenProperties
<1>2. /\ Len(u) \in Nat /\ Len(v) \in Nat /\ Len(z) = Len(u) + Len(v)
      /\ \A i \in 1..(Len(u) + Len(v)) : z[i] = IF i <= Len(u) THEN u[i] ELSE v[i - Len(u)]
  BY ConcatProperties, LenProperties
<1>3. w = z
  OBVIOUS
<1> HIDE DEF w, z
<1>4. Len(t) = Len(v)
  BY <1>1, <1>2, <1>3
<1>5. \A i \in 1..Len(s) : s[i] = u[i]
  BY <1>1, <1>2, <1>3, <1>4
<1>6. \A i \in 1..Len(t) : t[i] = v[i]
  <2> SUFFICES ASSUME NEW i \in 1..Len(t) PROVE t[i] = v[i]
    OBVIOUS
  <2> DEFINE j == Len(s) + i
  <2>1. j \in 1..(Len(s) + Len(t)) /\ ~(j <= Len(s)) /\ j - Len(s) = i
    BY <1>1
  <2> HIDE DEF j
  <2> QED
    BY <1>1, <1>2, <1>3, <1>4, <2>1
<1> QED
  BY <1>4, <1>5, <1>6, SeqEqual

LEMMA SourceIs ==
    ASSUME NEW l \in Line
    PROVE  Source(l) \in Seq(Text) /\ Source(l) # <<>>
<1>1. CASE l.op = "add"
  <2> DEFINE s == Quad(l.into, l.title, l.description, l.priority)
             w == s \o l.tags
  <2>1. /\ l.into \in Text /\ l.title \in Text /\ l.description \in Text /\ l.priority \in Text
        /\ l.tags \in Seq(Text)
    BY <1>1 DEF Line, AddLine, TreeLine, MessageLine
  <2>2. s \in Seq(Text) /\ IsQuad(s, l.into, l.title, l.description, l.priority)
    BY <2>1, QuadIs
  <2>3. Source(l) = w
    BY <1>1 DEF Source, AddSource, Quad
  <2> HIDE DEF s
  <2>4. w \in Seq(Text) /\ Len(w) = Len(s) + Len(l.tags) /\ Len(l.tags) \in Nat
    BY <2>1, <2>2, ConcatProperties, LenProperties
  <2> HIDE DEF w
  <2>5. w # <<>>
    BY <2>2, <2>4, EmptySeq DEF IsQuad
  <2> QED
    BY <2>3, <2>4, <2>5
<1>2. CASE l.op = "add-tree"
  <2>1. l.into \in Text /\ l.content \in Text
    BY <1>2 DEF Line, AddLine, TreeLine, MessageLine
  <2>2. Source(l) = <<l.into, l.content>>
    BY <1>2 DEF Source, TreeSource
  <2> HIDE DEF Text
  <2> QED
    BY <2>1, <2>2
<1>3. CASE l.op = "send"
  <2>1. l.kind \in Text /\ l.to \in Text /\ l.thread \in Text /\ l.body \in Text
    BY <1>3 DEF Line, AddLine, TreeLine, MessageLine
  <2> DEFINE s == Quad(l.kind, l.to, l.thread, l.body)
  <2>2. Source(l) = s
    BY <1>3 DEF Source, MessageSource, Quad
  <2>3. s \in Seq(Text) /\ IsQuad(s, l.kind, l.to, l.thread, l.body)
    BY <2>1, QuadIs
  <2> HIDE DEF s
  <2> QED
    BY <2>2, <2>3, EmptySeq DEF IsQuad
<1> QED
  BY <1>1, <1>2, <1>3 DEF Line, AddLine, TreeLine, MessageLine

\* The texts, the command and the container are the whole line.
LEMMA SourceInjective ==
    ASSUME NEW l \in Line, NEW k \in Line, l.op = k.op, l.into = k.into, Source(l) = Source(k)
    PROVE  l = k
<1>1. CASE l.op = "add"
  <2> DEFINE s == Quad(l.into, l.title, l.description, l.priority)
             u == Quad(k.into, k.title, k.description, k.priority)
  <2>1. /\ l.into \in Text /\ l.title \in Text /\ l.description \in Text /\ l.priority \in Text
        /\ l.tags \in Seq(Text)
    BY <1>1 DEF Line, AddLine, TreeLine, MessageLine
  <2>2. /\ k.into \in Text /\ k.title \in Text /\ k.description \in Text /\ k.priority \in Text
        /\ k.tags \in Seq(Text)
    BY <1>1 DEF Line, AddLine, TreeLine, MessageLine
  <2>3. s \in Seq(Text) /\ IsQuad(s, l.into, l.title, l.description, l.priority)
    BY <2>1, QuadIs
  <2>4. u \in Seq(Text) /\ IsQuad(u, k.into, k.title, k.description, k.priority)
    BY <2>2, QuadIs
  <2>5. s \o l.tags = u \o k.tags
    BY <1>1 DEF Source, AddSource, Quad
  <2> HIDE DEF s, u
  <2>6. s = u /\ l.tags = k.tags
    <3>1. Len(s) = Len(u)
      BY <2>3, <2>4 DEF IsQuad
    <3> QED
      BY <2>1, <2>2, <2>3, <2>4, <2>5, <3>1, ConcatEqual
  <2>7. l.title = k.title /\ l.description = k.description /\ l.priority = k.priority
    BY <2>3, <2>4, <2>6 DEF IsQuad
  <2>8. /\ l \in AddLine
        /\ k \in AddLine
    BY <1>1 DEF Line, AddLine, TreeLine, MessageLine
  <2> QED
    BY <2>6, <2>7, <2>8 DEF AddLine
<1>2. CASE l.op = "add-tree"
  <2>1. <<l.into, l.content>> = <<k.into, k.content>>
    BY <1>2 DEF Source, TreeSource
  <2>2. l.content = k.content
    BY <2>1
  <2>3. /\ l \in TreeLine
        /\ k \in TreeLine
    BY <1>2 DEF Line, AddLine, TreeLine, MessageLine
  <2> QED
    BY <2>2, <2>3 DEF TreeLine
<1>3. CASE l.op = "send"
  <2> DEFINE s == Quad(l.kind, l.to, l.thread, l.body)
             u == Quad(k.kind, k.to, k.thread, k.body)
  <2>1. l.kind \in Text /\ l.to \in Text /\ l.thread \in Text /\ l.body \in Text
    BY <1>3 DEF Line, AddLine, TreeLine, MessageLine
  <2>2. k.kind \in Text /\ k.to \in Text /\ k.thread \in Text /\ k.body \in Text
    BY <1>3 DEF Line, AddLine, TreeLine, MessageLine
  <2>3. IsQuad(s, l.kind, l.to, l.thread, l.body)
    BY <2>1, QuadIs
  <2>4. IsQuad(u, k.kind, k.to, k.thread, k.body)
    BY <2>2, QuadIs
  <2>5. s = u
    BY <1>3 DEF Source, MessageSource, Quad
  <2> HIDE DEF s, u
  <2>6. l.kind = k.kind /\ l.to = k.to /\ l.thread = k.thread /\ l.body = k.body
    BY <2>3, <2>4, <2>5 DEF IsQuad
  <2>7. /\ l \in MessageLine
        /\ k \in MessageLine
    BY <1>3 DEF Line, AddLine, TreeLine, MessageLine
  <2> QED
    BY <2>6, <2>7 DEF MessageLine
<1> QED
  BY <1>1, <1>2, <1>3 DEF Line, AddLine, TreeLine, MessageLine

LEMMA ClearIsTidy ==
    ASSUME NEW l \in Line, ~Ambiguous(l)
    PROVE  AllTidy(Source(l))
<1> SUFFICES ASSUME NEW i \in 1..Len(Source(l)), NEW j \in 1..Len(Source(l)[i])
             PROVE  Source(l)[i][j] # Separator
  BY DEF AllTidy, Tidy
<1>1. Source(l) \in Seq(Text) /\ i \in DOMAIN Source(l)
  BY SourceIs
<1>2. Source(l)[i] \in Seq(Character)
  BY <1>1 DEF Text
<1>3. j \in DOMAIN Source(l)[i]
  BY <1>2
<1>4. Source(l)[i][j] \in ToSet(Source(l)[i])
  BY <1>3 DEF ToSet
<1> QED
  BY <1>1, <1>4 DEF Ambiguous

\* Lines without the separator whose keys and endpoints are one are one line.
LEMMA OneKeyOneLine ==
    ASSUME NEW l \in Line, NEW k \in Line, ~Ambiguous(l), ~Ambiguous(k),
           Joined(Source(l)) = Joined(Source(k)), Endpoint(l) = Endpoint(k)
    PROVE  l = k
<1>1. l.op = k.op /\ l.into = k.into
  BY DEF Endpoint
<1>2. Source(l) = Source(k)
  BY SourceIs, ClearIsTidy, JoinedInjective
<1> QED
  BY <1>1, <1>2, SourceInjective

-----------------------------------------------------------------------------
(***************************************************************************)
(* The row of an answer                                                    *)
(***************************************************************************)
\* The row just reported has the endpoint and the key of the line.
Answered ==
    answer # NoAnswer =>
        /\ answer.row \in Rows
        /\ answer.line \in CommandLine
        /\ Endpoint(answer.line) = Endpoint(made[answer.row].line)
        /\ Joined(Source(answer.line)) = Joined(Source(made[answer.row].line))

LEMMA AnsweredNext == Inv /\ Answered /\ [Next]_vars => Answered'
<1> SUFFICES ASSUME Inv, Answered, [Next]_vars
             PROVE  Answered'
  OBVIOUS
<1>1. ASSUME NEW c \in Client, NEW l \in CommandLine, Creates(c, l, TRUE) \/ Creates(c, l, FALSE)
      PROVE  Answered'
  <2> DEFINE n == Len(place) + 1
             row == [line |-> l, actor |-> ActorOf[c]]
  <2>1. /\ answer' = NoAnswer \/ answer' = [line |-> l, row |-> n]
        /\ made' = Append(made, row)
    BY <1>1 DEF Creates
  <2>2. PICK p \in 1..MaxPosition : place' = Append(place, p)
    BY <1>1 DEF Creates
  <2>3. Len(place) \in Nat /\ Len(place') = n
    BY <2>2, CollectionsAssumption DEF Inv, Recorded
  <2>4. made'[n] = row
    BY <2>1, <2>3, CollectionsAssumption DEF Inv, Recorded
  <2>5. n \in Rows'
    BY <2>3 DEF Rows
  <2>6. CASE answer' = [line |-> l, row |-> n]
    <3>1. answer'.row = n /\ answer'.line = l /\ made'[n].line = l
      BY <2>4, <2>6
    <3> HIDE DEF n
    <3> QED
      BY <2>5, <3>1 DEF Answered
  <2>7. CASE answer' = NoAnswer
    BY <2>7 DEF Answered, NoAnswer
  <2> QED
    BY <2>1, <2>6, <2>7
<1>2. ASSUME NEW c \in Client, NEW l \in CommandLine, Replays(c, l)
      PROVE  Answered'
  <2>1. PICK m \in memory : /\ m.endpoint = Endpoint(l) /\ m.key = Key(c, l)
                            /\ answer' = [line |-> l, row |-> m.row]
    BY <1>2 DEF Replays, Remembered
  <2>2. UNCHANGED <<place, made>>
    BY <1>2 DEF Replays
  <2>3. /\ m.row \in Rows /\ m.endpoint = Endpoint(made[m.row].line)
        /\ m.key = Key(c, made[m.row].line)
    BY <2>1 DEF Inv, Recorded
  <2>4. Joined(Source(l)) = Joined(Source(made[m.row].line))
    BY <2>1, <2>3 DEF Key
  <2>5. answer'.row = m.row /\ answer'.line = l
    BY <2>1
  <2>6. Rows' = Rows
    BY <2>2 DEF Rows
  <2> QED
    BY <2>1, <2>2, <2>3, <2>4, <2>5, <2>6 DEF Answered
<1>3. CASE UNCHANGED vars
  BY <1>3 DEF Answered, vars, Rows
<1>4. CASE answer' = NoAnswer
  BY <1>4 DEF Answered, NoAnswer
<1>5. CASE StartListing \/ NextPage \/ LastPage \/ Stops \/ Forgets
  BY <1>4, <1>5 DEF StartListing, NextPage, LastPage, Stops, EndsListing, Forgets
<1>6. ASSUME NEW n \in Rows, Leaves(n) \/ \E p \in 1..MaxPosition : Moves(n, p) PROVE Answered'
  BY <1>4, <1>6 DEF Leaves, Moves
<1> QED
  BY <1>1, <1>2, <1>3, <1>5, <1>6 DEF Next

LEMMA AnsweredInvariant == Spec => []Answered
<1>1. Init => Answered
  BY DEF Init, Answered
<1> QED
  BY <1>1, AnsweredNext, Invariant, PTL DEF Spec

\* add, add-tree and send report a row that came from the same line,
\* from whatever process, unless an argument has the separator in it.
THEOREM OwnAnswer == Spec => []AnsweredWithOwn
<1>1. Inv /\ Answered => AnsweredWithOwn
  <2> SUFFICES ASSUME Inv, Answered, answer # NoAnswer,
                      ~Ambiguous(made[answer.row].line), ~Ambiguous(answer.line)
               PROVE  made[answer.row].line = answer.line
    BY DEF AnsweredWithOwn
  <2> DEFINE row == made[answer.row]
  <2>1. answer.row \in 1..Len(made)
    BY DEF Answered, Inv, Recorded, Rows
  <2>2. row \in [line : CommandLine, actor : Actor]
    <3>1. made \in Seq([line : CommandLine, actor : Actor])
      BY DEF Inv, Recorded
    <3> QED
      BY <2>1, <3>1, ElementOfSeq
  <2>3. row.line \in Line /\ answer.line \in Line
    BY <2>2, CollectionsAssumption DEF Answered
  <2>4. /\ Endpoint(answer.line) = Endpoint(row.line)
        /\ Joined(Source(answer.line)) = Joined(Source(row.line))
        /\ ~Ambiguous(row.line)
    BY DEF Answered
  <2> HIDE DEF row
  <2>5. row.line = answer.line
    BY <2>3, <2>4, OneKeyOneLine
  <2> QED
    BY <2>5 DEF row
<1> QED
  BY <1>1, Invariant, AnsweredInvariant, PTL

-----------------------------------------------------------------------------
(***************************************************************************)
(* Listings                                                                *)
(***************************************************************************)
LEMMA BoundedSetMax ==
    ASSUME NEW b \in Nat, NEW S \in SUBSET (0..b), S # {}
    PROVE  Max(S) \in S /\ \A k \in S : k <= Max(S)
<1> DEFINE R == {k \in Nat : b - k \in S}
<1>1. R # {}
  <2>1. PICK k \in S : TRUE
    OBVIOUS
  <2>2. b - k \in Nat /\ b - (b - k) = k
    BY <2>1
  <2>3. b - k \in R
    BY <2>1, <2>2
  <2> QED
    BY <2>3
<1>2. PICK m \in R : \A k \in R : m <= k
  BY <1>1, NatSetMin
<1>3. \A k \in S : b - m >= k
  <2> SUFFICES ASSUME NEW k \in S PROVE b - m >= k
    OBVIOUS
  <2>1. b - k \in Nat /\ b - (b - k) = k
    OBVIOUS
  <2>2. b - k \in R
    BY <2>1
  <2>3. m <= b - k
    BY <1>2, <2>2
  <2> QED
    BY <2>3
<1>4. \E x \in S : \A k \in S : x >= k
  BY <1>2, <1>3
<1>5. Max(S) \in S /\ \A k \in S : Max(S) >= k
  BY <1>4 DEF Max
<1> QED
  BY <1>5

Bounded == Len(place) <= MaxRow /\ got \in [1..MaxRow -> 0..2]

\* The first two pages come once, and all do if the last cursor counts.
Exact == taken = "last" \/ Len(query) < 2

\* A row that has kept its place is collected once the cursor is past it.
Collecting ==
    query # NoListing =>
        /\ query \in Seq(Nat) /\ Len(query) <= 2
        /\ \A n \in steady :
              /\ n \in Present
              /\ place[n] <= After(query) => got[n] >= 1
              /\ Exact => got[n] = IF place[n] <= After(query) THEN 1 ELSE 0

Placed == place \in Seq(0..MaxPosition) /\ Len(place) <= MaxRow

LEMMA PlacedIs ==
    ASSUME Placed
    PROVE  /\ Len(place) \in Nat
           /\ \A n \in Present : place[n] \in 1..MaxPosition /\ n \in 1..MaxRow
BY CollectionsAssumption DEF Placed, Present, Rows, Gone

LEMMA BelowFinite ==
    ASSUME Placed, NEW p
    PROVE  IsFiniteSet(Below(p))
<1>1. IsFiniteSet(1..Len(place))
  BY PlacedIs, FS_Interval
<1>2. Below(p) \in SUBSET (1..Len(place))
  BY DEF Below, Present, Rows
<1> QED
  BY <1>1, <1>2, FS_Subset

\* How many rows come before n in the order of positions.
Before(p, n) == {m \in Below(p) : place[m] < place[n]}

LEMMA PageIs == \A p : PageAfter(p) = {n \in Below(p) : Cardinality(Before(p, n)) < Limit}
BY DEF PageAfter, Before

LEMMA BeforeFinite ==
    ASSUME Placed, NEW p, NEW n
    PROVE  IsFiniteSet(Before(p, n)) /\ Cardinality(Before(p, n)) \in Nat
<1>1. Before(p, n) \in SUBSET Below(p)
  BY DEF Before
<1> QED
  BY <1>1, BelowFinite, FS_Subset, FS_CardinalityType

\* A row that is not behind a row of the page is on the page.
LEMMA PageClosed ==
    ASSUME Placed, NEW p \in Nat, NEW m \in PageAfter(p), NEW n \in Below(p), place[n] <= place[m]
    PROVE  n \in PageAfter(p)
<1>1. m \in Below(p) /\ Cardinality(Before(p, m)) < Limit
  BY PageIs
<1>2. place[m] \in Nat /\ place[n] \in Nat /\ \A k \in Below(p) : place[k] \in Nat
  BY <1>1, PlacedIs, CollectionsAssumption DEF Below
<1>3. Before(p, n) \in SUBSET Before(p, m)
  BY <1>2 DEF Before
<1>4. Cardinality(Before(p, n)) <= Cardinality(Before(p, m))
  BY <1>3, BeforeFinite, FS_Subset
<1>5. Cardinality(Before(p, n)) < Limit
  BY <1>1, <1>4, BeforeFinite, CollectionsAssumption
<1> QED
  BY <1>5, PageIs

\* A page that has a successor has a first row.
LEMMA PageNonempty ==
    ASSUME Placed, NEW p \in Nat, Below(p) # {}
    PROVE  PageAfter(p) # {}
<1> DEFINE S == {place[n] : n \in Below(p)}
<1>1. S \in SUBSET Nat /\ S # {}
  <2>1. \A n \in Below(p) : place[n] \in Nat
    BY PlacedIs, CollectionsAssumption DEF Below
  <2> QED
    BY <2>1
<1>2. PICK low \in S : \A k \in S : low <= k
  BY <1>1, NatSetMin
<1>3. PICK n \in Below(p) : place[n] = low
  BY <1>2
<1>4. \A m \in Below(p) : ~(place[m] < place[n])
  BY <1>1, <1>2, <1>3
<1>5. Before(p, n) = {}
  BY <1>4 DEF Before
<1>6. Cardinality(Before(p, n)) < Limit
  BY <1>5, FS_EmptySet, CollectionsAssumption
<1> QED
  BY <1>3, <1>6, PageIs

\* The rows of a page are those up to its last place.
LEMMA PageUpToLast ==
    ASSUME Placed, NEW p \in Nat, Below(p) # {}
    PROVE  /\ LastPlace(PageAfter(p)) \in Nat
           /\ p < LastPlace(PageAfter(p))
           /\ \A n \in Below(p) : n \in PageAfter(p) <=> place[n] <= LastPlace(PageAfter(p))
<1> DEFINE page == PageAfter(p)
           S == {place[n] : n \in page}
<1>1. page \subseteq Below(p) /\ page # {}
  BY PageIs, PageNonempty
<1>2. \A n \in Below(p) : place[n] \in 1..MaxPosition /\ place[n] > p
  BY PlacedIs DEF Below
<1>3. S \in SUBSET (0..MaxPosition) /\ S # {}
  BY <1>1, <1>2, CollectionsAssumption
<1>4. Max(S) \in S /\ \A k \in S : k <= Max(S)
  BY <1>3, BoundedSetMax, CollectionsAssumption
<1>5. LastPlace(page) = Max(S)
  BY DEF LastPlace
<1> DEFINE last == LastPlace(page)
<1> HIDE DEF last
<1>6. PICK m \in page : place[m] = last
  BY <1>4, <1>5 DEF last
<1>7. \A n \in page : place[n] <= last
  BY <1>4, <1>5 DEF last
<1>8. last \in Nat /\ p < last
  BY <1>1, <1>2, <1>6, CollectionsAssumption
<1>9. \A n \in Below(p) : place[n] <= last => n \in page
  BY <1>6, PageClosed
<1> QED
  BY <1>7, <1>8, <1>9 DEF last

\* The last page has everything behind the cursor.
LEMMA LastPageIsAll ==
    ASSUME Placed, NEW p \in Nat, Cardinality(Below(p)) <= Limit
    PROVE  PageAfter(p) = Below(p)
<1> SUFFICES ASSUME NEW n \in Below(p) PROVE Cardinality(Before(p, n)) < Limit
  BY PageIs
<1>1. place[n] \in Nat
  BY PlacedIs, CollectionsAssumption DEF Below
<1>2. Before(p, n) \in SUBSET Below(p) /\ n \notin Before(p, n)
  BY <1>1 DEF Before
<1>3. /\ Cardinality(Before(p, n)) <= Cardinality(Below(p))
      /\ Cardinality(Below(p)) # Cardinality(Before(p, n))
  BY <1>2, BelowFinite, FS_Subset
<1>4. Cardinality(Before(p, n)) \in Nat /\ Cardinality(Below(p)) \in Nat
  BY BelowFinite, BeforeFinite, FS_CardinalityType
<1> QED
  BY <1>3, <1>4, CollectionsAssumption

LEMMA AfterIs ==
    /\ After(<<>>) = 0
    /\ \A q \in Seq(Nat) : After(q) \in Nat
<1>1. After(<<>>) = 0
  BY DEF After
<1>2. ASSUME NEW q \in Seq(Nat), q # <<>> PROVE After(q) \in Nat
  <2>1. Len(q) \in 1..Len(q)
    BY <1>2, EmptySeq, LenProperties
  <2>2. q[Len(q)] \in Nat
    BY <2>1, ElementOfSeq
  <2>3. Head(q) \in Nat
    BY <1>2, HeadTailProperties
  <2> QED
    BY <1>2, <2>2, <2>3 DEF After, Last
<1> QED
  BY <1>1, <1>2

\* Where the page that follows starts: behind the new cursor, or where the
\* page before it did.
LEMMA FollowedIs ==
    ASSUME NEW q \in Seq(Nat), Len(q) <= 2, NEW p \in Nat
    PROVE  /\ Followed(q, p) \in Seq(Nat) /\ Len(Followed(q, p)) <= 2
           /\ taken = "last" \/ q = <<>> => After(Followed(q, p)) = p
           /\ taken # "last" /\ q # <<>> =>
                 After(Followed(q, p)) = After(q) /\ Len(Followed(q, p)) = 2
<1>1. Len(q) \in Nat /\ (q # <<>> => Len(q) # 0)
  BY EmptySeq, LenProperties
<1>2. q # <<>> => Head(q) \in Nat /\ (taken # "last" => After(q) = Head(q))
  BY HeadTailProperties DEF After
<1>3. CASE Len(q) < 2
  <2> DEFINE r == Append(q, p)
  <2>1. Followed(q, p) = r
    BY <1>3 DEF Followed
  <2>2. /\ r \in Seq(Nat) /\ r # <<>> /\ Len(r) = Len(q) + 1 /\ r[Len(q) + 1] = p
        /\ Head(r) = IF q = <<>> THEN p ELSE Head(q)
    BY AppendProperties, HeadTailAppend
  <2>3. taken = "last" => After(r) = p
    BY <2>2 DEF After, Last
  <2>4. taken # "last" => After(r) = Head(r)
    BY <2>2 DEF After
  <2>5. Len(r) <= 2 /\ (q # <<>> => Len(r) = 2)
    BY <1>1, <1>3, <2>2
  <2> HIDE DEF r
  <2> QED
    BY <1>2, <2>1, <2>2, <2>3, <2>4, <2>5
<1>4. CASE Len(q) = 2
  <2> DEFINE r == <<Head(q), p>>
  <2>1. Followed(q, p) = r
    BY <1>4 DEF Followed
  <2>2. q # <<>>
    BY <1>4, EmptySeq
  <2>3. r \in Seq(Nat) /\ r # <<>> /\ Len(r) = 2 /\ Head(r) = Head(q) /\ r[2] = p
    BY <1>2, <2>2
  <2>4. taken = "last" => After(r) = p
    BY <2>3 DEF After, Last
  <2>5. taken # "last" => After(r) = Head(r)
    BY <2>3 DEF After
  <2> HIDE DEF r
  <2> QED
    BY <1>2, <2>1, <2>2, <2>3, <2>4, <2>5
<1>5. Len(q) < 2 \/ Len(q) = 2
  <2> DEFINE k == Len(q)
  <2>1. k \in Nat /\ k <= 2
    BY <1>1
  <2> HIDE DEF k
  <2>2. k < 2 \/ k = 2
    BY <2>1
  <2> QED
    BY <2>2 DEF k
<1> QED
  BY <1>3, <1>4, <1>5

LEMMA CollectedIs ==
    ASSUME Bounded, NEW page, NEW n \in 1..MaxRow
    PROVE  Collected(page)[n] = IF n \in page /\ got[n] < 2 THEN got[n] + 1 ELSE got[n]
BY DEF Collected

LEMMA BoundedNext == Inv /\ Bounded /\ [Next]_vars => Bounded'
<1> SUFFICES ASSUME Inv, Bounded, [Next]_vars PROVE Bounded'
  OBVIOUS
<1>1. place \in Seq(0..MaxPosition)
  BY DEF Inv, Recorded
<1>2. ASSUME NEW c \in Client, NEW l \in CommandLine, Creates(c, l, TRUE) \/ Creates(c, l, FALSE)
      PROVE  Bounded'
  <2>1. PICK p \in 1..MaxPosition : place' = Append(place, p)
    BY <1>2 DEF Creates
  <2>2. Len(place) + 1 <= MaxRow /\ got' = got
    BY <1>2 DEF Creates, listings
  <2>3. Len(place') = Len(place) + 1
    BY <1>1, <2>1, CollectionsAssumption
  <2> QED
    BY <2>2, <2>3 DEF Bounded
<1>3. ASSUME NEW n \in Rows, Leaves(n) \/ \E p \in 1..MaxPosition : Moves(n, p)
      PROVE  Bounded'
  <2>1. PICK p \in 0..MaxPosition : place' = [place EXCEPT ![n] = p]
    BY <1>3, CollectionsAssumption DEF Leaves, Moves, Gone
  <2>2. got' = got
    BY <1>3 DEF Leaves, Moves
  <2>3. Len(place') = Len(place)
    BY <1>1, <2>1
  <2> QED
    BY <2>2, <2>3 DEF Bounded
<1>4. NothingGot \in [1..MaxRow -> 0..2]
  BY DEF NothingGot
<1>5. ASSUME NEW page PROVE Collected(page) \in [1..MaxRow -> 0..2]
  BY DEF Collected, Bounded
<1>6. CASE UNCHANGED <<place, got>>
  BY <1>6 DEF Bounded
<1>7. CASE UNCHANGED place /\ got' = NothingGot
  BY <1>4, <1>7 DEF Bounded
<1>8. CASE UNCHANGED place /\ \E page : got' = Collected(page)
  BY <1>5, <1>8 DEF Bounded
<1>9. CASE StartListing \/ NextPage \/ LastPage \/ Stops \/ Forgets \/ UNCHANGED vars
  BY <1>6, <1>7, <1>8, <1>9
     DEF StartListing, NextPage, LastPage, Stops, EndsListing, Forgets, listings, vars
<1>10. ASSUME NEW c \in Client, NEW l \in CommandLine, Replays(c, l) PROVE Bounded'
  BY <1>6, <1>10 DEF Replays, listings
<1> QED
  BY <1>2, <1>3, <1>9, <1>10 DEF Next

\* What a following page does to the rows that stayed.
LEMMA PageCollects ==
    ASSUME Placed, Bounded, Collecting, NextPage
    PROVE  Collecting'
<1> DEFINE p == After(query)
           page == PageAfter(p)
           last == LastPlace(page)
<1>1. /\ query \in Seq(Nat) /\ Len(query) <= 2 /\ Cardinality(Below(p)) > Limit
      /\ got' = Collected(page) /\ query' = Followed(query, last)
      /\ UNCHANGED <<place, steady, taken>>
  BY DEF NextPage, Collecting
<1>2. p \in Nat
  BY <1>1, AfterIs
<1>3. Below(p) # {}
  <2>1. Cardinality(Below(p)) # 0
    BY <1>1, BelowFinite, FS_CardinalityType, CollectionsAssumption
  <2> QED
    BY <2>1, FS_EmptySet
<1>4. /\ last \in Nat /\ p < last
      /\ \A n \in Below(p) : n \in page <=> place[n] <= last
  BY <1>2, <1>3, PageUpToLast
<1>5. /\ query' \in Seq(Nat) /\ Len(query') <= 2
      /\ taken = "last" \/ query = <<>> => After(query') = last
      /\ taken # "last" /\ query # <<>> => After(query') = p /\ Len(query') = 2
  BY <1>1, <1>4, FollowedIs
<1>6. page \subseteq Below(p)
  BY PageIs
<1>7. ASSUME NEW n \in steady
      PROVE  /\ n \in Present /\ place[n] \in Nat /\ got'[n] \in 0..2
             /\ place[n] <= p => got'[n] >= 1
             /\ Exact => got'[n] = IF place[n] <= last THEN 1 ELSE 0
  <2>1. /\ n \in Present
        /\ place[n] <= p => got[n] >= 1
        /\ Exact => got[n] = IF place[n] <= p THEN 1 ELSE 0
    BY <1>7 DEF Collecting, NextPage
  <2>2. place[n] \in Nat /\ n \in 1..MaxRow
    BY <2>1, PlacedIs, CollectionsAssumption
  <2>3. got'[n] = IF n \in page /\ got[n] < 2 THEN got[n] + 1 ELSE got[n]
    BY <1>1, <2>2, CollectedIs
  <2>4. n \in Below(p) <=> place[n] > p
    BY <2>1 DEF Below
  <2>5. got[n] \in 0..2
    BY <2>2 DEF Bounded
  <2> HIDE DEF p, page, last
  <2>6. CASE place[n] <= p
    <3>1. n \notin page
      BY <1>2, <1>6, <2>2, <2>4, <2>6
    <3> QED
      BY <1>2, <1>4, <2>1, <2>2, <2>3, <2>5, <2>6, <3>1
  <2>7. CASE place[n] > p
    <3>1. n \in page <=> place[n] <= last
      BY <1>4, <2>4, <2>7
    <3>2. Exact => got[n] = 0
      BY <1>2, <2>1, <2>2, <2>7
    <3> QED
      BY <1>2, <2>1, <2>2, <2>3, <2>5, <2>7, <3>1, <3>2
  <2> QED
    BY <1>2, <2>2, <2>6, <2>7
<1>8. Present' = Present
  BY <1>1 DEF Present, Rows
<1>9. After(query)' = After(query')
  BY <1>1 DEF After
<1> HIDE DEF p, page, last
<1>10. CASE taken = "last" \/ query = <<>>
  <2>1. Exact /\ After(query)' = last
    BY <1>5, <1>9, <1>10 DEF Exact
  <2> QED
    BY <1>1, <1>4, <1>5, <1>7, <1>8, <2>1 DEF Collecting
<1>11. CASE taken # "last" /\ query # <<>>
  <2>1. taken' # "last" /\ Len(query') = 2
    BY <1>1, <1>5, <1>11
  <2>2. ~Exact' /\ After(query)' = p
    BY <1>5, <1>9, <1>11, <2>1 DEF Exact
  <2> QED
    BY <1>1, <1>5, <1>7, <1>8, <2>2 DEF Collecting
<1> QED
  BY <1>10, <1>11

LEMMA CollectingNext ==
    ASSUME Inv, Bounded, Collecting, [Next]_vars
    PROVE  Collecting'
<1>1. Placed
  BY DEF Inv, Recorded, Bounded, Placed
<1>2. ASSUME NEW c \in Client, NEW l \in CommandLine, Creates(c, l, TRUE) \/ Creates(c, l, FALSE)
      PROVE  Collecting'
  <2>1. PICK p \in 1..MaxPosition : place' = Append(place, p)
    BY <1>2 DEF Creates
  <2>2. UNCHANGED <<query, got, steady, taken>>
    BY <1>2 DEF Creates, listings
  <2>3. /\ Len(place) \in Nat /\ Len(place') = Len(place) + 1
        /\ \A n \in 1..Len(place) : place'[n] = place[n]
    BY <1>1, <2>1, CollectionsAssumption DEF Placed
  <2>4. \A n \in Present : n \in Present' /\ place'[n] = place[n]
    BY <2>3 DEF Present, Rows
  <2> QED
    BY <2>2, <2>4 DEF Collecting, After, Exact
<1>3. ASSUME NEW m \in Rows, Leaves(m) \/ \E p \in 1..MaxPosition : Moves(m, p)
      PROVE  Collecting'
  <2>1. PICK p \in 0..MaxPosition : place' = [place EXCEPT ![m] = p]
    BY <1>3, CollectionsAssumption DEF Leaves, Moves, Gone
  <2>2. UNCHANGED <<query, got, taken>> /\ steady' = steady \ {m}
    BY <1>3 DEF Leaves, Moves
  <2>3. /\ Len(place') = Len(place)
        /\ \A n \in 1..Len(place) : n # m => place'[n] = place[n]
    BY <1>1, <2>1 DEF Placed
  <2>4. \A n \in Present : n # m => n \in Present' /\ place'[n] = place[n]
    BY <2>3 DEF Present, Rows
  <2> QED
    BY <2>2, <2>4 DEF Collecting, After, Exact
<1>4. CASE StartListing
  <2>1. /\ query' = <<>> /\ got' = NothingGot /\ steady' = Present /\ place' = place
    BY <1>4 DEF StartListing
  <2>2. Present' = Present
    BY <2>1 DEF Present, Rows
  <2>3. \A n \in Present : NothingGot[n] = 0 /\ ~(place[n] <= 0)
    BY <1>1, PlacedIs DEF NothingGot
  <2>4. <<>> \in Seq(Nat) /\ Len(<<>>) = 0 /\ After(<<>>)' = 0
    BY EmptySeq DEF After
  <2> QED
    BY <2>1, <2>2, <2>3, <2>4 DEF Collecting
<1>5. CASE NextPage
  BY <1>1, <1>5, PageCollects
<1>6. CASE LastPage \/ Stops
  BY <1>6 DEF LastPage, Stops, EndsListing, Collecting
<1>7. CASE UNCHANGED <<place, query, got, steady, taken>>
  BY <1>7 DEF Collecting, Present, Rows, After, Exact
<1>8. ASSUME NEW c \in Client, NEW l \in CommandLine, Replays(c, l) PROVE Collecting'
  BY <1>7, <1>8 DEF Replays, listings
<1>9. CASE Forgets \/ UNCHANGED vars
  BY <1>7, <1>9 DEF Forgets, listings, vars
<1> QED
  BY <1>2, <1>3, <1>4, <1>5, <1>6, <1>8, <1>9 DEF Next

LEMMA LastPageLists ==
    ASSUME Inv, Bounded, Collecting, LastPage, NEW n \in steady
    PROVE  /\ Listed[n] >= 1
           /\ taken = "last" \/ Len(query) < 2 => Listed[n] = 1
<1> DEFINE p == After(query)
<1>1. Placed
  BY DEF Inv, Recorded, Bounded, Placed
<1>2. /\ query \in Seq(Nat) /\ Cardinality(Below(p)) <= Limit
      /\ n \in Present
      /\ place[n] <= p => got[n] >= 1
      /\ Exact => got[n] = IF place[n] <= p THEN 1 ELSE 0
  BY DEF LastPage, Collecting
<1>3. p \in Nat
  BY <1>2, AfterIs
<1>4. place[n] \in Nat /\ n \in 1..MaxRow
  BY <1>1, <1>2, PlacedIs, CollectionsAssumption
<1>5. PageAfter(p) = Below(p)
  BY <1>1, <1>2, <1>3, LastPageIsAll
<1>6. Listed[n] = IF n \in Below(p) /\ got[n] < 2 THEN got[n] + 1 ELSE got[n]
  BY <1>4, <1>5, CollectedIs DEF Listed
<1>7. n \in Below(p) <=> place[n] > p
  BY <1>2 DEF Below
<1>8. got[n] \in 0..2
  BY <1>4 DEF Bounded
<1> HIDE DEF p
<1>9. Listed[n] >= 1 /\ (Exact => Listed[n] = 1)
  BY <1>2, <1>3, <1>4, <1>6, <1>7, <1>8
<1> QED
  BY <1>9 DEF Exact

\* A listing with --all that ends has each row that kept its place while it
\* ran, and has it once unless the server takes the first of three cursors or
\* more, for any number of rows, any size of page and any writers
\* (fetchPageItems).
THEOREM ListingsAreComplete == Spec => ListingComplete
<1> DEFINE LInv == Bounded /\ Collecting
<1>1. Init => LInv
  BY CollectionsAssumption DEF Init, Bounded, Collecting, NothingGot
<1>2. Inv /\ LInv /\ [Next]_vars => LInv'
  BY BoundedNext, CollectingNext
<1>3. Inv /\ LInv /\ [Next]_vars =>
         [LastPage => \A n \in steady :
             /\ Listed[n] >= 1
             /\ taken = "last" \/ Len(query) < 2 => Listed[n] = 1]_vars
  BY LastPageLists
<1> QED
  BY <1>1, <1>2, <1>3, Invariant, PTL DEF Spec, ListingComplete
=============================================================================
