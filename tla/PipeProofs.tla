------------------------------ MODULE PipeProofs ------------------------------
(***************************************************************************)
(* The pipe is a FIFO queue of whole messages, and its byte counter covers *)
(* what is in it, for any capacity, header, messages, writers and readers. *)
(*                                                                         *)
(* The messages between two positions of the ring are a recursive function *)
(* of the position.  The first part shows that this function is well       *)
(* defined and what a frame more, a frame less and a write elsewhere do to *)
(* it; the second that every step keeps the invariant and is a step of the *)
(* queue or none.                                                          *)
(***************************************************************************)
EXTENDS Pipe, SequenceTheorems, WellFoundedInduction, TLAPS

\* Induction on the naturals, for a set.
LEMMA NaturalsByStep ==
  ASSUME NEW T \in SUBSET Nat, 0 \in T, \A n \in T : n + 1 \in T
  PROVE  T = Nat
<1> DEFINE R == OpToRel(<, Nat)
           D == Nat \ T
<1>1. IsWellFoundedOn(R, Nat)
  BY NatLessThanWellFounded
<1>2. SUFFICES ASSUME D # {} PROVE FALSE
  OBVIOUS
<1>3. PICK x \in D : \A y \in D : ~(<<y, x>> \in R)
  <2>1. D \subseteq Nat
    OBVIOUS
  <2> HIDE DEF R, D
  <2> QED BY <1>1, <1>2, <2>1, WFMin
<1>4. x # 0 /\ x - 1 \in Nat
  OBVIOUS
<1>5. <<x - 1, x>> \in R
  BY <1>4 DEF OpToRel
<1>6. x - 1 \in T
  BY <1>3, <1>4, <1>5
<1> QED BY <1>6, <1>4

\* % is determined by quotient and remainder.
LEMMA RemainderOf ==
  ASSUME NEW R \in Nat \ {0}, NEW p \in Int, NEW a \in Int, NEW b \in 0 .. R - 1, p = R * a + b
  PROVE  p % R = b
  OBVIOUS

\* n is b past the start of round a.
InRound(R, n, a, b) == a \in Nat /\ b \in 0 .. R - 1 /\ n = R * a + b

\* Every position is in some round of the ring.
LEMMA Rounds ==
  ASSUME NEW R \in Nat \ {0}, NEW p \in Nat
  PROVE  \E a : InRound(R, p, a, (p % R))
<1> DEFINE T == {n \in Nat : \E a, b : InRound(R, n, a, b)}
<1>1. 0 \in T
  <2>1. InRound(R, 0, 0, 0)
    BY DEF InRound
  <2> QED BY <2>1
<1>2. ASSUME NEW n \in T PROVE n + 1 \in T
  <2>1. PICK a, b : InRound(R, n, a, b)
    BY <1>2
  <2>2. CASE b + 1 < R
    <3>1. InRound(R, n + 1, a, b + 1)
      BY <2>1, <2>2 DEF InRound
    <3> QED BY <3>1
  <2>3. CASE b + 1 = R
    <3>1. InRound(R, n + 1, a + 1, 0)
      BY <2>1, <2>3 DEF InRound
    <3> QED BY <3>1
  <2> QED BY <2>1, <2>2, <2>3 DEF InRound
<1>3. T = Nat
  <2>1. T \in SUBSET Nat
    OBVIOUS
  <2> HIDE DEF T
  <2> QED BY <1>1, <1>2, <2>1, NaturalsByStep
<1>4. PICK a, b : InRound(R, p, a, b)
  BY <1>3
<1>5. (p % R) = b
  BY <1>4, RemainderOf DEF InRound
<1> QED BY <1>4, <1>5


LEMMA RingPositive == RingCap \in Nat \ {0}
  BY PipeAssumption DEF RingCap

\* Positions of the ring's history and cells of the ring.
LEMMA IdxRange == ASSUME NEW p \in Nat PROVE Idx(p) \in 0 .. RingCap - 1
  BY RingPositive DEF Idx

\* Within a round, positions and cells move together.
LEMMA IdxShift ==
  ASSUME NEW p \in Nat, NEW k \in Nat, Idx(p) + k < RingCap
  PROVE  Idx(p + k) = Idx(p) + k
<1> DEFINE b == Idx(p) + k
<1>1. PICK a : InRound(RingCap, p, a, Idx(p))
  BY Rounds, RingPositive DEF Idx
<1>2. b \in 0 .. RingCap - 1 /\ p + k = RingCap * a + b /\ a \in Int /\ p + k \in Int
  BY <1>1, RingPositive DEF InRound
<1> HIDE DEF b
<1>3. ((p + k) % RingCap) = b
  BY <1>2, RemainderOf, RingPositive
<1> QED BY <1>3 DEF b, Idx

\* The skipped end of the ring leads to its start.
LEMMA IdxWrap ==
  ASSUME NEW p \in Nat
  PROVE  Idx(p + RingCap - Idx(p)) = 0
<1> DEFINE q == p + RingCap - Idx(p)
<1>1. PICK a : InRound(RingCap, p, a, Idx(p))
  BY Rounds, RingPositive DEF Idx
<1>2. q = RingCap * (a + 1) + 0 /\ a + 1 \in Int /\ q \in Int /\ 0 \in 0 .. RingCap - 1
  BY <1>1, RingPositive DEF InRound
<1> HIDE DEF q
<1>3. (q % RingCap) = 0
  BY <1>2, RemainderOf, RingPositive
<1> QED BY <1>3 DEF q, Idx

\* Less than a ring apart, two positions have different cells.
LEMMA IdxApart ==
  ASSUME NEW p \in Nat, NEW q \in Nat, p < q, q - p < RingCap
  PROVE  Idx(p) # Idx(q)
<1> SUFFICES ASSUME Idx(p) = Idx(q) PROVE FALSE
  OBVIOUS
<1>1. PICK a : InRound(RingCap, p, a, Idx(p))
  BY Rounds, RingPositive DEF Idx
<1>2. PICK b : InRound(RingCap, q, b, Idx(q))
  BY Rounds, RingPositive DEF Idx
<1>3. a \in Nat /\ b \in Nat /\ q - p = RingCap * (b - a)
  BY <1>1, <1>2, RingPositive DEF InRound
<1>4. CASE b - a <= 0
  <2>1. RingCap * (b - a) <= 0
    BY <1>3, <1>4, RingPositive
  <2> QED BY <1>3, <2>1
<1>5. CASE b - a >= 1
  <2>1. RingCap * (b - a) >= RingCap
    BY <1>3, <1>5, RingPositive
  <2> QED BY <1>3, <2>1, RingPositive
<1> QED BY <1>3, <1>4, <1>5

----------------------------------------------------------------------------
(* Messages and sequences *)

\* The zero cell is no message, and every frame has a header.
LEMMA MessageFacts ==
  /\ \A m \in {None} \cup Messages : m[2] \in Nat /\ FrameLen(m) \in Nat /\ FrameLen(m) >= HeaderSize
  /\ None \notin Messages /\ HeaderSize \in Nat /\ HeaderSize >= 1
<1>1. HeaderSize \in Nat /\ HeaderSize >= 1 /\ Lens \subseteq Nat /\ MaxMsgs \in Nat
  BY PipeAssumption
<1>2. None[2] = 0 /\ \A m \in Messages : m[2] \in Lens
  BY DEF None, Messages
<1>3. ASSUME NEW m \in {None} \cup Messages PROVE m[2] \in Nat
  <2>1. CASE m = None
    BY <1>2, <2>1
  <2>2. CASE m \in Messages
    BY <1>1, <1>2, <2>2
  <2> QED BY <2>1, <2>2
<1>4. \A m \in {None} \cup Messages : FrameLen(m) \in Nat /\ FrameLen(m) >= HeaderSize
  BY <1>1, <1>3 DEF FrameLen
<1>5. \A m \in Messages : m[1] >= 1
  BY <1>1 DEF Messages
<1>6. None[1] = 0
  BY DEF None
<1> QED BY <1>1, <1>3, <1>4, <1>5, <1>6

\* A sequence with one element in front.
LEMMA ConsParts ==
  ASSUME NEW S, NEW m, NEW q \in Seq(S \cup {m})
  PROVE  /\ <<m>> \o q \in Seq(S \cup {m})
         /\ Len(<<m>> \o q) = Len(q) + 1 /\ (<<m>> \o q)[1] = m
         /\ \A i \in 1 .. Len(q) : (<<m>> \o q)[i + 1] = q[i]
         /\ <<m>> \o q # <<>> /\ Head(<<m>> \o q) = m /\ Tail(<<m>> \o q) = q
<1>1. <<m>> \in Seq(S \cup {m}) /\ Len(<<m>>) = 1 /\ <<m>>[1] = m
  OBVIOUS
<1>2. /\ <<m>> \o q \in Seq(S \cup {m}) /\ Len(<<m>> \o q) = 1 + Len(q) /\ Len(q) \in Nat
      /\ \A i \in 1 .. 1 + Len(q) : (<<m>> \o q)[i] = IF i <= 1 THEN <<m>>[i] ELSE q[i - 1]
  BY <1>1, ConcatProperties, LenProperties
<1> DEFINE c == <<m>> \o q
<1> HIDE DEF c
<1>3. /\ c \in Seq(S \cup {m}) /\ Len(c) = Len(q) + 1 /\ Len(q) \in Nat
      /\ c[1] = m /\ \A i \in 1 .. Len(q) : c[i + 1] = q[i]
  <2>1. c[1] = m
    BY <1>1, <1>2 DEF c
  <2>2. ASSUME NEW i \in 1 .. Len(q) PROVE c[i + 1] = q[i]
    <3>1. i + 1 \in 1 .. 1 + Len(q) /\ ~(i + 1 <= 1) /\ (i + 1) - 1 = i
      BY <1>2
    <3> QED BY <1>2, <3>1 DEF c
  <2> QED BY <1>2, <2>1, <2>2 DEF c
<1>4. c # <<>> /\ Head(c) = m
  BY <1>3
<1>5. /\ Tail(c) \in Seq(S \cup {m}) /\ Len(Tail(c)) = Len(q)
      /\ \A i \in 1 .. Len(q) : Tail(c)[i] = q[i]
  BY <1>3, <1>4, HeadTailProperties
<1>6. Tail(c) = q
  BY <1>5, SeqEqual
<1> QED BY <1>3, <1>4, <1>6 DEF c

\* A sequence of messages that begins with m.
LEMMA ConsOfMessages ==
  ASSUME NEW S, NEW T, S \subseteq T, NEW m \in T, NEW q \in Seq(T), <<m>> \o q \in Seq(S)
  PROVE  m \in S /\ q \in Seq(S)
<1>1. T \cup {m} = T
  OBVIOUS
<1>2. <<m>> \o q # <<>> /\ Head(<<m>> \o q) = m /\ Tail(<<m>> \o q) = q
  BY <1>1, ConsParts
<1> QED BY <1>2, HeadTailProperties

----------------------------------------------------------------------------
(* What lies in the ring *)

Rings == [0 .. RingCap - 1 -> ({None} \cup Messages) \X Nat]

\* The body of Parse.
ParseStep(f, g, t, p) ==
  IF p = t THEN <<>>
  ELSE IF g[Idx(p)] = Zero
  THEN IF p + RingCap - Idx(p) <= t THEN f[p + RingCap - Idx(p)] ELSE <<None>>
  ELSE IF Whole(g, t, p) THEN <<g[Idx(p)][1]>> \o f[p + FrameLen(g[Idx(p)][1])]
  ELSE <<None>>

IsParse(f, g, s, t) == f = [p \in s .. t |-> ParseStep(f, g, t, p)]

\* What a cell of the ring may hold.
LEMMA CellFacts ==
  ASSUME NEW g \in Rings, NEW p \in Nat
  PROVE  /\ Idx(p) \in 0 .. RingCap - 1 /\ g[Idx(p)] \in ({None} \cup Messages) \X Nat
         /\ RingCap - Idx(p) \in Nat /\ RingCap - Idx(p) >= 1
         /\ g[Idx(p)][1] \in {None} \cup Messages
         /\ FrameLen(g[Idx(p)][1]) \in Nat /\ FrameLen(g[Idx(p)][1]) >= 1
<1>1. Idx(p) \in 0 .. RingCap - 1 /\ RingCap \in Nat
  BY IdxRange, RingPositive
<1>2. g[Idx(p)] \in ({None} \cup Messages) \X Nat
  BY <1>1 DEF Rings
<1>3. g[Idx(p)][1] \in {None} \cup Messages
  BY <1>2
<1>4. /\ FrameLen(g[Idx(p)][1]) \in Nat /\ FrameLen(g[Idx(p)][1]) >= HeaderSize
      /\ HeaderSize \in Nat /\ HeaderSize >= 1
  BY <1>3, MessageFacts
<1> QED BY <1>1, <1>2, <1>3, <1>4

\* A frame or a skip ends after it starts.
LEMMA FurtherOn ==
  ASSUME NEW g \in Rings, NEW p \in Nat
  PROVE  /\ p + RingCap - Idx(p) \in Int /\ p + RingCap - Idx(p) >= p + 1
         /\ p + FrameLen(g[Idx(p)][1]) \in Int /\ p + FrameLen(g[Idx(p)][1]) >= p + 1
         /\ g[Idx(p)][1] \in {None} \cup Messages
  BY CellFacts

\* A step looks further on only.
LEMMA ParseStepLocal ==
  ASSUME NEW g \in Rings, NEW t \in Nat, NEW p \in 0 .. t, NEW f1, NEW f2,
         \A q \in p + 1 .. t : f1[q] = f2[q]
  PROVE  ParseStep(f1, g, t, p) = ParseStep(f2, g, t, p)
<1> DEFINE a == p + RingCap - Idx(p)
           b == p + FrameLen(g[Idx(p)][1])
<1>1. /\ a \in Int /\ a >= p + 1 /\ b \in Int /\ b >= p + 1
  BY CellFacts
<1>2. a <= t => f1[a] = f2[a]
  BY <1>1
<1>3. Whole(g, t, p) => b <= t
  BY DEF Whole
<1>4. Whole(g, t, p) => f1[b] = f2[b]
  BY <1>1, <1>3
<1> QED BY <1>2, <1>4 DEF ParseStep

\* The recursion of Parse is on the distance to the end, so Parse exists.
LEMMA ParseExists ==
  ASSUME NEW g \in Rings, NEW t \in Nat
  PROVE  \E f : IsParse(f, g, 0, t)
<1> DEFINE T == {d \in Nat : d <= t => \E f : IsParse(f, g, t - d, t)}
<1>1. 0 \in T
  <2> DEFINE f == [p \in t - 0 .. t |-> <<>>]
  <2>1. ASSUME NEW p \in t - 0 .. t PROVE ParseStep(f, g, t, p) = <<>>
    BY DEF ParseStep
  <2>2. f = [p \in t - 0 .. t |-> ParseStep(f, g, t, p)]
    BY <2>1
  <2>3. IsParse(f, g, t - 0, t)
    BY <2>2 DEF IsParse
  <2> HIDE DEF f
  <2> QED BY <2>3
<1>2. ASSUME NEW d \in T PROVE d + 1 \in T
  <2> SUFFICES ASSUME d + 1 <= t PROVE \E f : IsParse(f, g, t - (d + 1), t)
    OBVIOUS
  <2>1. PICK f : IsParse(f, g, t - d, t)
    BY <1>2
  <2> DEFINE s == t - (d + 1)
             h == [p \in s .. t |-> IF p = s THEN ParseStep(f, g, t, p) ELSE f[p]]
  <2>2. s \in Nat /\ s < t /\ t - d = s + 1
    OBVIOUS
  <2> HIDE DEF s
  <2>3. ASSUME NEW p \in s .. t PROVE h[p] = ParseStep(h, g, t, p)
    <3>1. p \in 0 .. t /\ \A q \in p + 1 .. t : h[q] = f[q]
      BY <2>2
    <3> HIDE DEF h
    <3>2. ParseStep(h, g, t, p) = ParseStep(f, g, t, p)
      BY <3>1, ParseStepLocal
    <3>3. CASE p = s
      BY <3>2, <3>3 DEF h
    <3>4. CASE p # s
      <4>1. p \in t - d .. t
        BY <2>2, <3>4
      <4>2. f[p] = ParseStep(f, g, t, p)
        BY <2>1, <4>1 DEF IsParse
      <4> QED BY <3>2, <3>4, <4>2 DEF h
    <3> QED BY <3>3, <3>4
  <2>4. h = [p \in s .. t |-> ParseStep(h, g, t, p)]
    BY <2>3
  <2>5. IsParse(h, g, s, t)
    BY <2>4 DEF IsParse
  <2> HIDE DEF h
  <2> QED BY <2>5 DEF s
<1>3. T = Nat
  <2>1. T \in SUBSET Nat
    OBVIOUS
  <2> HIDE DEF T
  <2> QED BY <1>1, <1>2, <2>1, NaturalsByStep
<1>4. \E f : IsParse(f, g, t - t, t)
  BY <1>3
<1>5. t - t = 0
  OBVIOUS
<1> QED BY <1>4, <1>5

\* Parse satisfies its equation.
LEMMA ParseSteps ==
  ASSUME NEW g \in Rings, NEW t \in Nat, NEW p \in 0 .. t
  PROVE  Parse(g, t)[p] = ParseStep(Parse(g, t), g, t, p)
<1>1. Parse(g, t) = CHOOSE f : IsParse(f, g, 0, t)
  BY DEF Parse, IsParse, ParseStep
<1>2. IsParse(Parse(g, t), g, 0, t)
  BY <1>1, ParseExists
<1> QED BY <1>2 DEF IsParse

\* Induction on positions, from the end.
LEMMA FromTheEnd ==
  ASSUME NEW t \in Nat, NEW s \in 0 .. t, NEW T,
         \A p \in s .. t : (\A q \in p + 1 .. t : q \in T) => p \in T
  PROVE  \A p \in s .. t : p \in T
<1> DEFINE D == {d \in Nat : \A q \in s .. t : t - q <= d => q \in T}
<1>1. 0 \in D
  <2>1. \A q \in s .. t : t - q <= 0 => q = t
    OBVIOUS
  <2>2. t \in T
    <3>1. t \in s .. t /\ \A q \in t + 1 .. t : q \in T
      OBVIOUS
    <3> QED BY <3>1
  <2> QED BY <2>1, <2>2
<1>2. ASSUME NEW d \in D PROVE d + 1 \in D
  <2> SUFFICES ASSUME NEW q \in s .. t, t - q <= d + 1 PROVE q \in T
    OBVIOUS
  <2>1. \A x \in q + 1 .. t : x \in s .. t /\ t - x <= d
    OBVIOUS
  <2>2. \A x \in q + 1 .. t : x \in T
    BY <1>2, <2>1
  <2> QED BY <2>2
<1>3. D = Nat
  <2>1. D \in SUBSET Nat
    OBVIOUS
  <2> HIDE DEF D
  <2> QED BY <1>1, <1>2, <2>1, NaturalsByStep
<1> SUFFICES ASSUME NEW p \in s .. t PROVE p \in T
  OBVIOUS
<1>4. t - p \in Nat /\ t - p <= t - p
  OBVIOUS
<1>5. t - p \in D
  <2> HIDE DEF D
  <2> QED BY <1>3, <1>4
<1> QED BY <1>4, <1>5

\* What is parsed is messages and marks of damage.
LEMMA ParseType ==
  ASSUME NEW g \in Rings, NEW t \in Nat, NEW p \in 0 .. t
  PROVE  Parse(g, t)[p] \in Seq({None} \cup Messages)
<1> DEFINE M == {None} \cup Messages
           f == Parse(g, t)
           T == {q \in 0 .. t : f[q] \in Seq(M)}
<1>1. ASSUME NEW q \in 0 .. t, \A x \in q + 1 .. t : x \in T PROVE q \in T
  <2> DEFINE a == q + RingCap - Idx(q)
             b == q + FrameLen(g[Idx(q)][1])
             m == g[Idx(q)][1]
  <2>1. a \in Int /\ a >= q + 1 /\ b \in Int /\ b >= q + 1 /\ m \in M
    BY CellFacts
  <2>2. Whole(g, t, q) => b <= t
    BY DEF Whole
  <2>3. a <= t => f[a] \in Seq(M)
    BY <1>1, <2>1
  <2>4. Whole(g, t, q) => f[b] \in Seq(M)
    BY <1>1, <2>1, <2>2
  <2>5. <<>> \in Seq(M) /\ <<None>> \in Seq(M)
    OBVIOUS
  <2>6. f[b] \in Seq(M) => <<m>> \o f[b] \in Seq(M)
    <3>1. M \cup {m} = M
      BY <2>1
    <3> HIDE DEF M, m, b, f
    <3> QED BY <3>1, ConsParts
  <2>7. f[q] = ParseStep(f, g, t, q)
    BY ParseSteps
  <2>8. f[q] \in {<<>>, <<None>>} \/ (a <= t /\ f[q] = f[a]) \/ (Whole(g, t, q) /\ f[q] = <<m>> \o f[b])
    BY <2>7 DEF ParseStep
  <2>9. f[q] \in Seq(M)
    <3> HIDE DEF M, m, a, b, f
    <3> QED BY <2>3, <2>4, <2>5, <2>6, <2>8
  <2> QED BY <2>9
<1>2. \A q \in 0 .. t : q \in T
  <2>1. 0 \in 0 .. t
    OBVIOUS
  <2> HIDE DEF T
  <2> QED BY <1>1, <2>1, FromTheEnd
<1> QED BY <1>2

\* Between a position and the end of the messages from there on is a skipped
\* end of the ring or a whole frame.
LEMMA GoodStep ==
  ASSUME NEW g \in Rings, NEW t \in Nat, NEW p \in 0 .. t, p # t,
         Parse(g, t)[p] \in Seq(Messages)
  PROVE  \/ /\ g[Idx(p)] = Zero
            /\ p + RingCap - Idx(p) \in p + 1 .. t
            /\ Parse(g, t)[p] = Parse(g, t)[p + RingCap - Idx(p)]
         \/ /\ g[Idx(p)] # Zero /\ Whole(g, t, p)
            /\ g[Idx(p)][1] \in Messages
            /\ p + FrameLen(g[Idx(p)][1]) \in p + 1 .. t
            /\ Parse(g, t)[p + FrameLen(g[Idx(p)][1])] \in Seq(Messages)
            /\ Parse(g, t)[p] = <<g[Idx(p)][1]>> \o Parse(g, t)[p + FrameLen(g[Idx(p)][1])]
<1> DEFINE M == {None} \cup Messages
           f == Parse(g, t)
           a == p + RingCap - Idx(p)
           m == g[Idx(p)][1]
           b == p + FrameLen(m)
<1>1. a \in Int /\ a >= p + 1 /\ b \in Int /\ b >= p + 1 /\ m \in M
  <2>1. p \in Nat
    OBVIOUS
  <2> QED BY <2>1, FurtherOn, Zenon
<1>2. Whole(g, t, p) => b <= t
  BY DEF Whole
<1>3. f[p] = ParseStep(f, g, t, p)
  BY ParseSteps
<1>4. \/ f[p] = <<None>>
      \/ g[Idx(p)] = Zero /\ a <= t /\ f[p] = f[a]
      \/ g[Idx(p)] # Zero /\ Whole(g, t, p) /\ f[p] = <<m>> \o f[b]
  BY <1>3 DEF ParseStep
<1>5. f[p] # <<None>>
  <2>1. Len(<<None>>) = 1 /\ <<None>>[1] = None
    OBVIOUS
  <2>2. \A s \in Seq(Messages) : Len(s) = 1 => s[1] \in Messages
    OBVIOUS
  <2> QED BY <2>1, <2>2, MessageFacts
<1>6. CASE g[Idx(p)] = Zero /\ a <= t /\ f[p] = f[a]
  BY <1>1, <1>6
<1>7. CASE g[Idx(p)] # Zero /\ Whole(g, t, p) /\ f[p] = <<m>> \o f[b]
  <2>1. b \in p + 1 .. t /\ b \in 0 .. t
    BY <1>1, <1>2, <1>7
  <2>2. f[b] \in Seq(M)
    BY <2>1, ParseType
  <2>3. m \in Messages /\ f[b] \in Seq(Messages)
    <3>1. Messages \subseteq M /\ <<m>> \o f[b] \in Seq(Messages)
      BY <1>7
    <3> HIDE DEF M, m, b, f
    <3> QED BY <1>1, <2>2, <3>1, ConsOfMessages
  <2> QED BY <1>7, <2>1, <2>3
<1> QED BY <1>4, <1>5, <1>6, <1>7

\* The cells of a whole frame are those of the positions it covers.
LEMMA WholeCells ==
  ASSUME NEW g \in Rings, NEW g2 \in Rings, NEW t \in Nat, NEW p \in 0 .. t,
         Whole(g, t, p), \A q \in p .. t - 1 : g2[Idx(q)] = g[Idx(q)]
  PROVE  g2[Idx(p)] = g[Idx(p)] /\ Whole(g2, t, p)
<1> DEFINE m == g[Idx(p)][1]
           n == FrameLen(m)
<1>1. n \in Nat /\ n >= 1 /\ Idx(p) \in Nat /\ RingCap \in Nat
  BY CellFacts, RingPositive
<1>2. Idx(p) + n <= RingCap /\ p + n <= t /\ \A k \in 0 .. n - 1 : g[Idx(p) + k] = <<m, k>>
  BY DEF Whole
<1> HIDE DEF n
<1>3. ASSUME NEW k \in 0 .. n - 1 PROVE g2[Idx(p) + k] = g[Idx(p) + k]
  <2>1. k \in Nat /\ Idx(p) + k < RingCap /\ p + k \in p .. t - 1
    BY <1>1, <1>2
  <2>2. Idx(p + k) = Idx(p) + k
    BY <2>1, IdxShift
  <2> QED BY <2>1, <2>2
<1>4. g2[Idx(p)] = g[Idx(p)]
  <2>1. p \in p .. t - 1
    BY <1>1, <1>2
  <2> QED BY <2>1
<1>5. g2[Idx(p)][1] = m /\ FrameLen(g2[Idx(p)][1]) = n
  BY <1>4 DEF n
<1> QED BY <1>2, <1>3, <1>4, <1>5 DEF Whole

\* What is written outside does not change what lies between two positions.
LEMMA ParseKeeps ==
  ASSUME NEW g \in Rings, NEW g2 \in Rings, NEW t \in Nat, NEW h \in 0 .. t,
         \A q \in h .. t - 1 : g2[Idx(q)] = g[Idx(q)],
         Parse(g, t)[h] \in Seq(Messages)
  PROVE  Parse(g2, t)[h] = Parse(g, t)[h]
<1> DEFINE f == Parse(g, t)
           f2 == Parse(g2, t)
           T == {p \in h .. t : f[p] \in Seq(Messages) => f2[p] = f[p]}
<1>1. ASSUME NEW p \in h .. t, \A q \in p + 1 .. t : q \in T PROVE p \in T
  <2> SUFFICES ASSUME f[p] \in Seq(Messages) PROVE f2[p] = f[p]
    OBVIOUS
  <2>1. p \in 0 .. t /\ \A q \in p .. t - 1 : g2[Idx(q)] = g[Idx(q)]
    OBVIOUS
  <2>2. f2[p] = ParseStep(f2, g2, t, p) /\ f[p] = ParseStep(f, g, t, p)
    BY <2>1, ParseSteps
  <2>3. CASE p = t
    BY <2>2, <2>3 DEF ParseStep
  <2>4. CASE p # t /\ g[Idx(p)] = Zero
    <3> DEFINE a == p + RingCap - Idx(p)
    <3>1. a \in p + 1 .. t /\ f[p] = f[a]
      BY <2>1, <2>4, GoodStep
    <3>2. p \in p .. t - 1
      BY <2>4
    <3>3. g2[Idx(p)] = Zero
      BY <2>1, <2>4, <3>2
    <3>4. f2[p] = f2[a]
      BY <2>2, <2>4, <3>1, <3>3 DEF ParseStep
    <3>5. f2[a] = f[a]
      BY <1>1, <3>1
    <3> QED BY <3>1, <3>4, <3>5
  <2>5. CASE p # t /\ g[Idx(p)] # Zero
    <3> DEFINE m == g[Idx(p)][1]
               b == p + FrameLen(m)
    <3>1. /\ Whole(g, t, p) /\ b \in p + 1 .. t
          /\ f[b] \in Seq(Messages) /\ f[p] = <<m>> \o f[b]
      BY <2>1, <2>5, GoodStep
    <3>2. g2[Idx(p)] = g[Idx(p)] /\ Whole(g2, t, p)
      BY <2>1, <3>1, WholeCells
    <3>3. f2[p] = <<m>> \o f2[b]
      BY <2>2, <2>5, <3>2 DEF ParseStep
    <3>4. f2[b] = f[b]
      BY <1>1, <3>1
    <3> QED BY <3>1, <3>3, <3>4
  <2> QED BY <2>3, <2>4, <2>5
<1>2. \A p \in h .. t : p \in T
  <2> HIDE DEF T
  <2> QED BY <1>1, FromTheEnd
<1>3. h \in T
  BY <1>2
<1> QED BY <1>3

LEMMA ConsAssociative ==
  \A m \in Messages : \A y, z \in Seq(Messages) : (<<m>> \o y) \o z = <<m>> \o (y \o z)
<1> SUFFICES ASSUME NEW S, NEW m \in S, NEW y \in Seq(S), NEW z \in Seq(S)
             PROVE  (<<m>> \o y) \o z = <<m>> \o (y \o z)
  OBVIOUS
<1> QED OBVIOUS

\* The messages up to t and those from t to u, one after the other.
LEMMA ParseJoins ==
  ASSUME NEW g \in Rings, NEW u \in Nat, NEW t \in 0 .. u, NEW h \in 0 .. t,
         Parse(g, t)[h] \in Seq(Messages), Parse(g, u)[t] \in Seq(Messages)
  PROVE  Parse(g, u)[h] = Parse(g, t)[h] \o Parse(g, u)[t]
<1> DEFINE f == Parse(g, t)
           f2 == Parse(g, u)
           T == {p \in h .. t : f[p] \in Seq(Messages) => f2[p] = f[p] \o f2[t]}
<1>1. ASSUME NEW p \in h .. t, \A q \in p + 1 .. t : q \in T PROVE p \in T
  <2> SUFFICES ASSUME f[p] \in Seq(Messages) PROVE f2[p] = f[p] \o f2[t]
    OBVIOUS
  <2>1. p \in 0 .. t /\ p \in 0 .. u /\ t \in Nat
    OBVIOUS
  <2>2. f2[p] = ParseStep(f2, g, u, p) /\ f[p] = ParseStep(f, g, t, p)
    BY <2>1, ParseSteps
  <2>3. CASE p = t
    <3>1. f[p] = <<>>
      BY <2>2, <2>3 DEF ParseStep
    <3> HIDE DEF f, f2
    <3> QED BY <2>3, <3>1, ConcatEmptySeq DEF f2
  <2>4. CASE p # t /\ g[Idx(p)] = Zero
    <3> DEFINE a == p + RingCap - Idx(p)
    <3>1. a \in p + 1 .. t /\ f[p] = f[a]
      BY <2>1, <2>4, GoodStep
    <3>2. p # u /\ a <= u
      BY <2>4, <3>1
    <3>3. f2[p] = f2[a]
      BY <2>2, <2>4, <3>2 DEF ParseStep
    <3>4. f2[a] = f[a] \o f2[t]
      BY <1>1, <3>1
    <3> QED BY <3>1, <3>3, <3>4
  <2>5. CASE p # t /\ g[Idx(p)] # Zero
    <3> DEFINE m == g[Idx(p)][1]
               b == p + FrameLen(m)
    <3>1. /\ Whole(g, t, p) /\ b \in p + 1 .. t /\ m \in Messages
          /\ f[b] \in Seq(Messages) /\ f[p] = <<m>> \o f[b]
      BY <2>1, <2>5, GoodStep
    <3>2. p # u /\ Whole(g, u, p)
      <4>1. p # u /\ b \in Int /\ b <= u
        BY <2>5, <3>1
      <4> QED BY <3>1, <4>1 DEF Whole
    <3>3. f2[p] = <<m>> \o f2[b]
      BY <2>2, <2>5, <3>2 DEF ParseStep
    <3>4. f2[b] = f[b] \o f2[t]
      BY <1>1, <3>1
    <3>5. (<<m>> \o f[b]) \o f2[t] = <<m>> \o (f[b] \o f2[t])
      <4>1. f2[t] \in Seq(Messages) /\ f[b] \in Seq(Messages) /\ m \in Messages
        BY <3>1
      <4> HIDE DEF f, f2, m, b
      <4> QED BY <4>1, ConsAssociative
    <3> QED BY <3>1, <3>3, <3>4, <3>5
  <2> QED BY <2>3, <2>4, <2>5
<1>2. \A p \in h .. t : p \in T
  <2>1. t \in Nat
    OBVIOUS
  <2> HIDE DEF T
  <2> QED BY <1>1, <2>1, FromTheEnd
<1>3. h \in T
  <2>1. h \in h .. t
    OBVIOUS
  <2> HIDE DEF T
  <2> QED BY <1>2, <2>1
<1> QED BY <1>3

----------------------------------------------------------------------------
(* The bytes of a queue *)

IsSums(f, q, n) == f = [i \in 0 .. n |-> IF i = 0 THEN 0 ELSE f[i - 1] + q[i][2]]

\* The recursion of Sums is well defined, and Sums satisfies its equation.
LEMMA SumsExist ==
  ASSUME NEW q
  PROVE  \A n \in Nat : \E f : IsSums(f, q, n)
<1> DEFINE T == {n \in Nat : \E f : IsSums(f, q, n)}
<1>1. 0 \in T
  <2> DEFINE f == [i \in 0 .. 0 |-> 0]
  <2>1. f = [i \in 0 .. 0 |-> IF i = 0 THEN 0 ELSE f[i - 1] + q[i][2]]
    OBVIOUS
  <2>2. IsSums(f, q, 0)
    BY <2>1 DEF IsSums
  <2> HIDE DEF f
  <2> QED BY <2>2
<1>2. ASSUME NEW n \in T PROVE n + 1 \in T
  <2>1. PICK f : IsSums(f, q, n)
    BY <1>2
  <2> DEFINE g == [i \in 0 .. n + 1 |-> IF i = n + 1 THEN f[n] + q[n + 1][2] ELSE f[i]]
             h == [i \in 0 .. n + 1 |-> IF i = 0 THEN 0 ELSE g[i - 1] + q[i][2]]
  <2>2. ASSUME NEW i \in 0 .. n + 1 PROVE g[i] = h[i]
    <3>1. CASE i = n + 1
      <4>1. i # 0 /\ i - 1 = n /\ n \in 0 .. n + 1 /\ n # n + 1
        BY <3>1
      <4>2. g[i - 1] = f[n]
        BY <4>1
      <4> QED BY <3>1, <4>1, <4>2
    <3>2. CASE i = 0
      <4>1. i \in 0 .. n /\ i # n + 1
        BY <3>2
      <4>2. f[i] = 0
        BY <2>1, <3>2, <4>1 DEF IsSums
      <4> QED BY <3>2, <4>1, <4>2
    <3>3. CASE i # 0 /\ i # n + 1
      <4>1. i \in 0 .. n /\ i - 1 \in 0 .. n + 1 /\ i - 1 # n + 1
        BY <3>3
      <4>2. f[i] = f[i - 1] + q[i][2]
        BY <2>1, <3>3, <4>1 DEF IsSums
      <4>3. g[i - 1] = f[i - 1] /\ g[i] = f[i]
        BY <3>3, <4>1
      <4> QED BY <3>3, <4>2, <4>3
    <3> QED BY <3>1, <3>2, <3>3
  <2>3. g = h
    BY <2>2
  <2>4. IsSums(g, q, n + 1)
    BY <2>3 DEF IsSums
  <2> HIDE DEF g
  <2> QED BY <2>4
<1>3. T = Nat
  <2>1. T \in SUBSET Nat
    OBVIOUS
  <2> HIDE DEF T
  <2> QED BY <1>1, <1>2, <2>1, NaturalsByStep
<1> QED BY <1>3

LEMMA SumsSteps ==
  ASSUME NEW q \in Seq(Messages)
  PROVE  /\ Len(q) \in Nat /\ Sums(q)[0] = 0
         /\ \A i \in 1 .. Len(q) : /\ Sums(q)[i] = Sums(q)[i - 1] + q[i][2]
                                   /\ q[i][2] \in Nat
         /\ \A i \in 0 .. Len(q) : Sums(q)[i] \in Nat
<1> DEFINE f == Sums(q)
           T == {n \in Nat : n <= Len(q) => f[n] \in Nat}
<1>1. Len(q) \in Nat /\ \A i \in 1 .. Len(q) : q[i] \in Messages
  OBVIOUS
<1>2. \A i \in 1 .. Len(q) : q[i][2] \in Nat
  BY <1>1, MessageFacts
<1>3. f = CHOOSE h : IsSums(h, q, Len(q))
  BY DEF Sums, IsSums
<1>4. IsSums(f, q, Len(q))
  BY <1>1, <1>3, SumsExist
<1>5. f[0] = 0 /\ \A i \in 1 .. Len(q) : f[i] = f[i - 1] + q[i][2]
  BY <1>1, <1>4 DEF IsSums
<1> HIDE DEF f
<1>6. 0 \in T
  BY <1>5
<1>7. ASSUME NEW n \in T PROVE n + 1 \in T
  <2> SUFFICES ASSUME n + 1 <= Len(q) PROVE f[n + 1] \in Nat
    OBVIOUS
  <2>1. n + 1 \in 1 .. Len(q) /\ (n + 1) - 1 = n /\ n <= Len(q)
    BY <1>1
  <2>2. f[n + 1] = f[n] + q[n + 1][2] /\ f[n] \in Nat /\ q[n + 1][2] \in Nat
    BY <1>2, <1>5, <1>7, <2>1
  <2> QED BY <2>2
<1>8. T = Nat
  <2>1. T \in SUBSET Nat
    OBVIOUS
  <2> HIDE DEF T
  <2> QED BY <1>6, <1>7, <2>1, NaturalsByStep
<1>9. \A i \in 0 .. Len(q) : f[i] \in Nat
  BY <1>1, <1>8
<1> QED BY <1>1, <1>2, <1>5, <1>9 DEF f

\* No message, no bytes.
LEMMA BytesNat ==
  Bytes(<<>>) = 0 /\ \A q \in Seq(Messages) : Bytes(q) \in Nat
<1>1. <<>> \in Seq(Messages) /\ Len(<<>>) = 0
  OBVIOUS
<1>2. \A q \in Seq(Messages) : Len(q) \in 0 .. Len(q)
  OBVIOUS
<1> QED BY <1>1, <1>2, SumsSteps DEF Bytes

\* A message more at the end.
LEMMA BytesOfPush ==
  ASSUME NEW q \in Seq(Messages), NEW m \in Messages
  PROVE  q \o <<m>> \in Seq(Messages) /\ q \o <<m>> = Append(q, m) /\ Bytes(q \o <<m>>) = Bytes(q) + m[2]
<1> DEFINE c == q \o <<m>>
           n == Len(q)
           T == {i \in Nat : i <= n => Sums(c)[i] = Sums(q)[i]}
<1>1. /\ c \in Seq(Messages) /\ Len(c) = n + 1 /\ n \in Nat /\ c[n + 1] = m
      /\ \A i \in 1 .. n : c[i] = q[i]
      /\ c = Append(q, m)
  OBVIOUS
<1> HIDE DEF c
<1>2. /\ Sums(c)[0] = 0 /\ Sums(q)[0] = 0
      /\ \A i \in 1 .. n + 1 : Sums(c)[i] = Sums(c)[i - 1] + c[i][2]
      /\ \A i \in 1 .. n : Sums(q)[i] = Sums(q)[i - 1] + q[i][2]
  BY <1>1, SumsSteps
<1> HIDE DEF n
<1>3. 0 \in T
  BY <1>2
<1>4. ASSUME NEW i \in T PROVE i + 1 \in T
  <2> SUFFICES ASSUME i + 1 <= n PROVE Sums(c)[i + 1] = Sums(q)[i + 1]
    OBVIOUS
  <2>1. i + 1 \in 1 .. n + 1 /\ i + 1 \in 1 .. n /\ (i + 1) - 1 = i /\ i <= n
    BY <1>1
  <2>2. Sums(c)[i] = Sums(q)[i]
    BY <1>4, <2>1
  <2>3. /\ Sums(c)[i + 1] = Sums(c)[i] + c[i + 1][2]
        /\ Sums(q)[i + 1] = Sums(q)[i] + q[i + 1][2]
        /\ c[i + 1] = q[i + 1]
    BY <1>1, <1>2, <2>1
  <2> QED BY <2>2, <2>3
<1>5. T = Nat
  <2>1. T \in SUBSET Nat
    OBVIOUS
  <2> HIDE DEF T
  <2> QED BY <1>3, <1>4, <2>1, NaturalsByStep
<1>6. n + 1 \in 1 .. n + 1 /\ (n + 1) - 1 = n
  BY <1>1
<1>7. Sums(c)[n + 1] = Sums(c)[n] + m[2]
  BY <1>1, <1>2, <1>6
<1>8. Sums(c)[n] = Sums(q)[n]
  BY <1>1, <1>5
<1>9. Bytes(c) = Sums(c)[n + 1] /\ Bytes(q) = Sums(q)[n]
  BY <1>1 DEF Bytes, n
<1> QED BY <1>1, <1>7, <1>8, <1>9 DEF c

\* A message more at the front.
LEMMA BytesOfPop ==
  ASSUME NEW q \in Seq(Messages), NEW m \in Messages
  PROVE  /\ <<m>> \o q \in Seq(Messages) /\ <<m>> \o q # <<>>
         /\ Head(<<m>> \o q) = m /\ Tail(<<m>> \o q) = q
         /\ Bytes(<<m>> \o q) = m[2] + Bytes(q)
<1> DEFINE c == <<m>> \o q
           n == Len(q)
           T == {i \in Nat : i <= n => Sums(c)[i + 1] = m[2] + Sums(q)[i]}
<1>1. /\ c \in Seq(Messages) /\ Len(c) = n + 1 /\ n \in Nat /\ c[1] = m
      /\ \A i \in 1 .. n : c[i + 1] = q[i]
      /\ c # <<>> /\ Head(c) = m /\ Tail(c) = q
  <2>1. Messages \cup {m} = Messages
    OBVIOUS
  <2>2. n \in Nat
    OBVIOUS
  <2> QED BY <2>1, <2>2, ConsParts
<1>2. m[2] \in Nat
  BY MessageFacts
<1> HIDE DEF c
<1>3. /\ Sums(c)[0] = 0 /\ Sums(q)[0] = 0
      /\ \A i \in 1 .. n + 1 : Sums(c)[i] = Sums(c)[i - 1] + c[i][2]
      /\ \A i \in 1 .. n : Sums(q)[i] = Sums(q)[i - 1] + q[i][2] /\ q[i][2] \in Nat
      /\ \A i \in 0 .. n : Sums(q)[i] \in Nat
  BY <1>1, SumsSteps
<1> HIDE DEF n
<1>4. 0 \in T
  <2>1. 1 \in 1 .. n + 1 /\ 1 - 1 = 0
    BY <1>1
  <2>2. Sums(c)[1] = Sums(c)[0] + c[1][2]
    BY <1>3, <2>1
  <2>3. Sums(c)[0 + 1] = m[2] + Sums(q)[0]
    BY <1>1, <1>2, <1>3, <2>2
  <2> QED BY <2>3
<1>5. ASSUME NEW i \in T PROVE i + 1 \in T
  <2> SUFFICES ASSUME i + 1 <= n PROVE Sums(c)[(i + 1) + 1] = m[2] + Sums(q)[i + 1]
    OBVIOUS
  <2>1. (i + 1) + 1 \in 1 .. n + 1 /\ i + 1 \in 1 .. n /\ (i + 1) - 1 = i
        /\ ((i + 1) + 1) - 1 = i + 1 /\ i <= n /\ i \in 0 .. n
    BY <1>1
  <2>2. Sums(c)[i + 1] = m[2] + Sums(q)[i]
    BY <1>5, <2>1
  <2>3. /\ Sums(c)[(i + 1) + 1] = Sums(c)[i + 1] + c[(i + 1) + 1][2]
        /\ Sums(q)[i + 1] = Sums(q)[i] + q[i + 1][2]
        /\ c[(i + 1) + 1] = q[i + 1] /\ q[i + 1][2] \in Nat /\ Sums(q)[i] \in Nat
    BY <1>1, <1>3, <2>1
  <2> QED BY <1>2, <2>2, <2>3
<1>6. T = Nat
  <2>1. T \in SUBSET Nat
    OBVIOUS
  <2> HIDE DEF T
  <2> QED BY <1>4, <1>5, <2>1, NaturalsByStep
<1>7. Sums(c)[n + 1] = m[2] + Sums(q)[n]
  BY <1>1, <1>6
<1>8. Bytes(c) = Sums(c)[n + 1] /\ Bytes(q) = Sums(q)[n]
  BY <1>1 DEF Bytes, n
<1> QED BY <1>1, <1>7, <1>8 DEF c

----------------------------------------------------------------------------
(* Steps outside the two mutexes *)

Threads == Writers \cup Readers \cup {Closer}

\* Whoever holds the writer or the reader mutex stands still, and so does the
\* pipe.
Quiet ==
  /\ UNCHANGED <<ring, head, tail, used, writer, reader, seen>>
  /\ written' \in 0 .. MaxMsgs
  /\ pc' \in [Threads -> Labels]
  /\ msg' \in [Writers \cup Readers -> {None} \cup Messages]
  /\ \A w \in Writers : /\ pc[w] \in Pushing \/ pc'[w] \in Pushing => pc'[w] = pc[w] /\ msg'[w] = msg[w]
                        /\ pc'[w] = "lock" => msg'[w] \in Messages
  /\ \A r \in Readers : pc[r] \in Popping \/ pc'[r] \in Popping => pc'[r] = pc[r] /\ msg'[r] = msg[r]

\* A step outside the mutexes keeps the invariant and the queue.
LEMMA QuietInv ==
  ASSUME IndInv, Quiet
  PROVE  IndInv' /\ UNCHANGED <<Frames, Delivered>>
<1> USE DEF IndInv, Quiet
<1>1. TypeOK'
  BY DEF TypeOK, Threads
<1>2. Guarded'
  <2>1. ASSUME NEW w \in Writers
        PROVE  /\ (pc[w] \in Pushing <=> writer = w)' 
               /\ (pc[w] \in Pushing \cup {"lock"} => msg[w] \in Messages)'
    BY DEF Guarded
  <2>2. ASSUME NEW r \in Readers
        PROVE  /\ (pc[r] \in Popping <=> reader = r)' 
               /\ (pc[r] = "taken" => msg[r] \in Messages)'
    BY DEF Guarded, Popping
  <2> QED BY <2>1, <2>2 DEF Guarded
<1>3. Frames' = Frames /\ QueuedBytes' = QueuedBytes /\ AtHead' = AtHead /\ Contiguous' = Contiguous
  BY DEF Frames, QueuedBytes, AtHead, Contiguous
<1>4. Framed'
  BY <1>3 DEF Framed, Popping
<1>5. Placed'
  BY <1>3 DEF Placed, Pushing
<1>6. Taken' = Taken
  <2>1. reader # Nobody => reader \in Readers /\ pc[reader] \in Popping
    BY DEF TypeOK, Guarded
  <2> QED BY <2>1 DEF Taken
<1>7. Uncounted' = Uncounted
  <2>1. writer # Nobody => writer \in Writers /\ pc[writer] \in Pushing
    BY DEF TypeOK, Guarded
  <2> QED BY <2>1 DEF Uncounted
<1>8. Counted'
  BY <1>3, <1>6, <1>7 DEF Counted
<1>9. Delivered' = Delivered
  BY DEF Delivered, Popping
<1> QED BY <1>1, <1>2, <1>3, <1>4, <1>5, <1>8, <1>9

\* The threads have different names.
LEMMA ThreadsApart ==
  /\ Closer \notin Writers /\ Closer \notin Readers
  /\ Nobody \notin Writers /\ Nobody \notin Readers
  /\ \A w \in Writers : w \notin Readers
  BY PipeAssumption

\* The checks before the lock, and a message that is prepared.
LEMMA WriteQuiet ==
  ASSUME IndInv, NEW w \in Writers, NEW n \in Lens, Write(w, n)
  PROVE  Quiet
<1> USE DEF IndInv
<1>1. pc[w] = "idle" /\ UNCHANGED <<ring, head, tail, used, writer, reader, seen>>
  BY DEF Write, pipe, mutexes
<1>2. pc' = [pc EXCEPT ![w] = pc'[w]] /\ pc'[w] \in {"wake", "idle", "lock"}
  BY DEF Write, Goto, TypeOK
<1>3. /\ written' \in 0 .. MaxMsgs /\ msg' = [msg EXCEPT ![w] = msg'[w]]
      /\ msg'[w] \in {None} \cup Messages /\ (pc'[w] = "lock" => msg'[w] \in Messages)
  <2>1. CASE n = 0
    <3>1. UNCHANGED <<msg, written>> /\ pc'[w] # "lock"
      BY <2>1 DEF Write, Goto, TypeOK
    <3> QED BY <3>1 DEF TypeOK
  <2>2. CASE n # 0
    <3>1. /\ written < MaxMsgs /\ written' = written + 1 /\ written \in 0 .. MaxMsgs /\ MaxMsgs \in Nat
          /\ msg' = [msg EXCEPT ![w] = <<written + 1, n>>]
      BY <2>2, PipeAssumption DEF Write, TypeOK
    <3>2. <<written + 1, n>> \in Messages /\ written' \in 0 .. MaxMsgs
      BY <3>1 DEF Messages
    <3> QED BY <3>1, <3>2 DEF TypeOK
  <2> QED BY <2>1, <2>2
<1>4. pc' \in [Threads -> Labels] /\ msg' \in [Writers \cup Readers -> {None} \cup Messages]
  BY <1>2, <1>3 DEF TypeOK, Threads, Labels
<1>5. \A t \in Threads \ {w} : pc'[t] = pc[t]
  BY <1>2 DEF TypeOK, Threads
<1>6. \A t \in (Writers \cup Readers) \ {w} : msg'[t] = msg[t]
  BY <1>3 DEF TypeOK
<1>7. ASSUME NEW v \in Writers
      PROVE  /\ pc[v] \in Pushing \/ pc'[v] \in Pushing => pc'[v] = pc[v] /\ msg'[v] = msg[v]
             /\ pc'[v] = "lock" => msg'[v] \in Messages
  BY <1>1, <1>2, <1>3, <1>5, <1>6 DEF Pushing, Threads, Guarded
<1>8. \A r \in Readers : pc'[r] = pc[r] /\ msg'[r] = msg[r]
  BY <1>5, <1>6, ThreadsApart DEF Threads
<1> QED BY <1>1, <1>3, <1>4, <1>7, <1>8 DEF Quiet

\* A step in which threads outside the mutexes move.
LEMMA MoveQuiet ==
  ASSUME IndInv, UNCHANGED <<ring, head, tail, used, writer, reader, seen, msg, written>>,
         pc' \in [Threads -> Labels],
         \A t \in Threads : pc'[t] = pc[t] \/ {pc[t], pc'[t]} \cap (Pushing \cup Popping \cup {"lock"}) = {}
  PROVE  Quiet
<1>1. \A w \in Writers : w \in Threads
  BY DEF Threads
<1>2. \A r \in Readers : r \in Threads
  BY DEF Threads
<1> QED BY <1>1, <1>2 DEF Quiet, IndInv, TypeOK, Guarded

\* A notification.
LEMMA WakeReadersQuiet ==
  ASSUME IndInv, NEW w \in Writers, wake_readers(w)
  PROVE  Quiet
<1>1. pc[w] = "wake" /\ UNCHANGED <<ring, head, tail, used, writer, reader, seen, msg, written>>
  BY DEF wake_readers, wake_readers_Bare, pipe, mutexes
<1>2. \/ pc' = [pc EXCEPT ![w] = "idle"]
      \/ \E r \in Readers : pc[r] = "parked" /\ pc' = [pc EXCEPT ![w] = "idle", ![r] = "woken"]
  BY DEF wake_readers, wake_readers_Bare, Goto
<1>3. pc \in [Threads -> Labels]
  BY DEF IndInv, TypeOK, Threads
<1>4. CASE pc' = [pc EXCEPT ![w] = "idle"]
  <2>1. pc' \in [Threads -> Labels] /\ \A t \in Threads : pc'[t] = pc[t] \/ (t = w /\ pc'[t] = "idle")
    BY <1>3, <1>4 DEF Labels
  <2> QED BY <1>1, <2>1, MoveQuiet DEF Pushing, Popping
<1>5. ASSUME NEW r \in Readers, pc[r] = "parked", pc' = [pc EXCEPT ![w] = "idle", ![r] = "woken"]
      PROVE  Quiet
  <2>1. /\ pc' \in [Threads -> Labels]
        /\ \A t \in Threads : pc'[t] = pc[t] \/ (t = w /\ pc'[t] = "idle") \/ (t = r /\ pc'[t] = "woken")
    BY <1>3, <1>5 DEF Labels
  <2> QED BY <1>1, <1>5, <2>1, MoveQuiet DEF Pushing, Popping
<1> QED BY <1>2, <1>4, <1>5

\* A read begins, and a parked reader tries again.
LEMMA ReaderMovesQuiet ==
  ASSUME IndInv, NEW r \in Readers,
         Read(r) \/ EnterWait(r) \/ Resume(r) \/ TimeOut(r)
  PROVE  Quiet
<1>1. /\ pc[r] \in {"idle", "slow", "woken", "parked"} /\ pc' = [pc EXCEPT ![r] = "pop"]
      /\ UNCHANGED <<ring, head, tail, used, writer, reader, seen, msg, written>>
  BY DEF Read, EnterWait, Resume, TimeOut, TryHeld, Goto, pipe, mutexes
<1>2. pc' \in [Threads -> Labels] /\ \A t \in Threads : pc'[t] = pc[t] \/ (t = r /\ pc'[t] = "pop")
  BY <1>1 DEF IndInv, TypeOK, Threads, Labels
<1> QED BY <1>1, <1>2, MoveQuiet DEF Pushing, Popping

\* close and destroy.
LEMMA CloserMovesQuiet ==
  ASSUME IndInv, Destroy \/ Close \/ wake_all
  PROVE  Quiet
<1>1. /\ pc[Closer] \in {"idle", "close", "wake"} /\ pc'[Closer] \in {"close", "wake", "done"}
      /\ pc' \in [Threads -> Labels]
      /\ \A t \in Threads \ {Closer} : pc'[t] = pc[t] \/ (pc[t] = "parked" /\ pc'[t] = "woken")
  BY DEF Destroy, Close, wake_all, Goto, IndInv, TypeOK, Threads, Labels
<1>2. UNCHANGED <<ring, head, tail, used, writer, reader, seen, msg, written>>
  BY DEF Destroy, Close, wake_all, pipe, mutexes
<1> QED BY <1>1, <1>2, MoveQuiet DEF Pushing, Popping, Threads

LEMMA StutterQuiet ==
  ASSUME IndInv, UNCHANGED vars
  PROVE  Quiet
  BY MoveQuiet DEF vars, IndInv, TypeOK, Threads

----------------------------------------------------------------------------
(* Steps of the thread that holds or takes a mutex *)

\* Writer w moves to label l, and holds its mutex there or not.
WriterMoves(w, l) ==
  /\ l \in Labels /\ pc' = [pc EXCEPT ![w] = l]
  /\ writer \in {Nobody, w} /\ writer' = IF l \in Pushing THEN w ELSE Nobody
  /\ msg' \in {msg, [msg EXCEPT ![w] = None]}
  /\ l \in Pushing \cup {"lock"} => msg' = msg /\ msg[w] \in Messages
  /\ UNCHANGED <<head, reader, seen, written>>
  /\ ring' \in Rings /\ tail' \in Nat /\ used' \in Int

\* What every step of a writer keeps.
LEMMA WriterSteps ==
  ASSUME IndInv, NEW w \in Writers, NEW l, WriterMoves(w, l)
  PROVE  /\ TypeOK' /\ Guarded'
         /\ Taken' = Taken /\ Delivered' = Delivered
         /\ \A r \in Readers : pc'[r] = pc[r] /\ msg'[r] = msg[r]
         /\ pc'[w] = l /\ \A v \in Writers \ {w} : pc[v] \notin Pushing /\ pc'[v] \notin Pushing
         /\ Uncounted' = IF l = "count" THEN msg[w][2] ELSE 0
         /\ Uncounted = IF pc[w] = "count" THEN msg[w][2] ELSE 0
<1> USE DEF IndInv, WriterMoves
<1>1. /\ pc \in [Threads -> Labels] /\ w \in Threads /\ pc' \in [Threads -> Labels]
      /\ pc'[w] = l /\ \A t \in Threads \ {w} : pc'[t] = pc[t]
  BY DEF TypeOK, Threads
<1>2. /\ msg \in [Writers \cup Readers -> {None} \cup Messages]
      /\ msg' \in [Writers \cup Readers -> {None} \cup Messages]
      /\ \A t \in (Writers \cup Readers) \ {w} : msg'[t] = msg[t]
  BY DEF TypeOK
<1>3. w # Nobody /\ w \notin Readers /\ writer' \in Writers \cup {Nobody}
  BY ThreadsApart
<1>4. TypeOK'
  BY <1>1, <1>2, <1>3 DEF TypeOK, Threads, Rings
<1>5. \A r \in Readers : pc'[r] = pc[r] /\ msg'[r] = msg[r]
  BY <1>1, <1>2, <1>3 DEF Threads
<1>6. \A v \in Writers \ {w} : v \in Threads /\ pc[v] \notin Pushing /\ pc'[v] = pc[v] /\ msg'[v] = msg[v]
  BY <1>1, <1>2, <1>3, ThreadsApart DEF Guarded, Threads
<1>7. Guarded'
  <2>1. ASSUME NEW v \in Writers
        PROVE  /\ (pc[v] \in Pushing <=> writer = v)'
               /\ (pc[v] \in Pushing \cup {"lock"} => msg[v] \in Messages)'
    <3>1. CASE v = w
      BY <1>1, <1>3, <3>1
    <3>2. CASE v # w
      <4>1. writer' # v
        BY <3>2, ThreadsApart
      <4> QED BY <1>6, <3>2, <4>1 DEF Guarded
    <3> QED BY <3>1, <3>2
  <2>2. ASSUME NEW r \in Readers
        PROVE  /\ (pc[r] \in Popping <=> reader = r)'
               /\ (pc[r] = "taken" => msg[r] \in Messages)'
    BY <1>5 DEF Guarded
  <2> QED BY <2>1, <2>2 DEF Guarded
<1>8. Taken' = Taken
  <2>1. reader = Nobody \/ reader \in Readers
    BY DEF TypeOK
  <2> QED BY <1>5, <2>1 DEF Taken
<1>9. Delivered' = Delivered
  BY <1>5 DEF Delivered
<1>10. Uncounted' = IF l = "count" THEN msg[w][2] ELSE 0
  <2>1. CASE l = "count"
    <3>1. writer' = w /\ msg' = msg
      BY <2>1 DEF Pushing
    <3> QED BY <1>1, <1>3, <2>1, <3>1 DEF Uncounted
  <2>2. CASE l # "count"
    <3>1. writer' = Nobody \/ (writer' = w /\ pc'[w] # "count")
      BY <1>1, <2>2
    <3> QED BY <2>2, <3>1 DEF Uncounted
  <2> QED BY <2>1, <2>2
<1>11. Uncounted = IF pc[w] = "count" THEN msg[w][2] ELSE 0
  <2>1. pc[w] = "count" => writer = w
    BY DEF Guarded, Pushing
  <2> QED BY <1>3, <2>1 DEF Uncounted
<1> QED BY <1>1, <1>4, <1>5, <1>6, <1>7, <1>8, <1>9, <1>10, <1>11

\* Reader r moves to label l, and holds its mutex there or not.
ReaderMoves(r, l) ==
  /\ l \in Labels /\ pc' = [pc EXCEPT ![r] = l]
  /\ reader \in {Nobody, r} /\ reader' = IF l \in Popping THEN r ELSE Nobody
  /\ msg' = [msg EXCEPT ![r] = msg'[r]] /\ msg'[r] \in {None} \cup Messages
  /\ l = "taken" => msg' = msg /\ msg[r] \in Messages
  /\ seen' = [seen EXCEPT ![r] = seen'[r]] /\ seen'[r] \in Nat
  /\ UNCHANGED <<ring, tail, writer, written>>
  /\ head' \in Nat /\ used' \in Int

\* What every step of a reader keeps.
LEMMA ReaderSteps ==
  ASSUME IndInv, NEW r \in Readers, NEW l, ReaderMoves(r, l)
  PROVE  /\ TypeOK' /\ Guarded'
         /\ Uncounted' = Uncounted
         /\ \A w \in Writers : pc'[w] = pc[w] /\ msg'[w] = msg[w]
         /\ pc'[r] = l /\ \A v \in Readers \ {r} : pc[v] \notin Popping /\ pc'[v] \notin Popping
         /\ Taken' = IF l = "taken" THEN msg[r][2] ELSE 0
         /\ Taken = IF pc[r] = "taken" THEN msg[r][2] ELSE 0
<1> USE DEF IndInv, ReaderMoves
<1>1. /\ pc \in [Threads -> Labels] /\ r \in Threads /\ pc' \in [Threads -> Labels]
      /\ pc'[r] = l /\ \A t \in Threads \ {r} : pc'[t] = pc[t]
  BY DEF TypeOK, Threads
<1>2. /\ msg \in [Writers \cup Readers -> {None} \cup Messages]
      /\ msg' \in [Writers \cup Readers -> {None} \cup Messages]
      /\ \A t \in (Writers \cup Readers) \ {r} : msg'[t] = msg[t]
  BY DEF TypeOK
<1>3. r # Nobody /\ r \notin Writers /\ reader' \in Readers \cup {Nobody}
  BY ThreadsApart
<1>4. seen' \in [Readers -> Nat]
  BY DEF TypeOK
<1>5. TypeOK'
  BY <1>1, <1>2, <1>3, <1>4 DEF TypeOK, Threads
<1>6. \A w \in Writers : pc'[w] = pc[w] /\ msg'[w] = msg[w]
  BY <1>1, <1>2, <1>3 DEF Threads
<1>7. \A v \in Readers \ {r} : v \in Threads /\ pc[v] \notin Popping /\ pc'[v] = pc[v] /\ msg'[v] = msg[v]
  BY <1>1, <1>2, <1>3, ThreadsApart DEF Guarded, Threads
<1>8. Guarded'
  <2>1. ASSUME NEW v \in Readers
        PROVE  /\ (pc[v] \in Popping <=> reader = v)'
               /\ (pc[v] = "taken" => msg[v] \in Messages)'
    <3>1. CASE v = r
      BY <1>1, <1>3, <3>1
    <3>2. CASE v # r
      <4>1. reader' # v
        BY <3>2, ThreadsApart
      <4> QED BY <1>7, <3>2, <4>1 DEF Guarded
    <3> QED BY <3>1, <3>2
  <2>2. ASSUME NEW w \in Writers
        PROVE  /\ (pc[w] \in Pushing <=> writer = w)'
               /\ (pc[w] \in Pushing \cup {"lock"} => msg[w] \in Messages)'
    BY <1>6 DEF Guarded
  <2> QED BY <2>1, <2>2 DEF Guarded
<1>9. Uncounted' = Uncounted
  <2>1. writer = Nobody \/ writer \in Writers
    BY DEF TypeOK
  <2> QED BY <1>6, <2>1 DEF Uncounted
<1>10. Taken' = IF l = "taken" THEN msg[r][2] ELSE 0
  <2>1. CASE l = "taken"
    <3>1. reader' = r /\ msg' = msg
      BY <2>1 DEF Popping
    <3> QED BY <1>1, <1>3, <2>1, <3>1 DEF Taken
  <2>2. CASE l # "taken"
    <3>1. reader' = Nobody \/ (reader' = r /\ pc'[r] # "taken")
      BY <1>1, <2>2
    <3> QED BY <2>2, <3>1 DEF Taken
  <2> QED BY <2>1, <2>2
<1>11. Taken = IF pc[r] = "taken" THEN msg[r][2] ELSE 0
  <2>1. pc[r] = "taken" => reader = r
    BY DEF Guarded, Popping
  <2> QED BY <1>3, <2>1 DEF Taken
<1> QED BY <1>1, <1>5, <1>6, <1>7, <1>8, <1>9, <1>10, <1>11

\* The types of what the invariant speaks of.
LEMMA TypesOfPipe ==
  ASSUME IndInv
  PROVE  /\ head \in Nat /\ tail \in Nat /\ used \in Int /\ head <= tail
         /\ ring \in Rings /\ RingCap \in Nat /\ RingCap >= 1
         /\ Idx(tail) \in 0 .. RingCap - 1 /\ Contiguous \in Nat /\ Contiguous >= 1
         /\ Capacity \in Nat /\ Frames \in Seq(Messages) /\ QueuedBytes \in Nat
<1>1. head \in Nat /\ tail \in Nat /\ used \in Int /\ head <= tail /\ ring \in Rings
  BY DEF IndInv, TypeOK, Framed, Rings
<1>2. RingCap \in Nat /\ RingCap >= 1 /\ Idx(tail) \in 0 .. RingCap - 1
  BY <1>1, RingPositive, IdxRange
<1>3. Frames \in Seq(Messages)
  BY DEF IndInv, Framed
<1>4. QueuedBytes \in Nat
  BY <1>3, BytesNat DEF QueuedBytes
<1>5. Capacity \in Nat
  BY PipeAssumption
<1> QED BY <1>1, <1>2, <1>3, <1>4, <1>5 DEF Contiguous

\* What a writer does leaves the readers what they have.
LEMMA FramedByWriter ==
  ASSUME IndInv, NEW w \in Writers, NEW l, WriterMoves(w, l),
         tail <= tail', Frames' \in Seq(Messages),
         \A r \in Readers : pc[r] \in {"scan", "copied"} =>
           /\ Parse(ring', seen[r])[head] = Parse(ring, seen[r])[head]
           /\ head # seen[r] => ring'[Idx(head)] = ring[Idx(head)]
  PROVE  Framed'
<1>1. /\ head' = head /\ seen' = seen /\ tail' \in Nat
      /\ \A r \in Readers : pc'[r] = pc[r] /\ msg'[r] = msg[r]
  BY WriterSteps DEF WriterMoves
<1>2. head' <= tail'
  BY <1>1, TypesOfPipe
<1>3. ASSUME NEW r \in Readers, pc'[r] \in {"scan", "copied"}
      PROVE  /\ head' <= seen'[r] /\ seen'[r] <= tail'
             /\ Parse(ring', seen'[r])[head'] \in Seq(Messages)
             /\ pc'[r] = "copied" => head' # seen'[r] /\ AtHead' # Zero /\ msg'[r] = AtHead'[1]
  <2>1. /\ head <= seen[r] /\ seen[r] <= tail /\ seen[r] \in Nat
        /\ Parse(ring, seen[r])[head] \in Seq(Messages)
        /\ pc[r] = "copied" => head # seen[r] /\ AtHead # Zero /\ msg[r] = AtHead[1]
    BY <1>1, <1>3 DEF IndInv, Framed, TypeOK
  <2>2. seen[r] <= tail'
    BY <1>1, <2>1, TypesOfPipe
  <2>3. Parse(ring', seen[r])[head] \in Seq(Messages)
    BY <1>1, <1>3, <2>1
  <2>4. pc[r] = "copied" => AtHead' = AtHead
    BY <1>1, <1>3, <2>1 DEF AtHead
  <2> QED BY <1>1, <2>1, <2>2, <2>3, <2>4
<1> QED BY <1>2, <1>3 DEF Framed

\* What a writer does while it has nothing to publish leaves the counts.
LEMMA CountedByWriter ==
  ASSUME IndInv, NEW w \in Writers, NEW l, WriterMoves(w, l), l # "count", pc[w] # "count",
         used' = used, Frames' = Frames, l \in Pushing => used + msg[w][2] <= Capacity
  PROVE  Counted'
<1>1. Taken' = Taken /\ Uncounted' = 0 /\ Uncounted = 0 /\ QueuedBytes' = QueuedBytes
  BY WriterSteps DEF QueuedBytes
<1>2. used' = QueuedBytes' + Taken' - Uncounted' /\ used' <= Capacity
  BY <1>1 DEF IndInv, Counted
<1>3. \A v \in Writers : pc'[v] \in Pushing => v = w
  BY WriterSteps
<1>4. pc'[w] = l /\ (l \in Pushing => msg' = msg)
  BY WriterSteps DEF WriterMoves
<1>5. \A v \in Writers : pc'[v] \in Pushing => used' + msg'[v][2] <= Capacity
  BY <1>3, <1>4
<1> QED BY <1>2, <1>5 DEF Counted

\* Other writers are outside the mutex.
LEMMA PlacedByWriter ==
  ASSUME IndInv, NEW w \in Writers, NEW l, WriterMoves(w, l),
         /\ l \in {"sentinel", "wrap"} =>
              HeaderSize <= Contiguous' /\ tail' - head + FrameLen(msg[w]) + Contiguous' <= RingCap
         /\ l = "wrap" => ring'[Idx(tail')] = Zero
         /\ l \in {"frame", "publish"} =>
              FrameLen(msg[w]) <= Contiguous' /\ tail' - head + FrameLen(msg[w]) <= RingCap
         /\ l = "publish" =>
              \A k \in 0 .. FrameLen(msg[w]) - 1 : ring'[Idx(tail') + k] = <<msg[w], k>>
  PROVE  Placed'
<1>1. \A v \in Writers : pc'[v] \in Pushing => v = w
  BY WriterSteps
<1>2. pc'[w] = l /\ (l \in Pushing => msg' = msg) /\ head' = head
  BY WriterSteps DEF WriterMoves
<1>3. ASSUME NEW v \in Writers, v # w PROVE pc'[v] \notin {"sentinel", "wrap", "frame", "publish"}
  BY <1>1, <1>3 DEF Pushing
<1>4. l \in {"sentinel", "wrap", "frame", "publish"} => msg' = msg
  BY <1>2 DEF Pushing
<1>5. ASSUME NEW v \in Writers
      PROVE  /\ pc'[v] \in {"sentinel", "wrap"} =>
                  HeaderSize <= Contiguous' /\ tail' - head' + FrameLen(msg'[v]) + Contiguous' <= RingCap
             /\ pc'[v] = "wrap" => ring'[Idx(tail')] = Zero
             /\ pc'[v] \in {"frame", "publish"} =>
                  FrameLen(msg'[v]) <= Contiguous' /\ tail' - head' + FrameLen(msg'[v]) <= RingCap
             /\ pc'[v] = "publish" =>
                  \A k \in 0 .. FrameLen(msg'[v]) - 1 : ring'[Idx(tail') + k] = <<msg'[v], k>>
  <2>1. CASE v # w
    BY <1>3, <2>1
  <2>2. CASE v = w
    <3>1. pc'[v] \in {"sentinel", "wrap", "frame", "publish"} => msg'[v] = msg[w]
      BY <1>2, <1>4, <2>2
    <3> QED BY <1>2, <2>2, <3>1
  <2> QED BY <2>1, <2>2
<1> QED BY <1>5 DEF Placed

\* push, up to its first write: Full, or the mutex is taken.
LEMMA LoadUsedInv ==
  ASSUME IndInv, NEW w \in Writers, LoadUsed(w)
  PROVE  IndInv' /\ UNCHANGED <<Frames, Delivered>>
<1> DEFINE l == IF used + msg[w][2] > Capacity THEN "idle" ELSE "room"
<1>1. WriterMoves(w, l)
  BY TypesOfPipe DEF LoadUsed, Goto, WriterMoves, IndInv, TypeOK, Guarded, Labels, Pushing, pipe
<1>2. UNCHANGED <<ring, head, tail, used>> /\ pc[w] = "lock"
  BY DEF LoadUsed, pipe
<1>3. l \notin {"count", "sentinel", "wrap", "frame", "publish"}
  OBVIOUS
<1>4. l \in Pushing => used + msg[w][2] <= Capacity
  <2>1. msg[w] \in Messages
    BY <1>2 DEF IndInv, Guarded
  <2>2. used + msg[w][2] \in Int
    BY <2>1, MessageFacts, TypesOfPipe
  <2> QED BY <2>2, TypesOfPipe DEF Pushing
<1> HIDE DEF l
<1>5. Frames' = Frames
  BY <1>2 DEF Frames
<1>6. Framed'
  BY <1>1, <1>2, <1>5, FramedByWriter, TypesOfPipe
<1>7. Placed'
  BY <1>1, <1>3, PlacedByWriter
<1>8. Counted'
  BY <1>1, <1>2, <1>3, <1>4, <1>5, CountedByWriter
<1> QED BY <1>1, <1>5, <1>6, <1>7, <1>8, WriterSteps DEF IndInv

\* push finds room for the frame, or gives up the mutex.
LEMMA LoadHeadInv ==
  ASSUME IndInv, NEW w \in Writers, LoadHead(w)
  PROVE  IndInv' /\ UNCHANGED <<Frames, Delivered>>
<1> DEFINE m == msg[w]
           l == IF NoRoom(m) THEN "idle" ELSE IF Wraps(m) THEN "sentinel" ELSE "frame"
<1>1. WriterMoves(w, l)
  BY TypesOfPipe DEF LoadHead, Goto, WriterMoves, IndInv, TypeOK, Guarded, Labels, Pushing, pipe
<1>2. UNCHANGED <<ring, head, tail, used>> /\ pc[w] = "room" /\ Contiguous' = Contiguous
  BY DEF LoadHead, pipe, Contiguous
<1>3. m \in Messages /\ FrameLen(m) \in Nat /\ HeaderSize \in Nat /\ used + m[2] <= Capacity
  BY <1>2, MessageFacts DEF IndInv, Guarded, Counted, Pushing
<1>4. /\ l = "sentinel" =>
            HeaderSize <= Contiguous /\ tail - head + FrameLen(m) + Contiguous <= RingCap
      /\ l = "frame" =>
            FrameLen(m) <= Contiguous /\ tail - head + FrameLen(m) <= RingCap
      /\ l \in {"sentinel", "frame", "idle"}
  <2> HIDE DEF m
  <2>1. CASE NoRoom(m)
    BY <2>1
  <2>2. CASE ~NoRoom(m) /\ Wraps(m)
    BY <1>3, <2>2, TypesOfPipe DEF NoRoom
  <2>3. CASE ~NoRoom(m) /\ ~Wraps(m)
    BY <1>3, <2>3, TypesOfPipe DEF NoRoom, Wraps
  <2> QED BY <2>1, <2>2, <2>3
<1> HIDE DEF l
<1>5. Frames' = Frames
  BY <1>2 DEF Frames
<1>6. Framed'
  BY <1>1, <1>2, <1>5, FramedByWriter, TypesOfPipe
<1>7. Placed'
  BY <1>1, <1>2, <1>4, PlacedByWriter
<1>8. Counted'
  BY <1>1, <1>2, <1>3, <1>4, <1>5, CountedByWriter
<1> QED BY <1>1, <1>5, <1>6, <1>7, <1>8, WriterSteps DEF IndInv

\* The message is added to used_bytes.
LEMMA CountInv ==
  ASSUME IndInv, NEW w \in Writers, Count(w)
  PROVE  IndInv' /\ UNCHANGED <<Frames, Delivered>>
<1> DEFINE l == IF w \in Notifying THEN "wake" ELSE "idle"
<1>1. pc[w] = "count" /\ msg[w] \in Messages /\ msg[w][2] \in Nat /\ used + msg[w][2] <= Capacity
      /\ used' = used + msg[w][2] /\ UNCHANGED <<ring, head, tail>>
  BY MessageFacts DEF Count, IndInv, Guarded, Counted, Pushing
<1>2. used' \in Int
  BY <1>1, TypesOfPipe
<1>3. l \in {"wake", "idle"} /\ l \in Labels /\ l \notin Pushing /\ l # "lock" /\ l # "count"
  BY DEF Labels, Pushing
<1>4. pc' = [pc EXCEPT ![w] = l] /\ writer' = Nobody /\ msg' = [msg EXCEPT ![w] = None]
      /\ UNCHANGED <<reader, seen, written>>
  BY DEF Count, Goto
<1> HIDE DEF l
<1>5. WriterMoves(w, l)
  <2>1. writer = w
    BY <1>1 DEF IndInv, Guarded, Pushing
  <2>2. ring' \in Rings /\ tail' \in Nat
    BY <1>1, TypesOfPipe
  <2> QED BY <1>1, <1>2, <1>3, <1>4, <2>1, <2>2 DEF WriterMoves
<1>6. Frames' = Frames /\ QueuedBytes' = QueuedBytes
  BY <1>1 DEF Frames, QueuedBytes
<1>7. Framed'
  BY <1>1, <1>5, <1>6, FramedByWriter, TypesOfPipe
<1>8. Placed'
  BY <1>3, <1>5, PlacedByWriter
<1>9. Counted'
  <2>1. Taken' = Taken /\ Uncounted' = 0 /\ Uncounted = msg[w][2] /\ Taken \in Int
    <3>1. Taken \in Int
      BY MessageFacts DEF Taken, IndInv, TypeOK, Guarded
    <3> QED BY <1>1, <1>3, <1>5, <3>1, WriterSteps
  <2>2. used = QueuedBytes + Taken - Uncounted
    BY DEF IndInv, Counted
  <2>3. used' = QueuedBytes' + Taken' - Uncounted'
    <3>1. QueuedBytes \in Int /\ used \in Int
      BY TypesOfPipe
    <3>2. used + msg[w][2] = QueuedBytes + Taken - 0
      BY <1>1, <2>1, <2>2, <3>1
    <3> QED BY <1>1, <1>6, <2>1, <3>2
  <2>4. \A v \in Writers : pc'[v] \notin Pushing
    BY <1>3, <1>5, WriterSteps
  <2> QED BY <1>1, <2>3, <2>4 DEF Counted
<1> QED BY <1>5, <1>6, <1>7, <1>8, <1>9, WriterSteps DEF IndInv

----------------------------------------------------------------------------
(* Writing into the ring, and publishing *)

\* A writer that stays within its place touches no cell of what lies between
\* head and tail.
LEMMA WriteKeeps ==
  ASSUME IndInv, ring' \in Rings, NEW n \in Nat, n <= Contiguous, tail - head + n <= RingCap,
         \A i \in 0 .. RingCap - 1 : i \notin Idx(tail) .. Idx(tail) + n - 1 => ring'[i] = ring[i]
  PROVE  \A q \in head .. tail - 1 : ring'[Idx(q)] = ring[Idx(q)]
<1> SUFFICES ASSUME NEW q \in head .. tail - 1 PROVE ring'[Idx(q)] = ring[Idx(q)]
  OBVIOUS
<1>1. /\ head \in Nat /\ tail \in Nat /\ q \in Nat /\ RingCap \in Nat /\ Contiguous = RingCap - Idx(tail)
      /\ Idx(tail) \in 0 .. RingCap - 1
  BY TypesOfPipe DEF Contiguous
<1>2. Idx(q) \in 0 .. RingCap - 1
  BY <1>1, IdxRange
<1>3. Idx(q) \notin Idx(tail) .. Idx(tail) + n - 1
  <2> SUFFICES ASSUME Idx(q) \in Idx(tail) .. Idx(tail) + n - 1 PROVE FALSE
    OBVIOUS
  <2> DEFINE k == Idx(q) - Idx(tail)
  <2>1. k \in Nat /\ k < n /\ Idx(tail) + k < RingCap /\ Idx(q) = Idx(tail) + k
    BY <1>1, <1>2
  <2> HIDE DEF k
  <2>2. Idx(tail + k) = Idx(q)
    BY <1>1, <2>1, IdxShift
  <2>3. tail + k \in Nat /\ q < tail + k /\ (tail + k) - q < RingCap
    BY <1>1, <2>1
  <2> QED BY <1>1, <2>2, <2>3, IdxApart
<1> QED BY <1>2, <1>3

\* So it changes neither the messages nor what a reader is looking at.
LEMMA WriteInPlace ==
  ASSUME IndInv, NEW w \in Writers, NEW l, WriterMoves(w, l), UNCHANGED <<tail, used>>,
         \A q \in head .. tail - 1 : ring'[Idx(q)] = ring[Idx(q)]
  PROVE  Frames' = Frames /\ Framed'
<1>1. ring \in Rings /\ ring' \in Rings /\ head \in Nat /\ tail \in Nat /\ head <= tail /\ head' = head
      /\ Frames \in Seq(Messages)
  BY TypesOfPipe DEF WriterMoves
<1>2. Parse(ring', tail)[head] = Parse(ring, tail)[head]
  <2>1. head \in 0 .. tail /\ Parse(ring, tail)[head] \in Seq(Messages)
    BY <1>1 DEF Frames
  <2> QED BY <1>1, <2>1, ParseKeeps
<1>3. Frames' = Frames
  BY <1>1, <1>2 DEF Frames
<1>4. ASSUME NEW r \in Readers, pc[r] \in {"scan", "copied"}
      PROVE  /\ Parse(ring', seen[r])[head] = Parse(ring, seen[r])[head]
             /\ head # seen[r] => ring'[Idx(head)] = ring[Idx(head)]
  <2>1. /\ head <= seen[r] /\ seen[r] <= tail /\ seen[r] \in Nat
        /\ Parse(ring, seen[r])[head] \in Seq(Messages)
    BY <1>4 DEF IndInv, Framed, TypeOK
  <2>2. head \in 0 .. seen[r] /\ \A q \in head .. seen[r] - 1 : ring'[Idx(q)] = ring[Idx(q)]
    BY <1>1, <2>1
  <2>3. head # seen[r] => head \in head .. tail - 1
    BY <1>1, <2>1
  <2> QED BY <1>1, <2>1, <2>2, <2>3, ParseKeeps
<1>5. Framed'
  BY <1>1, <1>3, <1>4, FramedByWriter
<1> QED BY <1>3, <1>5

\* The sentinel lands in free space.
LEMMA SentinelInv ==
  ASSUME IndInv, NEW w \in Writers, Sentinel(w)
  PROVE  IndInv' /\ UNCHANGED <<Frames, Delivered>>
<1> DEFINE m == msg[w]
<1>1. /\ pc[w] = "sentinel" /\ m \in Messages /\ FrameLen(m) \in Nat /\ FrameLen(m) >= 1
      /\ HeaderSize \in Nat /\ HeaderSize >= 1
  BY MessageFacts DEF Sentinel, IndInv, Guarded, Pushing
<1>2. /\ HeaderSize <= Contiguous /\ tail - head + FrameLen(m) + Contiguous <= RingCap
      /\ used + m[2] <= Capacity /\ writer = w
  BY <1>1 DEF IndInv, Placed, Counted, Guarded, Pushing
<1>3. /\ pc' = [pc EXCEPT ![w] = "wrap"]
      /\ UNCHANGED <<head, tail, used, writer, reader, seen, msg, written>>
      /\ ring' = [i \in 0 .. RingCap - 1 |->
           IF i \in Idx(tail) .. Idx(tail) + HeaderSize - 1 THEN Zero ELSE ring[i]]
  BY DEF Sentinel, Goto, mutexes
<1> HIDE DEF m
<1>4. ring' \in Rings /\ ring'[Idx(tail)] = Zero
  <2>1. Zero \in ({None} \cup Messages) \X Nat
    BY DEF Zero
  <2>2. \A i \in 0 .. RingCap - 1 : ring[i] \in ({None} \cup Messages) \X Nat
    BY TypesOfPipe DEF Rings
  <2>3. Idx(tail) \in Idx(tail) .. Idx(tail) + HeaderSize - 1 /\ Idx(tail) \in 0 .. RingCap - 1
    BY <1>1, TypesOfPipe
  <2> HIDE DEF Zero
  <2> QED BY <1>3, <2>1, <2>2, <2>3 DEF Rings
<1>5. WriterMoves(w, "wrap")
  BY <1>1, <1>2, <1>3, <1>4, TypesOfPipe DEF WriterMoves, Labels, Pushing, m
<1>6. \A q \in head .. tail - 1 : ring'[Idx(q)] = ring[Idx(q)]
  <2>1. tail - head + HeaderSize <= RingCap
    BY <1>1, <1>2, TypesOfPipe
  <2>2. \A i \in 0 .. RingCap - 1 : i \notin Idx(tail) .. Idx(tail) + HeaderSize - 1 => ring'[i] = ring[i]
    BY <1>3
  <2> QED BY <1>1, <1>2, <1>4, <2>1, <2>2, WriteKeeps
<1>7. Frames' = Frames /\ Framed'
  BY <1>3, <1>5, <1>6, WriteInPlace
<1>8. Contiguous' = Contiguous /\ tail' = tail
  BY <1>3 DEF Contiguous
<1>9. Placed'
  BY <1>2, <1>4, <1>5, <1>8, PlacedByWriter DEF m
<1>10. Counted'
  BY <1>1, <1>2, <1>3, <1>5, <1>7, CountedByWriter DEF m
<1> QED BY <1>5, <1>7, <1>9, <1>10, WriterSteps DEF IndInv

\* The frame lands in free space.
LEMMA WriteFrameInv ==
  ASSUME IndInv, NEW w \in Writers, WriteFrame(w)
  PROVE  IndInv' /\ UNCHANGED <<Frames, Delivered>>
<1> DEFINE m == msg[w]
           n == FrameLen(m)
<1>1. pc[w] = "frame" /\ m \in Messages /\ n \in Nat /\ n >= 1
  <2>1. pc[w] = "frame" /\ m \in Messages
    BY DEF WriteFrame, IndInv, Guarded, Pushing
  <2> QED BY <2>1, MessageFacts
<1>2. /\ n <= Contiguous /\ tail - head + n <= RingCap
      /\ used + m[2] <= Capacity /\ writer = w
  BY <1>1 DEF IndInv, Placed, Counted, Guarded, Pushing
<1>3. /\ pc' = [pc EXCEPT ![w] = "publish"]
      /\ UNCHANGED <<head, tail, used, writer, reader, seen, msg, written>>
      /\ ring' = [i \in 0 .. RingCap - 1 |->
           IF i \in Idx(tail) .. Idx(tail) + n - 1 THEN <<m, i - Idx(tail)>> ELSE ring[i]]
  BY DEF WriteFrame, Goto, mutexes
<1> HIDE DEF n
<1>4. /\ RingCap \in Nat /\ Idx(tail) \in 0 .. RingCap - 1 /\ Idx(tail) + n <= RingCap
  BY <1>1, <1>2, TypesOfPipe DEF Contiguous
<1>5. ring' \in Rings
  <2>1. \A i \in 0 .. RingCap - 1 : ring[i] \in ({None} \cup Messages) \X Nat
    BY TypesOfPipe DEF Rings
  <2>2. \A i \in Idx(tail) .. Idx(tail) + n - 1 : <<m, i - Idx(tail)>> \in ({None} \cup Messages) \X Nat
    BY <1>1, <1>4
  <2> QED BY <1>3, <2>1, <2>2 DEF Rings
<1>6. \A k \in 0 .. n - 1 : ring'[Idx(tail) + k] = <<m, k>>
  <2> TAKE k \in 0 .. n - 1
  <2>1. /\ Idx(tail) + k \in 0 .. RingCap - 1 /\ Idx(tail) + k \in Idx(tail) .. Idx(tail) + n - 1
        /\ (Idx(tail) + k) - Idx(tail) = k
    BY <1>1, <1>4
  <2> QED BY <1>3, <2>1
<1>7. WriterMoves(w, "publish")
  BY <1>1, <1>2, <1>3, <1>5, TypesOfPipe DEF WriterMoves, Labels, Pushing
<1>8. \A q \in head .. tail - 1 : ring'[Idx(q)] = ring[Idx(q)]
  <2>1. \A i \in 0 .. RingCap - 1 : i \notin Idx(tail) .. Idx(tail) + n - 1 => ring'[i] = ring[i]
    BY <1>3
  <2> QED BY <1>1, <1>2, <1>5, <2>1, WriteKeeps
<1>9. Frames' = Frames /\ Framed'
  BY <1>3, <1>7, <1>8, WriteInPlace
<1>10. Contiguous' = Contiguous /\ tail' = tail
  BY <1>3 DEF Contiguous
<1>11. Placed'
  BY <1>2, <1>6, <1>7, <1>10, PlacedByWriter DEF n
<1>12. Counted'
  BY <1>1, <1>2, <1>3, <1>7, <1>9, CountedByWriter
<1> QED BY <1>7, <1>9, <1>11, <1>12, WriterSteps DEF IndInv

\* The end of the ring is skipped: the messages stay the same.
LEMMA WrapInv ==
  ASSUME IndInv, NEW w \in Writers, Wrap(w)
  PROVE  IndInv' /\ UNCHANGED <<Frames, Delivered>>
<1> DEFINE m == msg[w]
           u == tail + Contiguous
<1>1. pc[w] = "wrap" /\ m \in Messages /\ FrameLen(m) \in Nat /\ FrameLen(m) >= 1
  BY MessageFacts DEF Wrap, IndInv, Guarded, Pushing
<1>2. /\ tail - head + FrameLen(m) + Contiguous <= RingCap /\ ring[Idx(tail)] = Zero
      /\ used + m[2] <= Capacity /\ writer = w
  BY <1>1 DEF IndInv, Placed, Counted, Guarded, Pushing
<1>3. /\ pc' = [pc EXCEPT ![w] = "frame"] /\ tail' = u
      /\ UNCHANGED <<ring, head, used, writer, reader, seen, msg, written>>
  BY DEF Wrap, Goto, mutexes
<1>4. u = tail + RingCap - Idx(tail) /\ u \in Nat /\ u > tail /\ tail \in 0 .. u /\ u \in 0 .. u
  BY TypesOfPipe DEF Contiguous
<1> HIDE DEF u, m
<1>5. WriterMoves(w, "frame")
  BY <1>1, <1>2, <1>3, <1>4, TypesOfPipe DEF WriterMoves, Labels, Pushing, m
<1>6. Parse(ring, u)[tail] = <<>>
  <2>1. Parse(ring, u)[u] = <<>>
    BY <1>4, ParseSteps, TypesOfPipe DEF ParseStep
  <2>2. Parse(ring, u)[tail] = ParseStep(Parse(ring, u), ring, u, tail)
    BY <1>4, ParseSteps, TypesOfPipe
  <2>3. tail # u /\ tail + RingCap - Idx(tail) <= u
    BY <1>4, TypesOfPipe
  <2>4. Parse(ring, u)[tail] = Parse(ring, u)[u]
    BY <1>2, <1>4, <2>2, <2>3 DEF ParseStep
  <2> QED BY <2>1, <2>4
<1>7. Frames' = Frames
  <2>1. Parse(ring, u)[tail] \in Seq(Messages) /\ Parse(ring, tail)[head] \in Seq(Messages)
    BY <1>6, TypesOfPipe DEF Frames
  <2>2. Parse(ring, u)[head] = Parse(ring, tail)[head] \o Parse(ring, u)[tail]
    <3>1. head \in 0 .. tail
      BY TypesOfPipe
    <3> QED BY <1>4, <2>1, <3>1, ParseJoins, TypesOfPipe
  <2>3. Parse(ring, u)[head] = Frames
    <3>1. Frames \o <<>> = Frames
      BY TypesOfPipe, ConcatEmptySeq
    <3> QED BY <1>6, <2>2, <3>1 DEF Frames
  <2> QED BY <1>3, <2>3 DEF Frames
<1>8. Framed'
  <2>1. tail <= tail' /\ Frames' \in Seq(Messages)
    BY <1>3, <1>4, <1>7, TypesOfPipe
  <2> QED BY <1>3, <1>5, <2>1, FramedByWriter
<1>9. Placed'
  <2>1. Idx(u) = 0
    BY <1>4, IdxWrap, TypesOfPipe
  <2>2. Contiguous' = RingCap
    BY <1>3, <2>1, TypesOfPipe DEF Contiguous
  <2>3. FrameLen(m) <= RingCap /\ u - head + FrameLen(m) <= RingCap
    BY <1>1, <1>2, TypesOfPipe DEF u
  <2>4. FrameLen(m) <= Contiguous' /\ tail' - head + FrameLen(m) <= RingCap
    BY <1>3, <2>2, <2>3
  <2> QED BY <1>5, <2>4, PlacedByWriter DEF m
<1>10. Counted'
  BY <1>1, <1>2, <1>3, <1>5, <1>7, CountedByWriter DEF m
<1> QED BY <1>5, <1>7, <1>8, <1>9, <1>10, WriterSteps DEF IndInv

\* The frame is visible: the queue is longer by the message.
LEMMA PublishInv ==
  ASSUME IndInv, NEW w \in Writers, Publish(w)
  PROVE  IndInv' /\ Delivered' = Delivered /\ msg[w] \in Messages /\ Frames' = Append(Frames, msg[w])
<1> DEFINE m == msg[w]
           n == FrameLen(m)
           u == tail + n
<1>1. pc[w] = "publish" /\ m \in Messages /\ n \in Nat /\ n >= 1 /\ m # None /\ m[2] \in Nat
  <2>1. pc[w] = "publish" /\ m \in Messages
    BY DEF Publish, IndInv, Guarded, Pushing
  <2> QED BY <2>1, MessageFacts
<1>2. /\ n <= Contiguous /\ \A k \in 0 .. n - 1 : ring[Idx(tail) + k] = <<m, k>>
      /\ used + m[2] <= Capacity /\ writer = w
  BY <1>1 DEF IndInv, Placed, Counted, Guarded, Pushing
<1>3. /\ pc' = [pc EXCEPT ![w] = "count"] /\ tail' = u
      /\ UNCHANGED <<ring, head, used, writer, reader, seen, msg, written>>
  BY DEF Publish, Goto, mutexes
<1> HIDE DEF n
<1>4. u \in Nat /\ u > tail /\ tail \in 0 .. u /\ u \in 0 .. u /\ tail # u
  BY <1>1, TypesOfPipe
<1>5. WriterMoves(w, "count")
  BY <1>1, <1>2, <1>3, <1>4, TypesOfPipe DEF WriterMoves, Labels, Pushing
<1>6. ring[Idx(tail)] = <<m, 0>> /\ ring[Idx(tail)][1] = m /\ ring[Idx(tail)] # Zero
  <2>1. 0 \in 0 .. n - 1 /\ Idx(tail) + 0 = Idx(tail)
    BY <1>1, TypesOfPipe
  <2>2. ring[Idx(tail)] = <<m, 0>>
    BY <1>2, <2>1
  <2> QED BY <1>1, <2>2 DEF Zero
<1>7. Whole(ring, u, tail)
  <2>1. Idx(tail) + n <= RingCap /\ tail + n <= u
    BY <1>1, <1>2, <1>4, TypesOfPipe DEF Contiguous
  <2> QED BY <1>2, <1>6, <2>1 DEF Whole, n
<1>8. Parse(ring, u)[tail] = <<m>>
  <2>1. Parse(ring, u)[u] = <<>>
    BY <1>4, ParseSteps, TypesOfPipe DEF ParseStep
  <2>2. Parse(ring, u)[tail] = ParseStep(Parse(ring, u), ring, u, tail)
    BY <1>4, ParseSteps, TypesOfPipe
  <2>3. Parse(ring, u)[tail] = <<m>> \o Parse(ring, u)[tail + FrameLen(m)]
    BY <1>4, <1>6, <1>7, <2>2 DEF ParseStep
  <2>4. Parse(ring, u)[tail] = <<m>> \o <<>>
    BY <2>1, <2>3 DEF n
  <2> QED BY <2>4
<1>9. Frames' = Frames \o <<m>>
  <2>1. Parse(ring, u)[tail] \in Seq(Messages) /\ Parse(ring, tail)[head] \in Seq(Messages)
    <3>1. <<m>> \in Seq(Messages)
      BY <1>1
    <3>2. Frames \in Seq(Messages)
      BY TypesOfPipe
    <3> QED BY <1>8, <3>1, <3>2 DEF Frames
  <2>2. Parse(ring, u)[head] = Parse(ring, tail)[head] \o Parse(ring, u)[tail]
    <3>1. head \in 0 .. tail
      BY TypesOfPipe
    <3> QED BY <1>4, <2>1, <3>1, ParseJoins, TypesOfPipe
  <2> HIDE DEF u
  <2> QED BY <1>3, <1>8, <2>2 DEF Frames
<1>10. /\ Frames' = Append(Frames, m) /\ Frames' \in Seq(Messages)
       /\ Bytes(Frames') = Bytes(Frames) + m[2]
  BY <1>1, <1>9, BytesOfPush, TypesOfPipe
<1>11. Framed'
  <2>1. tail <= tail'
    BY <1>3, <1>4, TypesOfPipe
  <2> QED BY <1>3, <1>5, <1>10, <2>1, FramedByWriter
<1>12. Placed'
  BY <1>5, PlacedByWriter
<1>13. Counted'
  <2>1. Taken' = Taken /\ Uncounted' = m[2] /\ Uncounted = 0 /\ Taken \in Int
    <3>1. Taken \in Int
      BY MessageFacts DEF Taken, IndInv, TypeOK, Guarded
    <3> QED BY <1>1, <1>5, <3>1, WriterSteps
  <2>2. used = QueuedBytes + Taken - Uncounted /\ used <= Capacity
    BY DEF IndInv, Counted
  <2>3. QueuedBytes' = QueuedBytes + m[2] /\ QueuedBytes \in Int
    BY <1>10, TypesOfPipe DEF QueuedBytes
  <2>4. used = (QueuedBytes + m[2]) + Taken - m[2]
    BY <1>1, <2>1, <2>2, <2>3
  <2>5. used' = QueuedBytes' + Taken' - Uncounted'
    BY <1>3, <2>1, <2>3, <2>4
  <2>6. \A v \in Writers : pc'[v] \in Pushing => v = w
    BY <1>5, WriterSteps
  <2>7. \A v \in Writers : pc'[v] \in Pushing => used' + msg'[v][2] <= Capacity
    BY <1>2, <1>3, <2>6
  <2> QED BY <1>3, <2>2, <2>5, <2>7 DEF Counted
<1> QED BY <1>1, <1>5, <1>10, <1>11, <1>12, <1>13, WriterSteps DEF IndInv

----------------------------------------------------------------------------
(* Reading *)

\* A reader that moves on leaves the writer its place.
LEMMA PlacedByReader ==
  ASSUME IndInv, NEW r \in Readers, NEW l, ReaderMoves(r, l), head <= head'
  PROVE  Placed'
<1>1. /\ ring' = ring /\ tail' = tail /\ head' \in Nat /\ Contiguous' = Contiguous
      /\ \A w \in Writers : pc'[w] = pc[w] /\ msg'[w] = msg[w]
  BY ReaderSteps DEF ReaderMoves, Contiguous
<1>2. \A w \in Writers : pc[w] \in Pushing => FrameLen(msg[w]) \in Nat
  BY MessageFacts DEF IndInv, Guarded
<1>3. ASSUME NEW w \in Writers
      PROVE  /\ pc[w] \in {"sentinel", "wrap"} =>
                  HeaderSize <= Contiguous /\ tail - head' + FrameLen(msg[w]) + Contiguous <= RingCap
             /\ pc[w] \in {"frame", "publish"} =>
                  FrameLen(msg[w]) <= Contiguous /\ tail - head' + FrameLen(msg[w]) <= RingCap
  <2>1. CASE pc[w] \in {"sentinel", "wrap"}
    <3>1. FrameLen(msg[w]) \in Nat
      BY <1>2, <2>1 DEF Pushing
    <3>2. HeaderSize <= Contiguous /\ tail - head + FrameLen(msg[w]) + Contiguous <= RingCap
      BY <2>1 DEF IndInv, Placed
    <3>3. head \in Nat /\ tail \in Nat /\ RingCap \in Nat /\ Contiguous \in Nat
      BY TypesOfPipe
    <3>4. \A x, y, h, n, c, s \in Int : x <= y /\ h - x + n + c <= s => h - y + n + c <= s
      OBVIOUS
    <3>5. tail - head' + FrameLen(msg[w]) + Contiguous <= RingCap
      <4>1. head' \in Int /\ head \in Int /\ tail \in Int /\ RingCap \in Int /\ Contiguous \in Int
            /\ FrameLen(msg[w]) \in Int
        BY <1>1, <3>1, <3>3
      <4> QED BY <3>2, <3>4, <4>1
    <3> QED BY <2>1, <3>2, <3>5
  <2>2. CASE pc[w] \in {"frame", "publish"}
    <3>1. FrameLen(msg[w]) \in Nat
      BY <1>2, <2>2 DEF Pushing
    <3>2. FrameLen(msg[w]) <= Contiguous /\ tail - head + FrameLen(msg[w]) <= RingCap
      BY <2>2 DEF IndInv, Placed
    <3> QED BY <1>1, <2>2, <3>1, <3>2, TypesOfPipe
  <2> QED BY <2>1, <2>2
<1>4. ASSUME NEW w \in Writers
      PROVE  /\ pc[w] = "wrap" => ring[Idx(tail)] = Zero
             /\ pc[w] = "publish" =>
                  \A k \in 0 .. FrameLen(msg[w]) - 1 : ring[Idx(tail) + k] = <<msg[w], k>>
  BY DEF IndInv, Placed
<1> QED BY <1>1, <1>3, <1>4 DEF Placed

\* A reader that has taken nothing leaves the counts.
LEMMA CountedByReader ==
  ASSUME IndInv, NEW r \in Readers, NEW l, ReaderMoves(r, l), l # "taken", pc[r] # "taken",
         used' = used, Frames' = Frames
  PROVE  Counted'
<1>1. Taken' = 0 /\ Taken = 0 /\ Uncounted' = Uncounted /\ QueuedBytes' = QueuedBytes
  BY ReaderSteps DEF QueuedBytes
<1>2. \A w \in Writers : pc'[w] = pc[w] /\ msg'[w] = msg[w]
  BY ReaderSteps
<1> QED BY <1>1, <1>2 DEF IndInv, Counted

\* A reader that moves on to a whole frame, or stops scanning.
LEMMA FramedByReader ==
  ASSUME IndInv, NEW r \in Readers, NEW l, ReaderMoves(r, l),
         head' <= tail, Frames' \in Seq(Messages),
         l \in {"scan", "copied"} =>
           /\ head' <= seen'[r] /\ seen'[r] <= tail
           /\ Parse(ring, seen'[r])[head'] \in Seq(Messages)
           /\ l = "copied" => head' # seen'[r] /\ AtHead' # Zero /\ msg'[r] = AtHead'[1]
  PROVE  Framed'
<1>1. ring' = ring /\ tail' = tail /\ pc'[r] = l /\ \A v \in Readers \ {r} : pc'[v] \notin Popping
  BY ReaderSteps DEF ReaderMoves
<1>2. \A v \in Readers : pc'[v] \in {"scan", "copied"} => v = r
  BY <1>1 DEF Popping
<1> QED BY <1>1, <1>2 DEF Framed

\* Only the step to "taken" and the one from it show outside.
LEMMA DeliveredByReader ==
  ASSUME IndInv, NEW r \in Readers, NEW l, ReaderMoves(r, l)
  PROVE  Delivered' = [Delivered EXCEPT ![r] = IF l = "taken" THEN msg[r] ELSE None]
<1>1. pc'[r] = l /\ \A v \in Readers \ {r} : pc[v] # "taken" /\ pc'[v] # "taken"
  BY ReaderSteps DEF Popping
<1>2. l = "taken" => msg' = msg
  BY DEF ReaderMoves
<1>3. \A v \in Readers : Delivered'[v] = IF v = r THEN (IF l = "taken" THEN msg[r] ELSE None) ELSE None
  BY <1>1, <1>2 DEF Delivered
<1>4. \A v \in Readers \ {r} : Delivered[v] = None
  BY <1>1 DEF Delivered
<1>5. DOMAIN Delivered = Readers /\ Delivered' = [v \in Readers |-> Delivered'[v]]
  BY DEF Delivered
<1> HIDE DEF Delivered
<1> QED BY <1>3, <1>4, <1>5

\* A step that neither commits nor returns shows nothing outside.
LEMMA DeliveredSame ==
  ASSUME IndInv, NEW r \in Readers, NEW l, ReaderMoves(r, l), l # "taken", pc[r] # "taken"
  PROVE  Delivered' = Delivered
<1>1. Delivered' = [Delivered EXCEPT ![r] = None]
  BY DeliveredByReader
<1>2. Delivered[r] = None /\ DOMAIN Delivered = Readers /\ Delivered = [v \in Readers |-> Delivered[v]]
  BY DEF Delivered
<1> QED BY <1>1, <1>2

\* pop loads tail: a boundary of the frames.
LEMMA PopLoadInv ==
  ASSUME IndInv, NEW r \in Readers, PopLoad(r)
  PROVE  IndInv' /\ UNCHANGED <<Frames, Delivered>>
<1>1. /\ pc[r] = "pop" /\ reader = Nobody /\ reader' = r /\ seen' = [seen EXCEPT ![r] = tail]
      /\ pc' = [pc EXCEPT ![r] = "scan"]
      /\ UNCHANGED <<ring, head, tail, used, writer, msg, written>>
  BY DEF PopLoad, Goto, pipe
<1>2. seen'[r] = tail /\ msg[r] \in {None} \cup Messages /\ msg = [msg EXCEPT ![r] = msg[r]]
  BY <1>1 DEF IndInv, TypeOK
<1>3. ReaderMoves(r, "scan")
  BY <1>1, <1>2, TypesOfPipe DEF ReaderMoves, Labels, Popping
<1>4. Frames' = Frames
  BY <1>1 DEF Frames
<1>5. Framed'
  <2>1. head' <= tail /\ Frames' \in Seq(Messages)
    BY <1>1, <1>4, TypesOfPipe
  <2>2. head' <= seen'[r] /\ seen'[r] <= tail /\ Parse(ring, seen'[r])[head'] \in Seq(Messages)
    BY <1>1, <1>2, TypesOfPipe DEF Frames
  <2> QED BY <1>3, <2>1, <2>2, FramedByReader
<1>6. Placed'
  BY <1>1, <1>3, PlacedByReader, TypesOfPipe
<1>7. Counted'
  BY <1>1, <1>3, <1>4, CountedByReader
<1>8. Delivered' = Delivered
  BY <1>1, <1>3, DeliveredSame
<1> QED BY <1>3, <1>4, <1>5, <1>6, <1>7, <1>8, ReaderSteps DEF IndInv

\* A cell that is set to zero.
LEMMA ResetOf ==
  ASSUME NEW f, NEW g, NEW x, g = [f EXCEPT ![x] = 0], g[x] = 0
  PROVE  g = [f EXCEPT ![x] = g[x]] /\ g[x] \in Nat
<1>1. g = [f EXCEPT ![x] = g[x]]
  BY Zenon
<1> QED BY <1>1

\* pop finds nothing and returns or parks.
LEMMA PopEmptyInv ==
  ASSUME IndInv, NEW r \in Readers, PopEmpty(r)
  PROVE  IndInv' /\ UNCHANGED <<Frames, Delivered>>
<1>1. PICK l \in {"closed", "idle", "slow", "parked"} : pc' = [pc EXCEPT ![r] = l]
  BY DEF PopEmpty, Goto
<1>2. /\ pc[r] = "scan" /\ reader' = Nobody /\ seen' = [seen EXCEPT ![r] = 0]
      /\ UNCHANGED <<ring, head, tail, used, writer, msg, written>>
  BY DEF PopEmpty, pipe
<1>3. reader = r /\ seen'[r] = 0 /\ msg[r] \in {None} \cup Messages /\ msg = [msg EXCEPT ![r] = msg[r]]
  BY <1>2 DEF IndInv, TypeOK, Guarded, Popping
<1>4. l \in Labels /\ l \notin Popping
  BY DEF Labels, Popping
<1>5. l \notin {"taken", "scan", "copied"}
  BY <1>4 DEF Popping
<1>6. ReaderMoves(r, l)
  <2>1. head' \in Nat /\ used' \in Int
    BY <1>2, TypesOfPipe
  <2>2. msg' = [msg EXCEPT ![r] = msg'[r]] /\ msg'[r] \in {None} \cup Messages
    BY <1>2, <1>3
  <2>3. seen' = [seen EXCEPT ![r] = seen'[r]] /\ seen'[r] \in Nat
    BY <1>2, <1>3, ResetOf
  <2>4. l # "taken"
    BY <1>5
  <2> QED BY <1>1, <1>2, <1>3, <1>4, <2>1, <2>2, <2>3, <2>4 DEF ReaderMoves
<1>7. Frames' = Frames
  BY <1>2 DEF Frames
<1>8. Framed'
  BY <1>2, <1>5, <1>6, <1>7, FramedByReader, TypesOfPipe
<1>9. Placed'
  BY <1>2, <1>6, PlacedByReader, TypesOfPipe
<1>10. Counted'
  BY <1>2, <1>5, <1>6, <1>7, CountedByReader
<1>11. Delivered' = Delivered
  BY <1>2, <1>5, <1>6, DeliveredSame
<1> QED BY <1>6, <1>7, <1>8, <1>9, <1>10, <1>11, ReaderSteps DEF IndInv

\* What a scanning reader finds at head lies before the tail it loaded, which
\* is a boundary of the frames.
LEMMA ScanFacts ==
  ASSUME IndInv, NEW r \in Readers, pc[r] \in {"scan", "copied"}, head # seen[r]
  PROVE  /\ reader = r /\ seen[r] \in Nat /\ head \in 0 .. seen[r] /\ seen[r] <= tail
         /\ head \in 0 .. tail /\ head # tail
         /\ Parse(ring, seen[r])[head] \in Seq(Messages)
         /\ Parse(ring, tail)[head] = Frames /\ Frames \in Seq(Messages)
         /\ msg[r] \in {None} \cup Messages /\ msg = [msg EXCEPT ![r] = msg[r]]
         /\ seen = [seen EXCEPT ![r] = seen[r]]
<1>1. /\ head <= seen[r] /\ seen[r] <= tail /\ seen[r] \in Nat
      /\ Parse(ring, seen[r])[head] \in Seq(Messages)
  BY DEF IndInv, Framed, TypeOK
<1>2. reader = r
  BY DEF IndInv, Guarded, Popping
<1>3. head \in 0 .. seen[r] /\ head \in 0 .. tail /\ head # tail
  BY <1>1, TypesOfPipe
<1>4. /\ msg[r] \in {None} \cup Messages /\ msg = [msg EXCEPT ![r] = msg[r]]
      /\ seen = [seen EXCEPT ![r] = seen[r]]
  BY DEF IndInv, TypeOK
<1> QED BY <1>1, <1>2, <1>3, <1>4, TypesOfPipe DEF Frames

\* pop skips the end of the ring, which loses no message.
LEMMA PopSkipInv ==
  ASSUME IndInv, NEW r \in Readers, PopSkip(r)
  PROVE  IndInv' /\ UNCHANGED <<Frames, Delivered>>
<1> DEFINE a == head + RingCap - Idx(head)
<1>1. /\ pc[r] = "scan" /\ head # seen[r] /\ ring[Idx(head)] = Zero /\ head' = a
      /\ UNCHANGED <<ring, tail, used, writer, reader, pc, seen, msg, written>>
  BY DEF PopSkip, AtHead, mutexes
<1>2. /\ reader = r /\ seen[r] \in Nat /\ head \in 0 .. seen[r] /\ seen[r] <= tail
      /\ head \in 0 .. tail /\ head # tail
      /\ Parse(ring, seen[r])[head] \in Seq(Messages)
      /\ Parse(ring, tail)[head] = Frames /\ Frames \in Seq(Messages)
      /\ msg[r] \in {None} \cup Messages /\ msg = [msg EXCEPT ![r] = msg[r]]
      /\ seen = [seen EXCEPT ![r] = seen[r]]
  BY <1>1, ScanFacts
<1>3. a \in head + 1 .. seen[r] /\ Parse(ring, seen[r])[a] \in Seq(Messages)
  BY <1>1, <1>2, GoodStep, TypesOfPipe
<1>4. Parse(ring, tail)[a] = Frames
  BY <1>1, <1>2, GoodStep, TypesOfPipe
<1> HIDE DEF a
<1>5. a \in Nat /\ head <= a /\ a <= seen[r] /\ a <= tail
  BY <1>2, <1>3, TypesOfPipe
<1>6. ReaderMoves(r, "scan")
  <2>1. pc = [pc EXCEPT ![r] = "scan"]
    BY <1>1 DEF IndInv, TypeOK
  <2> QED BY <1>1, <1>2, <1>5, <2>1, TypesOfPipe DEF ReaderMoves, Labels, Popping
<1>7. Frames' = Frames
  BY <1>1, <1>4 DEF Frames
<1>8. Framed'
  <2>1. head' <= tail /\ Frames' \in Seq(Messages)
    BY <1>1, <1>2, <1>5, <1>7
  <2>2. head' <= seen'[r] /\ seen'[r] <= tail /\ Parse(ring, seen'[r])[head'] \in Seq(Messages)
    BY <1>1, <1>2, <1>3, <1>5
  <2> QED BY <1>6, <2>1, <2>2, FramedByReader
<1>9. Placed'
  BY <1>1, <1>5, <1>6, PlacedByReader
<1>10. Counted'
  BY <1>1, <1>6, <1>7, CountedByReader
<1>11. Delivered' = Delivered
  BY <1>1, <1>6, DeliveredSame
<1> QED BY <1>6, <1>7, <1>8, <1>9, <1>10, <1>11, ReaderSteps DEF IndInv

\* pop copies the frame at head, which is whole.
LEMMA PopCopyInv ==
  ASSUME IndInv, NEW r \in Readers, PopCopy(r)
  PROVE  IndInv' /\ UNCHANGED <<Frames, Delivered>>
<1> DEFINE m == ring[Idx(head)][1]
<1>1. /\ pc[r] = "scan" /\ head # seen[r] /\ ring[Idx(head)] # Zero /\ msg' = [msg EXCEPT ![r] = m]
      /\ pc' = [pc EXCEPT ![r] = "copied"]
      /\ UNCHANGED <<ring, head, tail, used, writer, reader, seen, written>>
  BY DEF PopCopy, AtHead, Goto, mutexes, pipe
<1>2. /\ reader = r /\ seen[r] \in Nat /\ head \in 0 .. seen[r] /\ seen[r] <= tail
      /\ Parse(ring, seen[r])[head] \in Seq(Messages) /\ seen = [seen EXCEPT ![r] = seen[r]]
  BY <1>1, ScanFacts
<1>3. m \in Messages
  BY <1>1, <1>2, GoodStep, TypesOfPipe
<1>4. msg'[r] = m /\ AtHead' = AtHead /\ AtHead = ring[Idx(head)]
  BY <1>1 DEF IndInv, TypeOK, AtHead
<1>5. ReaderMoves(r, "copied")
  BY <1>1, <1>2, <1>3, <1>4, TypesOfPipe DEF ReaderMoves, Labels, Popping
<1>6. Frames' = Frames
  BY <1>1 DEF Frames
<1>7. Framed'
  <2>1. head' <= tail /\ Frames' \in Seq(Messages)
    BY <1>1, <1>6, TypesOfPipe
  <2>2. /\ head' <= seen'[r] /\ seen'[r] <= tail /\ Parse(ring, seen'[r])[head'] \in Seq(Messages)
        /\ head' # seen'[r] /\ AtHead' # Zero /\ msg'[r] = AtHead'[1]
    BY <1>1, <1>2, <1>4, TypesOfPipe
  <2> QED BY <1>5, <2>1, <2>2, FramedByReader
<1>8. Placed'
  BY <1>1, <1>5, PlacedByReader, TypesOfPipe
<1>9. Counted'
  BY <1>1, <1>5, <1>6, CountedByReader
<1>10. Delivered' = Delivered
  BY <1>1, <1>5, DeliveredSame
<1> QED BY <1>5, <1>6, <1>7, <1>8, <1>9, <1>10, ReaderSteps DEF IndInv

\* commit_pop takes the first message of the queue.
LEMMA CommitPopInv ==
  ASSUME IndInv, NEW r \in Readers, commit_pop(r)
  PROVE  /\ IndInv' /\ Frames # <<>> /\ Delivered[r] = None
         /\ Frames' = Tail(Frames) /\ Delivered' = [Delivered EXCEPT ![r] = Head(Frames)]
<1> DEFINE m == ring[Idx(head)][1]
           a == head + FrameLen(m)
<1>1. /\ pc[r] = "copied" /\ head # seen[r] /\ ring[Idx(head)] # Zero /\ msg[r] = m
      /\ head' = a /\ pc' = [pc EXCEPT ![r] = "taken"]
      /\ UNCHANGED <<ring, tail, used, writer, reader, seen, msg, written>>
  BY DEF commit_pop, Goto, mutexes, IndInv, Framed, AtHead
<1>2. /\ reader = r /\ head \in 0 .. tail /\ head # tail
      /\ Parse(ring, tail)[head] = Frames /\ Frames \in Seq(Messages)
      /\ msg = [msg EXCEPT ![r] = msg[r]] /\ seen = [seen EXCEPT ![r] = seen[r]] /\ seen[r] \in Nat
  BY <1>1, ScanFacts
<1>3. /\ m \in Messages /\ a \in head + 1 .. tail /\ Parse(ring, tail)[a] \in Seq(Messages)
      /\ Frames = <<m>> \o Parse(ring, tail)[a]
  <2>1. ring \in Rings /\ tail \in Nat
    BY TypesOfPipe
  <2>2. /\ Parse(ring, tail)[head] \in Seq(Messages) /\ head \in 0 .. tail /\ head # tail
        /\ ring[Idx(head)] # Zero
    BY <1>1, <1>2
  <2>3. /\ m \in Messages /\ a \in head + 1 .. tail /\ Parse(ring, tail)[a] \in Seq(Messages)
        /\ Parse(ring, tail)[head] = <<m>> \o Parse(ring, tail)[a]
    BY <2>1, <2>2, GoodStep, Zenon
  <2> QED BY <1>2, <2>3, Zenon
<1> HIDE DEF m, a
<1>4. a \in Nat /\ head <= a /\ a <= tail
  BY <1>3, TypesOfPipe
<1>5. Frames' = Parse(ring, tail)[a] /\ Frames' \in Seq(Messages)
  BY <1>1, <1>3 DEF Frames
<1>6. Frames # <<>> /\ Head(Frames) = m /\ Tail(Frames) = Frames' /\ Bytes(Frames) = m[2] + Bytes(Frames')
  BY <1>3, <1>5, BytesOfPop
<1>7. ReaderMoves(r, "taken")
  BY <1>1, <1>2, <1>3, <1>4, TypesOfPipe DEF ReaderMoves, Labels, Popping
<1>8. Framed'
  BY <1>1, <1>4, <1>5, <1>7, FramedByReader
<1>9. Placed'
  BY <1>1, <1>4, <1>7, PlacedByReader
<1>10. Counted'
  <2>1. Taken' = m[2] /\ Taken = 0 /\ Uncounted' = Uncounted
    BY <1>1, <1>7, ReaderSteps
  <2>2. \A w \in Writers : pc'[w] = pc[w] /\ msg'[w] = msg[w]
    BY <1>7, ReaderSteps
  <2>3. m[2] \in Nat /\ QueuedBytes \in Nat /\ QueuedBytes' \in Nat /\ QueuedBytes = m[2] + QueuedBytes'
    BY <1>3, <1>5, <1>6, BytesNat, MessageFacts, TypesOfPipe DEF QueuedBytes
  <2>4. QueuedBytes + Taken = QueuedBytes' + Taken'
    BY <2>1, <2>3
  <2>5. used = QueuedBytes + Taken - Uncounted
    BY DEF IndInv, Counted
  <2>6. used' = QueuedBytes' + Taken' - Uncounted'
    <3>1. used' = used /\ Uncounted' = Uncounted
      BY <1>1, <2>1
    <3>2. Uncounted \in Int /\ Taken' \in Int /\ Taken \in Int
      BY <2>1, <2>3, MessageFacts DEF Uncounted, IndInv, TypeOK, Guarded, Pushing
    <3> QED BY <2>3, <2>4, <2>5, <3>1, <3>2
  <2> QED BY <1>1, <2>2, <2>6 DEF IndInv, Counted
<1>11. Delivered' = [Delivered EXCEPT ![r] = Head(Frames)] /\ Delivered[r] = None
  <2>1. Delivered' = [Delivered EXCEPT ![r] = m]
    BY <1>1, <1>7, DeliveredByReader
  <2>2. Delivered[r] = None
    BY <1>1 DEF Delivered
  <2> QED BY <1>6, <2>1, <2>2
<1> QED BY <1>6, <1>7, <1>8, <1>9, <1>10, <1>11, ReaderSteps DEF IndInv

\* The return from pop subtracts the bytes of what it took.
LEMMA UncountInv ==
  ASSUME IndInv, NEW r \in Readers, Uncount(r)
  PROVE  IndInv' /\ Frames' = Frames /\ Delivered' = [Delivered EXCEPT ![r] = None]
<1> DEFINE n == msg[r][2]
<1>1. /\ pc[r] = "taken" /\ used' = used - n /\ pc' = [pc EXCEPT ![r] = "idle"] /\ reader' = Nobody
      /\ msg' = [msg EXCEPT ![r] = None] /\ seen' = [seen EXCEPT ![r] = 0]
      /\ UNCHANGED <<ring, head, tail, writer, written>>
  BY DEF Uncount, Goto
<1>2. reader = r /\ n \in Nat /\ msg'[r] = None /\ seen'[r] = 0
  <2>1. reader = r /\ msg[r] \in Messages
    BY <1>1 DEF IndInv, Guarded, Popping
  <2>2. msg'[r] = None /\ seen'[r] = 0
    BY <1>1 DEF IndInv, TypeOK
  <2> QED BY <2>1, <2>2, MessageFacts
<1> HIDE DEF n
<1>3. head' \in Nat /\ used \in Int /\ used' \in Int /\ used' <= used
  BY <1>1, <1>2, TypesOfPipe
<1>4. ReaderMoves(r, "idle")
  <2>1. msg' = [msg EXCEPT ![r] = msg'[r]] /\ msg'[r] \in {None} \cup Messages
    BY <1>1, <1>2
  <2>2. seen' = [seen EXCEPT ![r] = seen'[r]] /\ seen'[r] \in Nat
    BY <1>1, <1>2, ResetOf
  <2> QED BY <1>1, <1>2, <1>3, <2>1, <2>2 DEF ReaderMoves, Labels, Popping
<1>5. Frames' = Frames /\ QueuedBytes' = QueuedBytes
  BY <1>1 DEF Frames, QueuedBytes
<1>6. Framed'
  BY <1>1, <1>4, <1>5, FramedByReader, TypesOfPipe
<1>7. Placed'
  BY <1>1, <1>4, PlacedByReader, TypesOfPipe
<1>8. Counted'
  <2>1. Taken' = 0 /\ Taken = n /\ Uncounted' = Uncounted
    BY <1>1, <1>4, ReaderSteps DEF n
  <2>2. \A w \in Writers : pc'[w] = pc[w] /\ msg'[w] = msg[w]
    BY <1>4, ReaderSteps
  <2>3. Uncounted \in Int /\ QueuedBytes \in Int /\ Capacity \in Nat
    <3>1. Uncounted \in Int
      BY MessageFacts DEF Uncounted, IndInv, TypeOK, Guarded, Pushing
    <3> QED BY <3>1, TypesOfPipe
  <2>4. used = QueuedBytes + n - Uncounted /\ used <= Capacity
    BY <2>1 DEF IndInv, Counted
  <2>5. used' = QueuedBytes' + Taken' - Uncounted' /\ used' <= Capacity
    BY <1>1, <1>2, <1>3, <1>5, <2>1, <2>3, <2>4
  <2>6. \A w \in Writers : pc'[w] \in Pushing => used' + msg'[w][2] <= Capacity
    <3> SUFFICES ASSUME NEW w \in Writers, pc[w] \in Pushing PROVE used' + msg[w][2] <= Capacity
      BY <2>2
    <3>1. used + msg[w][2] <= Capacity
      BY DEF IndInv, Counted
    <3>2. msg[w][2] \in Nat
      BY MessageFacts DEF IndInv, Guarded
    <3> QED BY <1>3, <2>3, <3>1, <3>2
  <2> QED BY <2>5, <2>6 DEF Counted
<1>9. Delivered' = [Delivered EXCEPT ![r] = None]
  BY <1>4, DeliveredByReader
<1> QED BY <1>4, <1>5, <1>6, <1>7, <1>8, <1>9, ReaderSteps DEF IndInv

----------------------------------------------------------------------------
(* The specification *)

\* The empty ring is the empty queue.
LEMMA InitInv ==
  ASSUME Init
  PROVE  IndInv /\ Queue!Init
<1>1. RingCap \in Nat \ {0} /\ None \in {None} \cup Messages /\ MaxMsgs \in Nat
  BY RingPositive, PipeAssumption
<1>2. TypeOK
  BY <1>1 DEF Init, TypeOK, Zero, Labels
<1>3. ring \in Rings /\ tail = 0 /\ head = 0 /\ head \in 0 .. tail /\ tail \in Nat
  BY <1>2 DEF Init, TypeOK, Rings
<1>4. Frames = <<>>
  BY <1>3, ParseSteps DEF Frames, ParseStep
<1>5. \A t \in Writers \cup Readers \cup {Closer} : pc[t] = "idle"
  BY DEF Init
<1>6. Guarded
  BY <1>5, ThreadsApart DEF Init, Guarded, Pushing, Popping
<1>7. Framed
  BY <1>3, <1>4, <1>5 DEF Framed
<1>8. Placed
  BY <1>5 DEF Placed
<1>9. Counted
  <2>1. Taken = 0 /\ Uncounted = 0 /\ QueuedBytes = 0 /\ used = 0 /\ Capacity \in Nat
    BY <1>4, BytesNat, PipeAssumption DEF Init, Taken, Uncounted, QueuedBytes
  <2> QED BY <1>5, <2>1 DEF Counted, Pushing
<1>10. Queue!Init
  BY <1>4, <1>5 DEF Queue!Init, Delivered
<1> QED BY <1>2, <1>6, <1>7, <1>8, <1>9, <1>10 DEF IndInv

\* A step keeps the invariant, and is a step of the queue or leaves the queue
\* as it is: Publish sends, commit_pop receives, and the return from pop takes
\* the message away.
LEMMA NextInv ==
  ASSUME IndInv, [Next]_vars
  PROVE  IndInv' /\ [Queue!Send \/ Queue!Receive \/ Queue!Return]_<<Frames, Delivered>>
<1>1. ASSUME Quiet PROVE IndInv' /\ UNCHANGED <<Frames, Delivered>>
  BY <1>1, QuietInv
<1>2. ASSUME NEW w \in Writers, Push(w)
      PROVE  IndInv' /\ (Queue!Send \/ UNCHANGED <<Frames, Delivered>>)
  <2>1. CASE Publish(w)
    <3>1. msg[w] \in Messages
      BY <2>1 DEF Publish, IndInv, Guarded, Pushing
    <3> QED BY <2>1, <3>1, PublishInv DEF Queue!Send
  <2>2. CASE ~Publish(w)
    BY <1>2, <2>2, LoadUsedInv, LoadHeadInv, SentinelInv, WrapInv, WriteFrameInv, CountInv DEF Push
  <2> QED BY <2>1, <2>2
<1>3. ASSUME NEW r \in Readers, Pop(r)
      PROVE  IndInv' /\ (Queue!Receive \/ Queue!Return \/ UNCHANGED <<Frames, Delivered>>)
  <2>1. CASE commit_pop(r)
    BY <2>1, CommitPopInv DEF Queue!Receive
  <2>2. CASE Uncount(r)
    BY <2>2, UncountInv DEF Queue!Return
  <2>3. CASE ~commit_pop(r) /\ ~Uncount(r)
    BY <1>3, <2>3, PopLoadInv, PopEmptyInv, PopSkipInv, PopCopyInv DEF Pop
  <2> QED BY <2>1, <2>2, <2>3
<1>4. \/ \E w \in Writers : (\E n \in Lens : Write(w, n)) \/ Push(w) \/ wake_readers(w)
      \/ \E r \in Readers : Read(r) \/ Pop(r) \/ EnterWait(r) \/ Resume(r) \/ TimeOut(r)
      \/ Destroy \/ Close \/ wake_all
      \/ UNCHANGED vars
  BY DEF Next, Over
<1>5. \/ Quiet
      \/ \E w \in Writers : Push(w)
      \/ \E r \in Readers : Pop(r)
  BY <1>4, WriteQuiet, WakeReadersQuiet, ReaderMovesQuiet, CloserMovesQuiet, StutterQuiet
<1> QED BY <1>1, <1>2, <1>3, <1>5

\* The invariant of the pipe: whole frames between head and tail, a free place
\* for the writer, and a counter that is off by the messages under way only.
THEOREM PipeInvariant == Spec => []IndInv
<1>1. Init => IndInv
  BY InitInv
<1>2. IndInv /\ [Next]_vars => IndInv'
  BY NextInv
<1> QED BY <1>1, <1>2, PTL DEF Spec

\* used_bytes, the counter that push checks against the capacity, is never less
\* than the payload bytes in the ring and never more than the capacity, except
\* while a push is between its check and its update.
THEOREM UsedBytesCoverRing == Spec => []UsedCoversRing
<1>1. IndInv => UsedCoversRing
  <2> SUFFICES ASSUME IndInv, writer = Nobody PROVE used \in QueuedBytes .. Capacity
    BY DEF UsedCoversRing
  <2>1. Taken \in Nat /\ Uncounted = 0
    BY MessageFacts DEF Taken, Uncounted, IndInv, TypeOK, Guarded
  <2>2. used = QueuedBytes + Taken - Uncounted /\ used <= Capacity
    BY DEF IndInv, Counted
  <2> QED BY <2>1, <2>2, TypesOfPipe
<1> QED BY <1>1, PipeInvariant, PTL

\* Whatever the wraps of the ring and the interleaving of the threads, the
\* pipe is a FIFO queue of whole messages.
THEOREM PipeIsQueue == Spec => ImplementsQueue
<1>1. Init => IndInv /\ Queue!Init
  BY InitInv
<1>2. IndInv /\ [Next]_vars =>
        IndInv' /\ [Queue!Send \/ Queue!Receive \/ Queue!Return]_<<Frames, Delivered>>
  BY NextInv
<1> QED BY <1>1, <1>2, PTL DEF Spec, ImplementsQueue, Queue!Spec
=============================================================================
