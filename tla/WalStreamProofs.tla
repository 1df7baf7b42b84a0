--------------------------- MODULE WalStreamProofs ---------------------------
(***************************************************************************)
(* Proofs about WalStream, for any nodes, any segment size, window and     *)
(* retention, and any number of appends, crashes, snapshots and lost       *)
(* answers: where every entry is (EveryEntryPlaced), that the blob of an   *)
(* indexed segment exists (IndexedBlobsExist) and what a reader is told    *)
(* (NoFalseEmpty).                                                         *)
(***************************************************************************)
EXTENDS WalStream, FiniteSetTheorems, WellFoundedInduction, TLAPS

----------------------------------------------------------------------------
(* Numbers *)

\* Induction on the naturals, for a set.
LEMMA NaturalsByStep ==
  ASSUME NEW T \in SUBSET Nat, 0 \in T, \A n \in T : n + 1 \in T
  PROVE  T = Nat
<1> DEFINE R == OpToRel(<, Nat)
           D == Nat \ T
<1>1. IsWellFoundedOn(R, Nat)
  BY NatLessThanWellFounded
<1>2. SUFFICES ASSUME D # {} PROVE FALSE
  OBVIOUS
<1>3. PICK x \in D : \A y \in D : ~(<<y, x>> \in R)
  <2>1. D \subseteq Nat
    OBVIOUS
  <2> HIDE DEF R, D
  <2> QED BY <1>1, <1>2, <2>1, WFMin
<1>4. x # 0 /\ x - 1 \in Nat
  OBVIOUS
<1>5. <<x - 1, x>> \in R
  BY <1>4 DEF OpToRel
<1>6. x - 1 \in T
  BY <1>3, <1>4, <1>5
<1> QED BY <1>6, <1>4

\* A set of naturals that is bounded and not empty has a greatest element.
LEMMA GreatestExists ==
  ASSUME NEW S \in SUBSET Nat, S # {}, NEW b \in Nat, \A x \in S : x <= b
  PROVE  \E x \in S : \A y \in S : y <= x
<1> DEFINE T == {n \in Nat : (\E x \in S : b - n <= x) => \E x \in S : \A y \in S : y <= x}
<1>1. 0 \in T
  OBVIOUS
<1>2. ASSUME NEW n \in T PROVE n + 1 \in T
  <2>1. CASE \E x \in S : b - n <= x
    BY <1>2, <2>1
  <2>2. CASE ~\E x \in S : b - n <= x
    <3>1. \A y \in S : y <= b - (n + 1)
      BY <2>2
    <3> QED BY <3>1
  <2> QED BY <2>1, <2>2
<1>3. T = Nat
  <2>1. T \in SUBSET Nat
    OBVIOUS
  <2> HIDE DEF T
  <2> QED BY <1>1, <1>2, <2>1, NaturalsByStep
<1>4. b \in T
  BY <1>3
<1>5. \E x \in S : b - b <= x
  <2>1. PICK x \in S : TRUE
    OBVIOUS
  <2>2. x \in Nat /\ b - b <= x
    OBVIOUS
  <2> QED BY <2>2
<1> QED BY <1>4, <1>5

\* Multiples of the batch are a batch apart.
LEMMA AlignedNumbers ==
  /\ Aligned(0)
  /\ \A x \in Nat : Aligned(x) => Aligned(x + SealBatch)
  /\ \A x, y \in Nat : Aligned(x) /\ Aligned(y) /\ x < y => x + SealBatch <= y
<1> USE StreamAssumption
<1>1. Aligned(0)
  BY DEF Aligned
<1>2. ASSUME NEW x \in Nat, Aligned(x) PROVE Aligned(x + SealBatch)
  <2>1. PICK i \in 0 .. x : x = i * SealBatch
    BY <1>2 DEF Aligned
  <2>2. x + SealBatch = (i + 1) * SealBatch
    BY <2>1
  <2>3. i + 1 \in 0 .. (x + SealBatch)
    OBVIOUS
  <2> QED BY <2>2, <2>3 DEF Aligned
<1>3. ASSUME NEW x \in Nat, NEW y \in Nat, Aligned(x), Aligned(y), x < y
      PROVE  x + SealBatch <= y
  <2>1. PICK i \in 0 .. x : x = i * SealBatch
    BY <1>3 DEF Aligned
  <2>2. PICK j \in 0 .. y : y = j * SealBatch
    BY <1>3 DEF Aligned
  <2>3. i < j
    <3> SUFFICES ASSUME j <= i PROVE FALSE
      OBVIOUS
    <3>1. PICK d \in Nat : i = j + d
      <4>1. i - j \in Nat /\ i = j + (i - j)
        OBVIOUS
      <4> QED BY <4>1
    <3>2. x = y + d * SealBatch /\ d * SealBatch \in Nat
      BY <2>1, <2>2, <3>1
    <3> QED BY <1>3, <3>2
  <2>4. PICK d \in Nat : j = i + 1 + d
    <3>1. j - i - 1 \in Nat /\ j = i + 1 + (j - i - 1)
      BY <2>3
    <3> QED BY <3>1
  <2>5. y = x + SealBatch + d * SealBatch /\ d * SealBatch \in Nat
    BY <2>1, <2>2, <2>4
  <2> QED BY <2>5
<1> QED BY <1>1, <1>2, <1>3

----------------------------------------------------------------------------
(* The tables after a log *)

IsReplay(f, l, n) ==
  f = [i \in 0 .. n |-> IF i = 0 THEN Empty ELSE Apply(f[i - 1], l[i])]

LEMMA ReplayExists ==
  ASSUME NEW l, Len(l) \in Nat
  PROVE  \E f : IsReplay(f, l, Len(l))
<1> DEFINE T == {n \in Nat : \E f : IsReplay(f, l, n)}
<1>1. 0 \in T
  <2> DEFINE f == [i \in 0 .. 0 |-> Empty]
  <2>1. f = [i \in 0 .. 0 |-> IF i = 0 THEN Empty ELSE Apply(f[i - 1], l[i])]
    OBVIOUS
  <2>2. IsReplay(f, l, 0)
    BY <2>1 DEF IsReplay
  <2> QED BY <2>2
<1>2. ASSUME NEW n \in T PROVE n + 1 \in T
  <2>1. PICK f : IsReplay(f, l, n)
    BY <1>2
  <2> DEFINE g == [i \in 0 .. n + 1 |-> IF i = n + 1 THEN Apply(f[n], l[i]) ELSE f[i]]
             h == [i \in 0 .. n + 1 |-> IF i = 0 THEN Empty ELSE Apply(g[i - 1], l[i])]
  <2>2. ASSUME NEW i \in 0 .. n + 1 PROVE g[i] = h[i]
    <3>1. CASE i = n + 1
      BY <3>1
    <3>2. CASE i = 0
      BY <2>1, <3>2 DEF IsReplay
    <3>3. CASE i # 0 /\ i # n + 1
      <4>1. i - 1 \in 0 .. n /\ i \in 0 .. n /\ i - 1 # n + 1 /\ i - 1 \in 0 .. n + 1
        BY <3>3
      <4>2. g[i] = f[i] /\ g[i - 1] = f[i - 1]
        BY <3>3, <4>1
      <4>3. f[i] = Apply(f[i - 1], l[i])
        BY <2>1, <3>3, <4>1 DEF IsReplay
      <4> QED BY <3>3, <4>2, <4>3
    <3> QED BY <3>1, <3>2, <3>3
  <2>3. g = h
    BY <2>2
  <2>4. IsReplay(g, l, n + 1)
    BY <2>3 DEF IsReplay
  <2> HIDE DEF g
  <2> QED BY <2>4
<1>3. T = Nat
  <2>1. T \in SUBSET Nat
    OBVIOUS
  <2> HIDE DEF T
  <2> QED BY <1>1, <1>2, <2>1, NaturalsByStep
<1> QED BY <1>3

LEMMA ReplaySteps ==
  ASSUME NEW l, Len(l) \in Nat
  PROVE  /\ Replay(l)[0] = Empty
         /\ \A i \in 1 .. Len(l) : Replay(l)[i] = Apply(Replay(l)[i - 1], l[i])
<1>1. Replay(l) = CHOOSE f : IsReplay(f, l, Len(l))
  BY DEF Replay, IsReplay
<1>2. IsReplay(Replay(l), l, Len(l))
  BY <1>1, ReplayExists
<1> QED BY <1>2 DEF IsReplay

\* A longer log begins with the tables of the shorter one.
LEMMA ReplayAppend ==
  ASSUME NEW l \in Seq(Command), NEW c \in Command
  PROVE  /\ Len(Append(l, c)) = Len(l) + 1
         /\ \A i \in 0 .. Len(l) : Replay(Append(l, c))[i] = Replay(l)[i]
         /\ Replay(Append(l, c))[Len(l) + 1] = Apply(Replay(l)[Len(l)], c)
<1> DEFINE m == Append(l, c)
           T == {n \in Nat : n <= Len(l) => Replay(m)[n] = Replay(l)[n]}
<1>1. /\ Len(l) \in Nat /\ Len(m) = Len(l) + 1 /\ m[Len(l) + 1] = c
      /\ \A i \in 1 .. Len(l) : m[i] = l[i]
  OBVIOUS
<1> HIDE DEF m
<1>2. /\ Replay(m)[0] = Empty /\ Replay(l)[0] = Empty
      /\ \A i \in 1 .. Len(l) : Replay(l)[i] = Apply(Replay(l)[i - 1], l[i])
      /\ \A i \in 1 .. Len(l) + 1 : Replay(m)[i] = Apply(Replay(m)[i - 1], m[i])
  BY <1>1, ReplaySteps
<1>3. 0 \in T
  BY <1>2
<1>4. ASSUME NEW n \in T PROVE n + 1 \in T
  <2> SUFFICES ASSUME n + 1 <= Len(l) PROVE Replay(m)[n + 1] = Replay(l)[n + 1]
    OBVIOUS
  <2>1. n + 1 \in 1 .. Len(l) /\ n + 1 \in 1 .. Len(l) + 1 /\ (n + 1) - 1 = n /\ n <= Len(l)
    BY <1>1
  <2>2. Replay(m)[n] = Replay(l)[n]
    BY <2>1
  <2>3. /\ Replay(l)[n + 1] = Apply(Replay(l)[n], l[n + 1])
        /\ Replay(m)[n + 1] = Apply(Replay(m)[n], m[n + 1])
    BY <1>2, <2>1
  <2> QED BY <1>1, <2>1, <2>2, <2>3
<1>5. T = Nat
  <2>1. T \in SUBSET Nat
    OBVIOUS
  <2> HIDE DEF T
  <2> QED BY <1>3, <1>4, <2>1, NaturalsByStep
<1>6. \A i \in 0 .. Len(l) : Replay(m)[i] = Replay(l)[i]
  BY <1>1, <1>5
<1>7. Replay(m)[Len(l) + 1] = Apply(Replay(m)[Len(l)], m[Len(l) + 1])
  <2>1. Len(l) + 1 \in 1 .. Len(l) + 1 /\ (Len(l) + 1) - 1 = Len(l)
    BY <1>1
  <2> QED BY <1>2, <2>1
<1> QED BY <1>1, <1>6, <1>7 DEF m

----------------------------------------------------------------------------
(* What a command does to the tables *)

Grown(s, t, c) ==
  /\ Laid(t) /\ s.floor <= t.floor /\ s.earliest <= t.earliest
  /\ c.type = "trim" /\ c.up_to <= s.floor => c.up_to <= t.earliest
  /\ \A g \in t.segs : \/ g \in s.segs
                       \/ c.type = "seal" /\ g = <<c.base, c.end, c.origin>> /\ c.base = s.floor

LEMMA UnchangedGrown ==
  ASSUME NEW s, Laid(s), NEW c, c.type = "trim" => c.up_to \in Nat /\ ~(s.earliest < c.up_to /\ c.up_to <= s.floor)
  PROVE  Grown(s, s, c)
<1>1. s.floor \in Nat /\ s.earliest \in Nat
  BY DEF Laid, Tables
<1> QED BY <1>1 DEF Grown

LEMMA AppendGrown ==
  ASSUME NEW s, Laid(s), NEW c, c.type = "append"
  PROVE  Grown(s, AppendStreamEntry(s), c)
<1> DEFINE t == AppendStreamEntry(s)
<1>1. s \in Tables /\ s.rows = s.floor .. s.tail - 1 /\ s.floor <= s.tail
  BY DEF Laid
<1>2. /\ t \in Tables /\ t.floor = s.floor /\ t.earliest = s.earliest /\ t.segs = s.segs
      /\ t.tail = s.tail + 1 /\ t.rows = s.rows \cup {s.tail}
  <2>1. t = [s EXCEPT !.rows = s.rows \cup {s.tail}, !.tail = s.tail + 1]
    BY DEF AppendStreamEntry
  <2>2. s.rows \cup {s.tail} \in SUBSET Nat /\ s.tail + 1 \in Nat
    BY <1>1 DEF Tables
  <2> HIDE DEF t
  <2> QED BY <1>1, <2>1, <2>2 DEF Tables
<1>3. s.floor \in Nat /\ s.tail \in Nat /\ s.earliest \in Nat
  BY <1>1 DEF Tables
<1>4. t.rows = t.floor .. t.tail - 1 /\ t.floor <= t.tail
  <2>1. (s.floor .. s.tail - 1) \cup {s.tail} = s.floor .. (s.tail + 1) - 1
    BY <1>1, <1>3
  <2> QED BY <1>1, <1>2, <1>3, <2>1
<1> HIDE DEF t
<1>5. Laid(t)
  BY <1>2, <1>4 DEF Laid
<1> QED BY <1>2, <1>3, <1>5 DEF Grown, t

LEMMA SealGrown ==
  ASSUME NEW s, Laid(s), NEW c \in Command, c.type = "seal", Sound(c)
  PROVE  Grown(s, SealStreamSegment(s, c), c)
<1> USE StreamAssumption
<1>1. c.base \in Nat /\ c.origin \in Nodes /\ c.end = c.base + SealBatch /\ Aligned(c.base)
  BY DEF Command, Sound
<1>2. CASE SealRefused(s, c)
  BY <1>2, UnchangedGrown DEF SealStreamSegment
<1>3. CASE ~SealRefused(s, c)
  <2> DEFINE t == SealStreamSegment(s, c)
             new == <<c.base, c.end, c.origin>>
  <2>1. /\ s \in Tables /\ s.rows = s.floor .. s.tail - 1 /\ s.floor <= s.tail
        /\ s.earliest <= s.floor
        /\ \A g \in s.segs : g \in Segment /\ g[2] = g[1] + SealBatch /\ g[2] <= s.floor
    BY DEF Laid, Tables
  <2>2. s.floor \in Nat /\ s.tail \in Nat /\ s.earliest \in Nat
    BY <2>1 DEF Tables
  <2>3. c.base = s.floor /\ c.end <= s.tail
    BY <1>1, <1>3, <2>2 DEF SealRefused
  <2>4. new \in Segment /\ new[1] = s.floor /\ new[2] = s.floor + SealBatch
    BY <1>1, <2>3 DEF Segment
  <2> HIDE DEF new
  <2>5. /\ t \in Tables /\ t.floor = c.end /\ t.earliest = s.earliest /\ t.tail = s.tail
        /\ t.segs = s.segs \cup {new} /\ t.rows = s.rows \ (c.base .. c.end - 1)
    <3>1. t = [s EXCEPT !.segs = s.segs \cup {new}, !.rows = s.rows \ (c.base .. c.end - 1),
                        !.floor = c.end]
      BY <1>3 DEF SealStreamSegment, new
    <3>2. /\ s.segs \cup {new} \in SUBSET Segment /\ c.end \in Nat
          /\ s.rows \ (c.base .. c.end - 1) \in SUBSET Nat
      BY <1>1, <2>1, <2>4 DEF Tables
    <3> HIDE DEF t
    <3> QED BY <2>1, <3>1, <3>2 DEF Tables
  <2> HIDE DEF t
  <2>6. t.rows = t.floor .. t.tail - 1
    <3>1. (s.floor .. s.tail - 1) \ (s.floor .. (s.floor + SealBatch) - 1)
            = (s.floor + SealBatch) .. s.tail - 1
      BY <2>2
    <3> QED BY <1>1, <2>1, <2>3, <2>5, <3>1
  <2>7. Aligned(t.floor) /\ Aligned(t.earliest)
    BY <1>1, <2>5, AlignedNumbers DEF Laid
  <2>8. \A g \in t.segs : /\ Aligned(g[1]) /\ g[2] = g[1] + SealBatch
                          /\ t.earliest <= g[1] /\ g[2] <= t.floor
    <3> TAKE g \in t.segs
    <3>1. CASE g = new
      BY <1>1, <2>1, <2>2, <2>3, <2>4, <2>5, <3>1
    <3>2. CASE g \in s.segs
      <4>1. /\ Aligned(g[1]) /\ g[2] = g[1] + SealBatch /\ s.earliest <= g[1]
            /\ g[2] <= s.floor /\ g[2] \in Nat
        BY <3>2, <2>1 DEF Laid, Segment
      <4> QED BY <1>1, <2>2, <2>3, <2>5, <4>1
    <3> QED BY <2>5, <3>1, <3>2
  <2>9. \A g, h \in t.segs : g[1] = h[1] => g = h
    <3>1. \A g \in s.segs : g[1] # new[1]
      BY <2>1, <2>2, <2>4 DEF Segment
    <3> QED BY <2>5, <3>1 DEF Laid
  <2>10. \A q \in t.earliest .. t.floor - 1 : \E g \in t.segs : g[1] <= q /\ q < g[2]
    <3> TAKE q \in t.earliest .. t.floor - 1
    <3>1. CASE q < s.floor
      <4>1. q \in s.earliest .. s.floor - 1
        BY <2>2, <2>5, <3>1
      <4> QED BY <2>5, <4>1 DEF Laid
    <3>2. CASE ~(q < s.floor)
      <4>1. s.floor <= q /\ q < s.floor + SealBatch
        BY <1>1, <2>2, <2>3, <2>5, <3>2
      <4> QED BY <2>4, <2>5, <4>1
    <3> QED BY <3>1, <3>2
  <2>11. t.earliest <= t.floor /\ t.floor <= t.tail /\ s.floor <= t.floor /\ s.earliest <= t.earliest
    BY <1>1, <2>1, <2>2, <2>3, <2>5
  <2>12. Laid(t)
    BY <2>5, <2>6, <2>7, <2>8, <2>9, <2>10, <2>11 DEF Laid
  <2> QED BY <2>3, <2>5, <2>11, <2>12 DEF Grown, t, new
<1> QED BY <1>2, <1>3

LEMMA TrimGrown ==
  ASSUME NEW s, Laid(s), NEW c \in Command, c.type = "trim", Sound(c)
  PROVE  Grown(s, TrimStreamSegment(s, c), c)
<1> USE StreamAssumption
<1>1. c.up_to \in Nat /\ Aligned(c.up_to)
  BY DEF Command, Sound
<1>2. /\ s \in Tables /\ s.earliest \in Nat /\ s.floor \in Nat
      /\ \A g \in s.segs : g \in Segment /\ g[1] \in Nat /\ g[2] \in Nat
  BY DEF Laid, Tables, Segment
<1>3. CASE TrimRefused(s, c)
  <2>1. ~(s.earliest < c.up_to /\ c.up_to <= s.floor)
    BY <1>1, <1>2, <1>3 DEF TrimRefused
  <2> QED BY <1>1, <1>3, <2>1, UnchangedGrown DEF TrimStreamSegment
<1>4. CASE ~TrimRefused(s, c)
  <2> DEFINE t == TrimStreamSegment(s, c)
  <2>1. s.earliest < c.up_to /\ c.up_to <= s.floor
    BY <1>1, <1>2, <1>4 DEF TrimRefused
  <2>2. /\ t \in Tables /\ t.floor = s.floor /\ t.earliest = c.up_to /\ t.tail = s.tail
        /\ t.segs = {g \in s.segs : g[2] > c.up_to} /\ t.rows = s.rows
    BY <1>1, <1>2, <1>4 DEF TrimStreamSegment, Tables
  <2> HIDE DEF t
  <2>3. \A g \in t.segs : /\ Aligned(g[1]) /\ g[2] = g[1] + SealBatch
                          /\ t.earliest <= g[1] /\ g[2] <= t.floor
    <3> TAKE g \in t.segs
    <3>1. Aligned(g[1]) /\ g[2] = g[1] + SealBatch /\ g[2] <= s.floor /\ g[1] \in Nat
          /\ g[2] > c.up_to
      BY <1>2, <2>2 DEF Laid
    <3>2. ~(g[1] < c.up_to)
      BY <1>1, <3>1, AlignedNumbers
    <3> QED BY <1>1, <2>2, <3>1, <3>2
  <2>4. \A q \in t.earliest .. t.floor - 1 : \E g \in t.segs : g[1] <= q /\ q < g[2]
    <3> TAKE q \in t.earliest .. t.floor - 1
    <3>1. q \in s.earliest .. s.floor - 1 /\ c.up_to <= q
      BY <1>1, <1>2, <2>1, <2>2
    <3>2. PICK g \in s.segs : g[1] <= q /\ q < g[2]
      BY <3>1 DEF Laid
    <3>3. g \in t.segs
      BY <1>1, <1>2, <2>2, <3>1, <3>2
    <3> QED BY <3>2, <3>3
  <2>5. Laid(t)
    BY <1>1, <1>2, <2>1, <2>2, <2>3, <2>4 DEF Laid
  <2> QED BY <1>1, <1>2, <2>1, <2>2, <2>5 DEF Grown, t
<1> QED BY <1>3, <1>4

LEMMA ApplyGrown ==
  ASSUME NEW s, Laid(s), NEW c \in Command, Sound(c)
  PROVE  Grown(s, Apply(s, c), c)
<1>1. c.type \in {"append", "seal", "trim"}
  BY DEF Command
<1> QED BY <1>1, AppendGrown, SealGrown, TrimGrown DEF Apply

\* The entry in one place, as EveryEntryPlaced says it.
LEMMA LaidPlaced ==
  ASSUME NEW s, Laid(s), NEW q \in 0 .. s.tail - 1
  PROVE  Cardinality({g \in s.segs : g[1] <= q /\ q < g[2]}) =
           IF s.earliest <= q /\ q < s.floor THEN 1 ELSE 0
<1> DEFINE C == {g \in s.segs : g[1] <= q /\ q < g[2]}
<1> USE StreamAssumption
<1>1. /\ s.earliest \in Nat /\ s.floor \in Nat /\ s.tail \in Nat /\ q \in Nat
      /\ \A g \in s.segs : /\ g[1] \in Nat /\ g[2] = g[1] + SealBatch /\ Aligned(g[1])
                           /\ s.earliest <= g[1] /\ g[2] <= s.floor
  BY DEF Laid, Tables, Segment
<1>2. CASE s.earliest <= q /\ q < s.floor
  <2>1. PICK g \in C : TRUE
    BY <1>1, <1>2 DEF Laid
  <2>2. ASSUME NEW h \in C PROVE h = g
    <3>1. g[1] = h[1]
      BY <1>1, AlignedNumbers
    <3> QED BY <3>1 DEF Laid
  <2>3. C = {g}
    BY <2>1, <2>2
  <2> QED BY <1>2, <2>3, FS_Singleton
<1>3. CASE ~(s.earliest <= q /\ q < s.floor)
  <2>1. C = {}
    BY <1>1, <1>3
  <2> QED BY <1>3, <2>1, FS_EmptySet
<1> QED BY <1>2, <1>3

----------------------------------------------------------------------------
(* The invariant as the steps use it *)

\* Replicas and the leader have laid-out tables, and replicas are not ahead.
LEMMA TablesLaid ==
  ASSUME StreamInv
  PROVE  /\ Laid(Leader) /\ Leader.floor \in Nat /\ Leader.earliest \in Nat
         /\ Leader.earliest <= Leader.floor
         /\ \A n \in Nodes : /\ Laid(st[n]) /\ st[n].floor \in Nat /\ st[n].earliest \in Nat
                             /\ st[n].floor <= Leader.floor /\ st[n].earliest <= Leader.earliest
<1>1. Len(log) \in Nat /\ Len(log) \in 0 .. Len(log)
  BY DEF StreamInv, TypeOK
<1>2. \A n \in Nodes : done[n] \in 0 .. Len(log) /\ st[n] = Replay(log)[done[n]]
  BY <1>1 DEF StreamInv, TypeOK, Copies
<1>3. Laid(Leader)
  BY <1>1 DEF StreamInv, PrefixesLaid, Leader
<1>4. \A n \in Nodes : Laid(st[n]) /\ st[n].floor <= Leader.floor /\ st[n].earliest <= Leader.earliest
  BY <1>2 DEF StreamInv, PrefixesLaid
<1>5. \A s : Laid(s) => s.floor \in Nat /\ s.earliest \in Nat /\ s.earliest <= s.floor
  BY DEF Laid, Tables
<1> QED BY <1>3, <1>4, <1>5

\* The parts that only the log, the replicas and the blobs decide.
TablesOK == PrefixesLaid /\ Copies /\ LogSound

LEMMA SameTables ==
  ASSUME TablesOK, UNCHANGED <<log, done, st>>
  PROVE  TablesOK' /\ Leader' = Leader
<1>1. Leader' = Leader
  BY DEF Leader
<1> QED BY <1>1 DEF TablesOK, PrefixesLaid, Copies, LogSound

LEMMA SameThreads ==
  ASSUME FlightSound, ThreadsSound, IndexedBlobsExist, UNCHANGED <<flight, seal, gc, blobs>>,
         Leader' = Leader
  PROVE  FlightSound' /\ ThreadsSound' /\ IndexedBlobsExist'
BY DEF FlightSound, ThreadsSound, IndexedBlobsExist, Stored

LEMMA SameReaders ==
  ASSUME ReadersKnow, NoFalseEmpty, UNCHANGED <<st, read>>
  PROVE  ReadersKnow' /\ NoFalseEmpty'
BY DEF ReadersKnow, NoFalseEmpty

\* A command that may be committed extends the log.
LEMMA LogGrows ==
  ASSUME StreamInv, NEW c \in Command, Sound(c), c.type = "trim" => c.up_to <= Leader.floor,
         log' = Append(log, c), UNCHANGED <<done, st>>
  PROVE  log' \in Seq(Command) /\ TablesOK' /\ Grown(Leader, Leader', c)
<1>1. log \in Seq(Command) /\ Len(log) \in Nat
  BY DEF StreamInv, TypeOK
<1>2. /\ Len(log') = Len(log) + 1
      /\ \A i \in 0 .. Len(log) : Replay(log')[i] = Replay(log)[i]
      /\ Replay(log')[Len(log) + 1] = Apply(Replay(log)[Len(log)], c)
  BY <1>1, ReplayAppend
<1>3. Leader' = Apply(Leader, c)
  BY <1>2 DEF Leader
<1>4. Grown(Leader, Leader', c)
  BY <1>3, TablesLaid, ApplyGrown
<1>5. /\ Laid(Leader') /\ Leader'.floor \in Nat /\ Leader'.earliest \in Nat
      /\ Leader.floor <= Leader'.floor /\ Leader.earliest <= Leader'.earliest
      /\ Leader.floor \in Nat /\ Leader.earliest \in Nat
      /\ c.type = "trim" => c.up_to <= Leader'.earliest
  BY <1>4, TablesLaid DEF Grown, Laid, Tables
<1>6. PrefixesLaid'
  <2> SUFFICES ASSUME NEW i \in 0 .. Len(log) + 1
               PROVE  /\ Laid(Replay(log')[i])
                      /\ Replay(log')[i].floor <= Leader'.floor
                      /\ Replay(log')[i].earliest <= Leader'.earliest
    BY <1>2 DEF PrefixesLaid
  <2>1. CASE i = Len(log) + 1
    <3>1. Replay(log')[i] = Leader'
      BY <1>2, <2>1 DEF Leader
    <3> QED BY <1>5, <3>1
  <2>2. CASE i # Len(log) + 1
    <3>1. i \in 0 .. Len(log)
      BY <1>1, <2>2
    <3>2. /\ Laid(Replay(log)[i]) /\ Replay(log)[i].floor <= Leader.floor
          /\ Replay(log)[i].earliest <= Leader.earliest
      BY <3>1 DEF StreamInv, PrefixesLaid
    <3>3. Replay(log)[i].floor \in Nat /\ Replay(log)[i].earliest \in Nat
      BY <3>2 DEF Laid, Tables
    <3> QED BY <1>2, <1>5, <3>1, <3>2, <3>3
  <2> QED BY <2>1, <2>2
<1>7. Copies'
  <2> SUFFICES ASSUME NEW n \in Nodes
               PROVE  done[n] <= Len(log) + 1 /\ st[n] = Replay(log')[done[n]]
    BY <1>2 DEF Copies
  <2>1. done[n] \in 0 .. Len(log) /\ st[n] = Replay(log)[done[n]]
    BY <1>1 DEF StreamInv, TypeOK, Copies
  <2> QED BY <1>1, <1>2, <2>1
<1>8. LogSound'
  <2> SUFFICES ASSUME NEW i \in 1 .. Len(log) + 1
               PROVE  /\ Sound(log'[i])
                      /\ log'[i].type = "trim" => log'[i].up_to <= Leader'.earliest
    BY <1>2 DEF LogSound
  <2>1. CASE i = Len(log) + 1
    <3>1. log'[i] = c
      BY <1>1, <2>1
    <3> QED BY <1>5, <3>1
  <2>2. CASE i # Len(log) + 1
    <3>1. i \in 1 .. Len(log) /\ log'[i] = log[i] /\ log[i] \in Command
      BY <1>1, <2>2
    <3>2. Sound(log[i]) /\ (log[i].type = "trim" => log[i].up_to <= Leader.earliest)
      BY <3>1 DEF StreamInv, LogSound
    <3>3. log[i].type = "trim" => log[i].up_to \in Nat
      BY <3>1 DEF Command
    <3> QED BY <1>5, <3>1, <3>2, <3>3
  <2> QED BY <2>1, <2>2
<1>9. log' \in Seq(Command)
  BY <1>1
<1> QED BY <1>4, <1>6, <1>7, <1>8, <1>9 DEF TablesOK

\* Blobs that were kept for a seal, and trims in flight, when the log grows.
LEMMA FlightKept ==
  ASSUME StreamInv, UNCHANGED <<blobs, gc>>, flight' \subseteq flight,
         Leader'.floor \in Nat, Leader'.earliest \in Nat,
         Leader.floor <= Leader'.floor, Leader.earliest <= Leader'.earliest,
         \A n \in Nodes : /\ Aligned(seal'[n].base)
                          /\ seal'[n].pc = "propose" => seal[n] = seal'[n]
  PROVE  FlightSound' /\ ThreadsSound'
<1>1. Leader.floor \in Nat /\ Leader.earliest \in Nat
  BY TablesLaid
<1>2. \A b \in Nat : b < Leader.earliest => b < Leader'.earliest
  BY <1>1
<1>3. \A n \in Nodes, b \in Nat : Stored(n, b) => Stored(n, b)'
  BY <1>2 DEF Stored
<1>4. FlightSound'
  <2> SUFFICES ASSUME NEW c \in flight'
               PROVE  /\ Sound(c)
                      /\ c.type = "seal" => Stored(c.origin, c.base)'
                      /\ c.type = "trim" => c.up_to <= Leader'.floor
    BY DEF FlightSound, Sound, Aligned, Stored
  <2>1. /\ c \in Command /\ Sound(c) /\ (c.type = "seal" => Stored(c.origin, c.base))
        /\ c.type = "trim" => c.up_to <= Leader.floor
    BY DEF StreamInv, TypeOK, FlightSound
  <2>2. /\ c.type = "seal" => c.origin \in Nodes /\ c.base \in Nat
        /\ c.type = "trim" => c.up_to \in Nat
    BY <2>1 DEF Command
  <2> QED BY <1>1, <1>3, <2>1, <2>2
<1>5. ThreadsSound'
  <2> SUFFICES ASSUME NEW n \in Nodes
               PROVE  /\ Aligned(seal'[n].base)
                      /\ seal'[n].pc = "propose" => (seal'[n].base \in blobs'[n] \/ seal'[n].base < Leader'.earliest)
                      /\ \A b \in gc'[n] : b < Leader'.earliest
    BY DEF ThreadsSound, Aligned, Stored
  <2>1. /\ seal[n].pc = "propose" => Stored(n, seal[n].base)
        /\ \A b \in gc[n] : b < Leader.earliest /\ b \in Nat
        /\ seal[n].base \in Nat
    BY DEF StreamInv, TypeOK, ThreadsSound
  <2>2. \A b \in gc'[n] : b < Leader'.earliest
    BY <1>2, <2>1
  <2>3. seal'[n].pc = "propose" => (seal'[n].base \in blobs'[n] \/ seal'[n].base < Leader'.earliest)
    <3> SUFFICES ASSUME seal'[n].pc = "propose" PROVE seal'[n].base \in blobs'[n] \/ seal'[n].base < Leader'.earliest
      OBVIOUS
    <3>1. seal'[n] = seal[n] /\ Stored(n, seal[n].base)
      BY <2>1
    <3> QED BY <1>3, <2>1, <3>1 DEF Stored
  <2> QED BY <2>2, <2>3
<1> QED BY <1>4, <1>5

----------------------------------------------------------------------------
(* Appends, commits and the seal thread *)

SealThread ==
  [pc : {"off", "floor", "tail", "frames", "propose", "sealing", "trim", "trimming"}, base : Nat]

LEMMA PushInv ==
  ASSUME StreamInv, NEW n \in Nodes, Push(n)
  PROVE  StreamInv'
<1> DEFINE c == [type |-> "append"]
<1>1. /\ log' = Append(log, c) /\ (seal' = seal \/ seal' = [seal EXCEPT ![n].pc = "floor"])
      /\ UNCHANGED <<done, st, blobs, gc, flight, known, cache, read>>
  BY DEF Push
<1>2. c \in Command /\ c.type = "append" /\ Sound(c)
  BY DEF Command, Sound
<1> HIDE DEF c
<1>3. log' \in Seq(Command) /\ TablesOK' /\ Grown(Leader, Leader', c)
  BY <1>1, <1>2, LogGrows
<1>4. /\ Leader'.floor \in Nat /\ Leader'.earliest \in Nat
      /\ Leader.floor <= Leader'.floor /\ Leader.earliest <= Leader'.earliest
      /\ Leader'.segs \subseteq Leader.segs
  BY <1>2, <1>3 DEF Grown, Laid, Tables
<1>5. seal \in [Nodes -> SealThread] /\ \A m \in Nodes : Aligned(seal[m].base)
  BY DEF StreamInv, TypeOK, SealThread, ThreadsSound
<1>6. /\ seal' \in [Nodes -> SealThread]
      /\ \A m \in Nodes : /\ Aligned(seal'[m].base)
                          /\ seal'[m].pc = "propose" => seal[m] = seal'[m]
  BY <1>1, <1>5 DEF SealThread
<1>7. FlightSound' /\ ThreadsSound'
  BY <1>1, <1>4, <1>6, FlightKept
<1>8. IndexedBlobsExist'
  BY <1>1, <1>4 DEF StreamInv, IndexedBlobsExist
<1>9. ReadersKnow' /\ NoFalseEmpty'
  BY <1>1, SameReaders DEF StreamInv
<1>10. TypeOK'
  BY <1>1, <1>3, <1>6 DEF StreamInv, TypeOK, SealThread
<1> QED BY <1>3, <1>7, <1>8, <1>9, <1>10 DEF StreamInv, TablesOK

LEMMA AnsweredThreads ==
  ASSUME StreamInv, NEW c \in Command, c.type # "append", Answered(c)
  PROVE  /\ seal' \in [Nodes -> SealThread] /\ known' \in [Nodes -> Nat]
         /\ \A m \in Nodes : /\ Aligned(seal'[m].base)
                             /\ seal'[m].pc = "propose" => seal[m] = seal'[m]
<1> DEFINE n == IF c.type = "seal" THEN c.origin ELSE c.by
<1>1. n \in Nodes /\ (c.type = "seal" => c.end \in Nat)
  BY DEF Command
<1>2. /\ \/ seal' = seal
         \/ \E l \in {"floor", "trim"} : seal' = [seal EXCEPT ![n].pc = l]
         \/ seal' = [seal EXCEPT ![n] = Idle]
      /\ known' = known \/ (c.type = "seal" /\ known' = [known EXCEPT ![n] = c.end])
  BY DEF Answered
<1> HIDE DEF n
<1>3. /\ seal \in [Nodes -> SealThread] /\ known \in [Nodes -> Nat]
      /\ \A m \in Nodes : Aligned(seal[m].base)
  BY DEF StreamInv, TypeOK, SealThread, ThreadsSound
<1>4. known' \in [Nodes -> Nat]
  BY <1>1, <1>2, <1>3
<1>5. CASE seal' = seal
  BY <1>3, <1>4, <1>5
<1>6. CASE \E l \in {"floor", "trim"} : seal' = [seal EXCEPT ![n].pc = l]
  <2>1. PICK l \in {"floor", "trim"} : seal' = [seal EXCEPT ![n].pc = l]
    BY <1>6
  <2>2. /\ seal' \in [Nodes -> SealThread] /\ seal'[n].pc = l /\ seal'[n].base = seal[n].base
        /\ \A m \in Nodes \ {n} : seal'[m] = seal[m]
    BY <1>1, <1>3, <2>1 DEF SealThread
  <2> QED BY <1>3, <1>4, <2>2
<1>7. CASE seal' = [seal EXCEPT ![n] = Idle]
  <2>1. Idle \in SealThread /\ Idle.base = 0 /\ Idle.pc = "off"
    BY DEF Idle, SealThread
  <2> QED BY <1>1, <1>3, <1>4, <1>7, <2>1, AlignedNumbers
<1> QED BY <1>2, <1>5, <1>6, <1>7

LEMMA CommitInv ==
  ASSUME StreamInv, NEW c \in flight, Commit(c)
  PROVE  StreamInv'
<1>1. /\ flight' = flight \ {c} /\ log' = Append(log, c) /\ Answered(c)
      /\ UNCHANGED <<done, st, blobs, gc, cache, read>>
  BY DEF Commit
<1>2. /\ c \in Command /\ Sound(c) /\ (c.type = "trim" => c.up_to <= Leader.floor)
      /\ c.type = "seal" => Stored(c.origin, c.base)
  BY DEF StreamInv, TypeOK, FlightSound
<1>3. log' \in Seq(Command) /\ TablesOK' /\ Grown(Leader, Leader', c)
  BY <1>1, <1>2, LogGrows
<1>4. /\ Leader'.floor \in Nat /\ Leader'.earliest \in Nat
      /\ Leader.floor <= Leader'.floor /\ Leader.earliest <= Leader'.earliest
  BY <1>3 DEF Grown, Laid, Tables
<1>5. /\ seal' \in [Nodes -> SealThread] /\ known' \in [Nodes -> Nat]
      /\ \A m \in Nodes : /\ Aligned(seal'[m].base)
                          /\ seal'[m].pc = "propose" => seal[m] = seal'[m]
  <2>1. CASE c.type # "append"
    BY <1>1, <1>2, <2>1, AnsweredThreads
  <2>2. CASE c.type = "append"
    <3>1. seal' = seal /\ known' = known
      BY <1>1, <2>2 DEF Answered
    <3> QED BY <3>1 DEF StreamInv, TypeOK, SealThread, ThreadsSound
  <2> QED BY <2>1, <2>2
<1>6. FlightSound' /\ ThreadsSound'
  BY <1>1, <1>4, <1>5, FlightKept
<1>7. IndexedBlobsExist'
  <2> SUFFICES ASSUME NEW g \in Leader'.segs PROVE g[1] \in blobs[g[3]]
    BY <1>1 DEF IndexedBlobsExist
  <2>1. CASE g \in Leader.segs
    BY <2>1 DEF StreamInv, IndexedBlobsExist
  <2>2. CASE c.type = "seal" /\ g = <<c.base, c.end, c.origin>> /\ c.base = Leader.floor
    <3>1. ~(c.base < Leader.earliest)
      BY <2>2, TablesLaid
    <3> QED BY <1>2, <2>2, <3>1 DEF Stored
  <2> QED BY <1>3, <2>1, <2>2 DEF Grown
<1>8. ReadersKnow' /\ NoFalseEmpty'
  BY <1>1, SameReaders DEF StreamInv
<1>9. TypeOK'
  BY <1>1, <1>3, <1>5 DEF StreamInv, TypeOK, SealThread
<1> QED BY <1>3, <1>6, <1>7, <1>8, <1>9 DEF StreamInv, TablesOK

\* The list of maybe_trim: whole segments of a prefix of the log.
LEMMA TrimSound ==
  ASSUME StreamInv, NEW n \in Nodes, NEW c \in maybe_trim(n)
  PROVE  c \in Command /\ c.type = "trim" /\ Sound(c) /\ c.up_to <= Leader.floor
<1> USE StreamAssumption
<1> DEFINE segs == st[n].segs
           drop == {g \in segs : Cardinality({h \in segs : h[1] >= g[1]}) > Retention}
           ends == {g[2] : g \in drop}
           e == CHOOSE e \in ends : \A g \in drop : g[2] <= e
<1>1. /\ drop # {} /\ c = [type |-> "trim", up_to |-> e, trimmed |-> drop, by |-> n]
  BY DEF maybe_trim
<1>2. drop \subseteq segs
  OBVIOUS
<1> HIDE DEF drop
<1>3. /\ Laid(st[n]) /\ st[n].floor \in Nat /\ st[n].floor <= Leader.floor /\ Leader.floor \in Nat
  BY TablesLaid
<1>4. \A g \in drop : /\ g \in Segment /\ g[1] \in Nat /\ g[2] \in Nat /\ g[2] <= st[n].floor
                      /\ Aligned(g[1]) /\ g[2] = g[1] + SealBatch
  BY <1>2, <1>3 DEF Laid, Tables, Segment
<1>5. ends \in SUBSET Nat /\ ends # {} /\ \A x \in ends : x <= st[n].floor
  BY <1>1, <1>4
<1>6. \E x \in ends : \A y \in ends : y <= x
  <2> HIDE DEF ends
  <2> QED BY <1>3, <1>5, GreatestExists
<1>7. e \in ends /\ \A g \in drop : g[2] <= e
  <2>1. \E x \in ends : \A g \in drop : g[2] <= x
    BY <1>6
  <2> HIDE DEF ends
  <2> QED BY <2>1
<1> HIDE DEF e
<1>8. e \in Nat /\ e <= st[n].floor /\ Aligned(e)
  BY <1>4, <1>7, AlignedNumbers
<1>9. \A g \in drop : g[1] < e
  BY <1>4, <1>7, <1>8
<1>10. drop \in SUBSET Segment
  BY <1>4
<1>11. c \in Command /\ c.type = "trim" /\ c.up_to = e /\ c.trimmed = drop
  BY <1>1, <1>8, <1>10 DEF Command
<1>12. Sound(c)
  BY <1>8, <1>9, <1>11 DEF Sound
<1> QED BY <1>3, <1>8, <1>11, <1>12

\* The steps of the seal thread leave the log, the replicas and the readers.
LEMMA SealStepInv ==
  ASSUME StreamInv, NEW n \in Nodes,
         UNCHANGED <<log, done, st, gc, cache, read>>,
         blobs' \in [Nodes -> SUBSET Nat], \A m \in Nodes : blobs[m] \subseteq blobs'[m],
         flight' \subseteq Command,
         \A c \in flight' \ flight : /\ Sound(c)
                                     /\ c.type = "seal" => c.base \in blobs[c.origin]
                                                           \/ c.base < Leader.earliest
                                     /\ c.type = "trim" => c.up_to <= Leader.floor,
         seal' \in [Nodes -> SealThread], known' \in [Nodes -> Nat],
         \A m \in Nodes : /\ Aligned(seal'[m].base)
                          /\ seal'[m].pc = "propose" =>
                               seal'[m] = seal[m] \/ seal'[m].base \in blobs'[m]
  PROVE  StreamInv'
<1>1. TablesOK' /\ Leader' = Leader
  BY SameTables DEF StreamInv, TablesOK
<1>2. \A c \in Command : c.type = "seal" => c.origin \in Nodes
  BY DEF Command
<1>3. FlightSound'
  <2> SUFFICES ASSUME NEW c \in flight'
               PROVE  /\ Sound(c)
                      /\ c.type = "seal" => c.base \in blobs'[c.origin] \/ c.base < Leader.earliest
                      /\ c.type = "trim" => c.up_to <= Leader.floor
    BY <1>1 DEF FlightSound, Sound, Aligned, Stored
  <2>1. CASE c \in flight
    BY <1>2, <2>1 DEF StreamInv, FlightSound, Stored
  <2>2. CASE c \notin flight
    BY <1>2, <2>2
  <2> QED BY <2>1, <2>2
<1>4. ThreadsSound'
  <2> SUFFICES ASSUME NEW m \in Nodes
               PROVE  /\ Aligned(seal'[m].base)
                      /\ seal'[m].pc = "propose" =>
                           (seal'[m].base \in blobs'[m] \/ seal'[m].base < Leader.earliest)
                      /\ \A b \in gc[m] : b < Leader.earliest
    BY <1>1 DEF ThreadsSound, Aligned, Stored
  <2> QED BY DEF StreamInv, ThreadsSound, Stored
<1>5. IndexedBlobsExist'
  <2>1. \A g \in Leader.segs : g[3] \in Nodes
    BY TablesLaid DEF Laid, Tables, Segment
  <2> QED BY <1>1, <2>1 DEF StreamInv, IndexedBlobsExist
<1>6. ReadersKnow' /\ NoFalseEmpty'
  BY SameReaders DEF StreamInv
<1>7. TypeOK'
  BY DEF StreamInv, TypeOK, SealThread
<1> QED BY <1>1, <1>3, <1>4, <1>5, <1>6, <1>7 DEF StreamInv, TablesOK

\* What the threads are before a step.
LEMMA ThreadTypes ==
  ASSUME StreamInv
  PROVE  /\ seal \in [Nodes -> SealThread] /\ known \in [Nodes -> Nat]
         /\ \A m \in Nodes : Aligned(seal[m].base)
         /\ blobs \in [Nodes -> SUBSET Nat] /\ flight \subseteq Command
         /\ Idle \in SealThread /\ Idle.pc = "off" /\ Aligned(Idle.base)
         /\ \A m \in Nodes : st[m].floor \in Nat /\ Aligned(st[m].floor)
<1>1. /\ Idle \in SealThread /\ Idle.pc = "off" /\ Aligned(Idle.base)
  BY AlignedNumbers DEF Idle, SealThread
<1>2. \A m \in Nodes : st[m].floor \in Nat /\ Aligned(st[m].floor)
  BY TablesLaid DEF Laid
<1> QED BY <1>1, <1>2 DEF StreamInv, TypeOK, ThreadsSound, SealThread

\* A thread that goes to another step, or ends, writes nothing.
LEMMA ThreadMoves ==
  ASSUME StreamInv, NEW n \in Nodes, NEW x \in SealThread, x.pc # "propose", Aligned(x.base),
         seal' = [seal EXCEPT ![n] = x], known' \in [Nodes -> Nat], flight' \subseteq flight,
         UNCHANGED <<log, done, st, blobs, gc, cache, read>>
  PROVE  StreamInv'
<1>1. /\ seal' \in [Nodes -> SealThread]
      /\ \A m \in Nodes : /\ Aligned(seal'[m].base)
                          /\ seal'[m].pc = "propose" => seal'[m] = seal[m]
  BY ThreadTypes
<1> QED BY <1>1, ThreadTypes, SealStepInv

LEMMA SealFloorInv ==
  ASSUME StreamInv, NEW n \in Nodes, SealFloor(n)
  PROVE  StreamInv'
<1> DEFINE x == [pc |-> "tail", base |-> st[n].floor]
<1>1. x \in SealThread /\ x.pc # "propose" /\ Aligned(x.base)
  BY ThreadTypes DEF SealThread
<1>2. seal' = [seal EXCEPT ![n] = x] /\ known' \in [Nodes -> Nat]
  BY ThreadTypes DEF SealFloor
<1> HIDE DEF x
<1> QED BY <1>1, <1>2, ThreadMoves DEF SealFloor

LEMMA SealTailInv ==
  ASSUME StreamInv, NEW n \in Nodes, SealTail(n)
  PROVE  StreamInv'
<1> DEFINE x == [seal[n] EXCEPT !.pc = "frames"]
<1>1. x \in SealThread /\ x.pc # "propose" /\ Aligned(x.base)
  BY ThreadTypes DEF SealThread
<1>2. seal' = [seal EXCEPT ![n] = x] \/ seal' = [seal EXCEPT ![n] = Idle]
  BY ThreadTypes DEF SealTail
<1> HIDE DEF x
<1>3. /\ known' \in [Nodes -> Nat] /\ flight' \subseteq flight
      /\ UNCHANGED <<log, done, st, blobs, gc, cache, read>>
  BY ThreadTypes DEF SealTail
<1>4. Idle.pc # "propose"
  BY DEF Idle
<1>5. CASE seal' = [seal EXCEPT ![n] = x]
  BY <1>1, <1>3, <1>5, ThreadMoves
<1>6. CASE seal' = [seal EXCEPT ![n] = Idle]
  BY <1>3, <1>4, <1>6, ThreadTypes, ThreadMoves
<1> QED BY <1>2, <1>5, <1>6

LEMMA SealFramesInv ==
  ASSUME StreamInv, NEW n \in Nodes, SealFrames(n)
  PROVE  StreamInv'
<1>1. UNCHANGED <<log, done, st, gc, flight, known, cache, read>>
  BY DEF SealFrames
<1>2. CASE /\ blobs' = [blobs EXCEPT ![n] = blobs[n] \cup {seal[n].base}]
           /\ seal' = [seal EXCEPT ![n].pc = "propose"]
  <2>1. seal[n].base \in Nat
    BY ThreadTypes DEF SealThread
  <2>2. /\ blobs' \in [Nodes -> SUBSET Nat] /\ \A m \in Nodes : blobs[m] \subseteq blobs'[m]
        /\ seal[n].base \in blobs'[n]
    BY <1>2, <2>1, ThreadTypes
  <2>3. /\ seal' \in [Nodes -> SealThread] /\ seal'[n].base = seal[n].base
        /\ \A m \in Nodes \ {n} : seal'[m] = seal[m]
    BY <1>2, ThreadTypes DEF SealThread
  <2>4. \A m \in Nodes : /\ Aligned(seal'[m].base)
                         /\ seal'[m].pc = "propose" =>
                              seal'[m] = seal[m] \/ seal'[m].base \in blobs'[m]
    BY <2>2, <2>3, ThreadTypes
  <2>5. flight' \subseteq Command /\ flight' \ flight = {} /\ known' \in [Nodes -> Nat]
    BY <1>1, ThreadTypes
  <2> QED BY <1>1, <2>2, <2>3, <2>4, <2>5, SealStepInv
<1>3. CASE seal' = [seal EXCEPT ![n] = Idle] /\ UNCHANGED blobs
  <2>1. Idle.pc # "propose"
    BY DEF Idle
  <2> QED BY <1>1, <1>3, <2>1, ThreadTypes, ThreadMoves
<1> QED BY <1>2, <1>3 DEF SealFrames

LEMMA SealProposeInv ==
  ASSUME StreamInv, NEW n \in Nodes, SealPropose(n)
  PROVE  StreamInv'
<1> USE StreamAssumption
<1> DEFINE c == [type |-> "seal", base |-> seal[n].base, end |-> seal[n].base + SealBatch,
                 origin |-> n]
<1>1. seal[n].base \in Nat /\ Aligned(seal[n].base) /\ seal[n].pc = "propose"
  BY ThreadTypes DEF SealThread, SealPropose
<1>2. c \in Command /\ c.type = "seal" /\ c.base = seal[n].base /\ c.origin = n /\ Sound(c)
  BY <1>1 DEF Command, Sound
<1>3. flight' = flight \cup {c}
  BY DEF SealPropose
<1> HIDE DEF c
<1>4. c.base \in blobs[c.origin] \/ c.base < Leader.earliest
  BY <1>1, <1>2 DEF StreamInv, ThreadsSound, Stored
<1>5. UNCHANGED <<log, done, st, blobs, gc, known, cache, read>>
  BY DEF SealPropose
<1>6. /\ seal' \in [Nodes -> SealThread]
      /\ \A m \in Nodes : /\ Aligned(seal'[m].base)
                          /\ seal'[m].pc = "propose" => seal'[m] = seal[m]
  BY ThreadTypes DEF SealThread, SealPropose
<1>7. /\ flight' \subseteq Command
      /\ \A d \in flight' \ flight : /\ Sound(d)
                                     /\ d.type = "seal" => d.base \in blobs[d.origin]
                                                           \/ d.base < Leader.earliest
                                     /\ d.type = "trim" => d.up_to <= Leader.floor
  BY <1>2, <1>3, <1>4, ThreadTypes
<1> QED BY <1>5, <1>6, <1>7, ThreadTypes, SealStepInv

LEMMA SealTrimInv ==
  ASSUME StreamInv, NEW n \in Nodes, SealTrim(n)
  PROVE  StreamInv'
<1>1. /\ flight' = flight \cup maybe_trim(n) /\ UNCHANGED <<log, done, st, blobs, gc, known, cache, read>>
  BY DEF SealTrim
<1>2. /\ seal' \in [Nodes -> SealThread]
      /\ \A m \in Nodes : /\ Aligned(seal'[m].base)
                          /\ seal'[m].pc = "propose" => seal'[m] = seal[m]
  BY ThreadTypes DEF SealThread, SealTrim
<1>3. /\ flight' \subseteq Command
      /\ \A d \in flight' \ flight : Sound(d) /\ d.type = "trim" /\ d.up_to <= Leader.floor
  BY <1>1, ThreadTypes, TrimSound
<1> QED BY <1>1, <1>2, <1>3, ThreadTypes, SealStepInv

LEMMA GiveUpInv ==
  ASSUME StreamInv, NEW n \in Nodes, GiveUp(n)
  PROVE  StreamInv'
<1> DEFINE x == [seal[n] EXCEPT !.pc = "floor"]
<1>1. x \in SealThread /\ x.pc # "propose" /\ Aligned(x.base)
  BY ThreadTypes DEF SealThread
<1>2. seal' = [seal EXCEPT ![n] = x] \/ seal' = [seal EXCEPT ![n] = Idle]
  BY ThreadTypes DEF GiveUp
<1> HIDE DEF x
<1>3. /\ known' \in [Nodes -> Nat] /\ flight' \subseteq flight
      /\ UNCHANGED <<log, done, st, blobs, gc, cache, read>>
  BY ThreadTypes DEF GiveUp
<1>4. Idle.pc # "propose"
  BY DEF Idle
<1>5. CASE seal' = [seal EXCEPT ![n] = x]
  BY <1>1, <1>3, <1>5, ThreadMoves
<1>6. CASE seal' = [seal EXCEPT ![n] = Idle]
  BY <1>3, <1>4, <1>6, ThreadTypes, ThreadMoves
<1> QED BY <1>2, <1>5, <1>6

----------------------------------------------------------------------------
(* Replicas *)

\* A replica that moves along the log only raises its floor and its earliest.
LEMMA ReplicaMoves ==
  ASSUME StreamInv, NEW n \in Nodes, NEW i \in 0 .. Len(log),
         st' = [st EXCEPT ![n] = Replay(log)[i]], done' = [done EXCEPT ![n] = i],
         st[n].floor <= Replay(log)[i].floor, st[n].earliest <= Replay(log)[i].earliest,
         gc' \in [Nodes -> SUBSET Nat], \A m \in Nodes : \A b \in gc'[m] : b < Leader.earliest,
         UNCHANGED <<log, blobs, flight, seal, known, cache, read>>
  PROVE  StreamInv'
<1>1. /\ log \in Seq(Command) /\ Len(log) \in Nat /\ i \in Nat
      /\ st \in [Nodes -> Tables] /\ done \in [Nodes -> Nat]
  BY DEF StreamInv, TypeOK
<1>2. Leader' = Leader
  BY DEF Leader
<1>3. Laid(Replay(log)[i]) /\ Replay(log)[i] \in Tables
  BY DEF StreamInv, PrefixesLaid, Laid
<1>4. PrefixesLaid' /\ LogSound'
  BY <1>2 DEF StreamInv, PrefixesLaid, LogSound
<1>5. Copies'
  BY <1>1 DEF StreamInv, Copies
<1>6. FlightSound'
  BY <1>2 DEF StreamInv, FlightSound, Stored
<1>7. ThreadsSound'
  BY <1>2 DEF StreamInv, ThreadsSound, Stored
<1>8. IndexedBlobsExist' /\ NoFalseEmpty'
  BY <1>2 DEF StreamInv, IndexedBlobsExist, NoFalseEmpty
<1>9. ReadersKnow'
  <2> SUFFICES ASSUME NEW m \in Nodes, read[m].seq < read[m].from
               PROVE  /\ read[m].pc \in {"miss", "cold"} => read[m].seq < st'[m].floor
                      /\ read[m].pc = "none" => read[m].seq < st'[m].earliest
    BY DEF StreamInv, ReadersKnow
  <2>1. /\ read[m].pc \in {"miss", "cold"} => read[m].seq < st[m].floor
        /\ read[m].pc = "none" => read[m].seq < st[m].earliest
        /\ read[m].seq \in Nat
    BY DEF StreamInv, ReadersKnow, TypeOK, ReadRecord
  <2>2. CASE m = n
    <3>1. /\ st[n].floor \in Nat /\ st[n].earliest \in Nat /\ st'[n] = Replay(log)[i]
          /\ Replay(log)[i].floor \in Nat /\ Replay(log)[i].earliest \in Nat
      BY <1>1, <1>3 DEF Tables
    <3> QED BY <2>1, <2>2, <3>1
  <2>3. CASE m # n
    BY <1>1, <2>1, <2>3
  <2> QED BY <2>2, <2>3
<1>10. TypeOK'
  BY <1>1, <1>3 DEF StreamInv, TypeOK
<1> QED BY <1>4, <1>5, <1>6, <1>7, <1>8, <1>9, <1>10 DEF StreamInv

LEMMA ApplyNextInv ==
  ASSUME StreamInv, NEW n \in Nodes, ApplyNext(n)
  PROVE  StreamInv'
<1> DEFINE i == done[n] + 1
           c == log[i]
<1>1. /\ log \in Seq(Command) /\ Len(log) \in Nat /\ done[n] \in Nat
      /\ st \in [Nodes -> Tables] /\ done \in [Nodes -> Nat] /\ gc \in [Nodes -> SUBSET Nat]
  BY DEF StreamInv, TypeOK
<1>2. i \in 1 .. Len(log) /\ i \in 0 .. Len(log) /\ i - 1 = done[n]
  BY <1>1 DEF ApplyNext
<1>3. /\ st' = [st EXCEPT ![n] = Apply(st[n], c)] /\ done' = [done EXCEPT ![n] = i]
      /\ gc' = [gc EXCEPT ![n] = gc[n] \cup Trimmed(n, c)]
      /\ UNCHANGED <<log, blobs, flight, seal, known, cache, read>>
  BY <1>1 DEF ApplyNext
<1>4. c \in Command
  BY <1>1, <1>2
<1>5. Sound(c) /\ (c.type = "trim" => c.up_to <= Leader.earliest)
  BY <1>2 DEF StreamInv, LogSound
<1>6. Replay(log)[i] = Apply(st[n], c)
  BY <1>1, <1>2, ReplaySteps DEF StreamInv, Copies
<1> HIDE DEF c, i
<1>7. Grown(st[n], Apply(st[n], c), c)
  BY <1>4, <1>5, TablesLaid, ApplyGrown
<1>8. Trimmed(n, c) \in SUBSET Nat /\ \A b \in Trimmed(n, c) : b < Leader.earliest
  <2> SUFFICES ASSUME NEW b \in Trimmed(n, c) PROVE b \in Nat /\ b < Leader.earliest
    OBVIOUS
  <2>1. c.type = "trim"
    BY DEF Trimmed
  <2>2. PICK g \in c.trimmed : b = g[1]
    BY <2>1 DEF Trimmed
  <2>3. g[1] \in Nat /\ c.up_to \in Nat
    BY <1>4, <2>1 DEF Command, Segment
  <2>4. g[1] < c.up_to
    BY <1>5, <2>1 DEF Sound
  <2> QED BY <1>5, <2>1, <2>2, <2>3, <2>4, TablesLaid
<1>9. gc' \in [Nodes -> SUBSET Nat] /\ \A m \in Nodes : \A b \in gc'[m] : b < Leader.earliest
  BY <1>1, <1>3, <1>8 DEF StreamInv, ThreadsSound
<1> QED BY <1>2, <1>3, <1>6, <1>7, <1>9, ReplicaMoves DEF Grown

LEMMA InstallInv ==
  ASSUME StreamInv, NEW n \in Nodes, InstallSnapshot(n)
  PROVE  StreamInv'
<1>1. Len(log) \in 0 .. Len(log) /\ gc \in [Nodes -> SUBSET Nat]
  BY DEF StreamInv, TypeOK
<1>2. \A m \in Nodes : \A b \in gc[m] : b < Leader.earliest
  BY DEF StreamInv, ThreadsSound
<1>3. /\ st' = [st EXCEPT ![n] = Replay(log)[Len(log)]] /\ done' = [done EXCEPT ![n] = Len(log)]
      /\ UNCHANGED <<log, blobs, gc, flight, seal, known, cache, read>>
  BY DEF InstallSnapshot, Leader
<1>4. st[n].floor <= Replay(log)[Len(log)].floor /\ st[n].earliest <= Replay(log)[Len(log)].earliest
  BY TablesLaid DEF Leader
<1> QED BY <1>1, <1>2, <1>3, <1>4, ReplicaMoves

\* Only blobs below the leader's earliest are deleted.
LEMMA CollectInv ==
  ASSUME StreamInv, NEW n \in Nodes, gc_trimmed_cold_segments(n)
  PROVE  StreamInv'
<1>1. PICK b \in gc[n] : /\ blobs' = [blobs EXCEPT ![n] = blobs[n] \ {b}]
                         /\ gc' = [gc EXCEPT ![n] = gc[n] \ {b}]
  BY DEF gc_trimmed_cold_segments
<1>2. UNCHANGED <<log, done, st, flight, seal, known, cache, read>>
  BY DEF gc_trimmed_cold_segments
<1>3. /\ blobs \in [Nodes -> SUBSET Nat] /\ gc \in [Nodes -> SUBSET Nat]
      /\ \A m \in Nodes : \A x \in gc[m] : x < Leader.earliest
  BY DEF StreamInv, TypeOK, ThreadsSound
<1>4. b \in Nat /\ b < Leader.earliest
  BY <1>3
<1>5. TablesOK' /\ Leader' = Leader
  BY <1>2, SameTables DEF StreamInv, TablesOK
<1>6. \A m \in Nodes, x \in Nat : x \in blobs[m] /\ x # b => x \in blobs'[m]
  BY <1>1, <1>3
<1>7. \A m \in Nodes, x \in Nat : Stored(m, x) => x \in blobs'[m] \/ x < Leader.earliest
  BY <1>4, <1>6 DEF Stored
<1>8. FlightSound'
  <2>1. \A c \in flight : c.type = "seal" => c.origin \in Nodes /\ c.base \in Nat
    BY DEF StreamInv, TypeOK, Command
  <2> QED BY <1>2, <1>5, <1>7, <2>1 DEF StreamInv, FlightSound, Stored
<1>9. ThreadsSound'
  <2> SUFFICES ASSUME NEW m \in Nodes
               PROVE  /\ Aligned(seal[m].base)
                      /\ seal[m].pc = "propose" =>
                           (seal[m].base \in blobs'[m] \/ seal[m].base < Leader.earliest)
                      /\ \A x \in gc'[m] : x < Leader.earliest
    BY <1>2, <1>5 DEF ThreadsSound, Stored
  <2>1. /\ Aligned(seal[m].base) /\ seal[m].base \in Nat
        /\ seal[m].pc = "propose" => Stored(m, seal[m].base)
    BY ThreadTypes DEF StreamInv, ThreadsSound, SealThread
  <2>2. gc'[m] \subseteq gc[m]
    BY <1>1, <1>3
  <2> QED BY <1>3, <1>7, <2>1, <2>2
<1>10. IndexedBlobsExist'
  <2>1. \A g \in Leader.segs : g[1] \in Nat /\ g[3] \in Nodes /\ Leader.earliest <= g[1]
    BY TablesLaid DEF Laid, Tables, Segment
  <2>2. \A g \in Leader.segs : g[1] # b
    BY <1>4, <2>1, TablesLaid
  <2> QED BY <1>5, <1>6, <2>1, <2>2 DEF StreamInv, IndexedBlobsExist
<1>11. ReadersKnow' /\ NoFalseEmpty'
  BY <1>2, SameReaders DEF StreamInv
<1>12. TypeOK'
  <2>1. blobs' \in [Nodes -> SUBSET Nat] /\ gc' \in [Nodes -> SUBSET Nat]
    BY <1>1, <1>3
  <2> QED BY <1>2, <2>1 DEF StreamInv, TypeOK
<1> QED BY <1>5, <1>8, <1>9, <1>10, <1>11, <1>12 DEF StreamInv, TablesOK

LEMMA CrashInv ==
  ASSUME StreamInv, NEW n \in Nodes, Crash(n)
  PROVE  StreamInv'
<1>1. UNCHANGED <<log, done, st, blobs, flight>>
  BY DEF Crash
<1>2. TablesOK' /\ Leader' = Leader
  BY <1>1, SameTables DEF StreamInv, TablesOK
<1>3. NoRead \in ReadRecord /\ NoRead.pc = "idle"
  BY DEF NoRead, ReadRecord
<1>4. /\ read \in [Nodes -> ReadRecord] /\ gc \in [Nodes -> SUBSET Nat]
      /\ cache \in [Nodes -> Nat \cup {-1}]
  BY DEF StreamInv, TypeOK
<1>5. /\ seal' \in [Nodes -> SealThread] /\ gc' \in [Nodes -> SUBSET Nat]
      /\ known' \in [Nodes -> Nat] /\ cache' \in [Nodes -> Nat \cup {-1}]
      /\ read' \in [Nodes -> ReadRecord]
      /\ \A m \in Nodes : seal'[m] = seal[m] \/ seal'[m] = Idle
      /\ \A m \in Nodes : gc'[m] \subseteq gc[m]
      /\ \A m \in Nodes : read'[m] = read[m] \/ read'[m].pc = "idle"
  BY <1>3, <1>4, ThreadTypes DEF Crash
<1>6. TypeOK'
  BY <1>1, <1>5 DEF StreamInv, TypeOK, SealThread
<1>7. FlightSound' /\ IndexedBlobsExist'
  BY <1>1, <1>2 DEF StreamInv, FlightSound, Stored, IndexedBlobsExist
<1>8. ThreadsSound'
  <2> SUFFICES ASSUME NEW m \in Nodes
               PROVE  /\ Aligned(seal'[m].base)
                      /\ seal'[m].pc = "propose" =>
                           (seal'[m].base \in blobs[m] \/ seal'[m].base < Leader.earliest)
                      /\ \A x \in gc'[m] : x < Leader.earliest
    BY <1>1, <1>2 DEF ThreadsSound, Aligned, Stored
  <2> QED BY <1>5, ThreadTypes DEF StreamInv, ThreadsSound, Stored
<1>9. ReadersKnow' /\ NoFalseEmpty'
  BY <1>1, <1>5 DEF StreamInv, ReadersKnow, NoFalseEmpty
<1> QED BY <1>2, <1>6, <1>7, <1>8, <1>9 DEF StreamInv, TablesOK

----------------------------------------------------------------------------
(* Readers *)

\* The steps of a read change the read and the segment cache only.
LEMMA ReadStepInv ==
  ASSUME StreamInv, NEW n \in Nodes, NEW r \in ReadRecord, read' = [read EXCEPT ![n] = r],
         cache' \in [Nodes -> Nat \cup {-1}],
         UNCHANGED <<log, done, st, blobs, gc, flight, seal, known>>,
         r.pc \in {"miss", "cold"} /\ r.seq < r.from => r.seq < st[n].floor,
         r.pc = "none" /\ r.seq < r.from => r.seq < st[n].earliest,
         r.pc = "empty" => r.seq >= r.from, r.pc = "fetch" => r.seg \in Segment
  PROVE  StreamInv'
<1>1. TablesOK' /\ Leader' = Leader
  BY SameTables DEF StreamInv, TablesOK
<1>2. FlightSound' /\ ThreadsSound' /\ IndexedBlobsExist'
  BY <1>1, SameThreads DEF StreamInv
<1>3. read \in [Nodes -> ReadRecord]
  BY DEF StreamInv, TypeOK
<1>4. ReadersKnow'
  BY <1>3 DEF StreamInv, ReadersKnow
<1>5. NoFalseEmpty'
  BY <1>3 DEF StreamInv, NoFalseEmpty
<1>6. TypeOK'
  BY <1>3 DEF StreamInv, TypeOK
<1> QED BY <1>1, <1>2, <1>4, <1>5, <1>6 DEF StreamInv, TablesOK

LEMMA ReadTypes ==
  ASSUME StreamInv, NEW n \in Nodes
  PROVE  /\ read \in [Nodes -> ReadRecord] /\ cache \in [Nodes -> Nat \cup {-1}]
         /\ read[n].seq \in Nat /\ read[n].from \in Nat
         /\ st[n].floor \in Nat /\ st[n].earliest \in Nat /\ st[n].tail \in Nat
         /\ st[n].rows = st[n].floor .. st[n].tail - 1
         /\ st[n].segs \subseteq Segment
         /\ \A q \in st[n].earliest .. st[n].floor - 1 :
              \E g \in st[n].segs : g[1] <= q /\ q < g[2]
         /\ read[n].pc \in {"miss", "cold"} /\ read[n].seq < read[n].from
              => read[n].seq < st[n].floor
         /\ read[n].pc = "none" /\ read[n].seq < read[n].from => read[n].seq < st[n].earliest
<1>1. Laid(st[n])
  BY TablesLaid
<1>2. /\ st[n].floor \in Nat /\ st[n].earliest \in Nat /\ st[n].tail \in Nat
      /\ st[n].rows = st[n].floor .. st[n].tail - 1
      /\ st[n].segs \subseteq Segment
      /\ \A q \in st[n].earliest .. st[n].floor - 1 :
           \E g \in st[n].segs : g[1] <= q /\ q < g[2]
  BY <1>1 DEF Laid, Tables
<1>3. read \in [Nodes -> ReadRecord] /\ cache \in [Nodes -> Nat \cup {-1}]
  BY DEF StreamInv, TypeOK
<1>4. read[n].seq \in Nat /\ read[n].from \in Nat
  BY <1>3 DEF ReadRecord
<1>5. /\ read[n].pc \in {"miss", "cold"} /\ read[n].seq < read[n].from
           => read[n].seq < st[n].floor
      /\ read[n].pc = "none" /\ read[n].seq < read[n].from => read[n].seq < st[n].earliest
  BY DEF StreamInv, ReadersKnow
<1> QED BY <1>2, <1>3, <1>4, <1>5

LEMMA ReadStartInv ==
  ASSUME StreamInv, NEW n \in Nodes, NEW s \in Nat, ReadStart(n, s)
  PROVE  StreamInv'
<1> DEFINE r == [NoRead EXCEPT !.pc = IF s \in st[n].rows THEN "data" ELSE "miss",
                               !.seq = s, !.from = st[n].tail]
<1>1. /\ read' = [read EXCEPT ![n] = r]
      /\ UNCHANGED <<log, done, st, blobs, gc, flight, seal, known, cache>>
  BY DEF ReadStart
<1>2. /\ r \in ReadRecord /\ r.seq = s /\ r.from = st[n].tail
      /\ r.pc = IF s \in st[n].rows THEN "data" ELSE "miss"
  BY ReadTypes DEF NoRead, ReadRecord
<1> HIDE DEF r
<1>3. s \notin st[n].rows /\ s < st[n].tail => s < st[n].floor
  BY ReadTypes
<1> QED BY <1>1, <1>2, <1>3, ReadTypes, ReadStepInv

\* A step that moves a read on and keeps what it asked for.
LEMMA ReadGoes ==
  ASSUME StreamInv, NEW n \in Nodes,
         NEW l \in {"cold", "none", "data", "truncated", "empty", "failed"},
         read' = [read EXCEPT ![n].pc = l], cache' \in [Nodes -> Nat \cup {-1}],
         UNCHANGED <<log, done, st, blobs, gc, flight, seal, known>>,
         l = "cold" => read[n].seq < st[n].floor,
         l = "none" /\ read[n].seq < read[n].from => read[n].seq < st[n].earliest,
         l = "empty" => read[n].seq >= read[n].from
  PROVE  StreamInv'
<1> DEFINE r == [read[n] EXCEPT !.pc = l]
<1>1. r \in ReadRecord /\ r.pc = l /\ r.seq = read[n].seq /\ r.from = read[n].from
  BY ReadTypes DEF ReadRecord
<1>2. read' = [read EXCEPT ![n] = r]
  BY ReadTypes
<1> HIDE DEF r
<1> QED BY <1>1, <1>2, ReadStepInv

LEMMA ReadFloorInv ==
  ASSUME StreamInv, NEW n \in Nodes, ReadFloor(n)
  PROVE  StreamInv'
<1>1. /\ UNCHANGED <<log, done, st, blobs, gc, flight, seal, known, cache>>
      /\ read[n].pc = "miss"
      /\ read' = [read EXCEPT ![n].pc = IF read[n].seq < st[n].floor THEN "cold" ELSE "none"]
  BY DEF ReadFloor, ReadGoto
<1>2. CASE read[n].seq < st[n].floor
  BY <1>1, <1>2, ReadTypes, ReadGoes
<1>3. CASE ~(read[n].seq < st[n].floor)
  BY <1>1, <1>3, ReadTypes, ReadGoes
<1> QED BY <1>2, <1>3

LEMMA ReadCacheInv ==
  ASSUME StreamInv, NEW n \in Nodes, ReadCache(n)
  PROVE  StreamInv'
BY ReadTypes, ReadGoes DEF ReadCache, ReadGoto

LEMMA ReadFindInv ==
  ASSUME StreamInv, NEW n \in Nodes, ReadFind(n)
  PROVE  StreamInv'
<1> DEFINE found == {g \in st[n].segs : g[1] <= read[n].seq /\ read[n].seq < g[2]}
           r == [read[n] EXCEPT !.pc = IF found = {} THEN "none" ELSE "fetch",
                                !.seg = IF found = {} THEN <<>> ELSE CHOOSE g \in found : TRUE]
<1>1. /\ UNCHANGED <<log, done, st, blobs, gc, flight, seal, known, cache>>
      /\ read[n].pc = "cold"
      /\ read' = [read EXCEPT ![n].pc = IF found = {} THEN "none" ELSE "fetch",
                              ![n].seg = IF found = {} THEN <<>> ELSE CHOOSE g \in found : TRUE]
  BY DEF ReadFind
<1>2. read' = [read EXCEPT ![n] = r]
  <2> HIDE DEF found
  <2> QED BY <1>1, ReadTypes
<1>3. found = {} /\ read[n].seq < read[n].from => read[n].seq < st[n].earliest
  <2> SUFFICES ASSUME found = {}, read[n].seq < read[n].from, ~(read[n].seq < st[n].earliest)
               PROVE  FALSE
    OBVIOUS
  <2>1. read[n].seq \in st[n].earliest .. st[n].floor - 1
    BY <1>1, ReadTypes
  <2> QED BY <2>1, ReadTypes
<1>4. found # {} => (CHOOSE g \in found : TRUE) \in Segment
  BY ReadTypes
<1> HIDE DEF found
<1>5. /\ r \in ReadRecord /\ r.pc = (IF found = {} THEN "none" ELSE "fetch")
      /\ r.seq = read[n].seq /\ r.from = read[n].from
      /\ r.pc = "fetch" => r.seg \in Segment
  BY <1>4, ReadTypes DEF ReadRecord
<1> HIDE DEF r
<1> QED BY <1>1, <1>2, <1>3, <1>5, ReadTypes, ReadStepInv

LEMMA ReadFetchInv ==
  ASSUME StreamInv, NEW n \in Nodes, ReadFetch(n)
  PROVE  StreamInv'
<1> DEFINE g == read[n].seg
<1>1. UNCHANGED <<log, done, st, blobs, gc, flight, seal, known>>
  BY DEF ReadFetch
<1>2. CASE /\ g[1] \in blobs[n] \cup blobs[g[3]]
           /\ read' = [read EXCEPT ![n].pc = "data"] /\ cache' = [cache EXCEPT ![n] = g[1]]
  <2>1. g \in Segment
    BY DEF StreamInv, ReadersKnow, ReadFetch
  <2>2. g[1] \in Nat
    BY <2>1 DEF Segment
  <2> QED BY <1>1, <1>2, <2>2, ReadTypes, ReadGoes
<1>3. CASE read' = [read EXCEPT ![n].pc = "failed"] /\ UNCHANGED cache
  BY <1>1, <1>3, ReadTypes, ReadGoes
<1> QED BY <1>2, <1>3 DEF ReadFetch

LEMMA ReadMissInv ==
  ASSUME StreamInv, NEW n \in Nodes, ReadMiss(n)
  PROVE  StreamInv'
<1>1. /\ UNCHANGED <<log, done, st, blobs, gc, flight, seal, known, cache>>
      /\ read[n].pc = "none"
      /\ read' = [read EXCEPT ![n].pc =
                    IF read[n].seq < st[n].earliest THEN "truncated" ELSE "empty"]
  BY DEF ReadMiss, ReadGoto
<1>2. CASE read[n].seq < st[n].earliest
  BY <1>1, <1>2, ReadTypes, ReadGoes
<1>3. CASE ~(read[n].seq < st[n].earliest)
  <2>1. read[n].seq >= read[n].from
    BY <1>1, <1>3, ReadTypes
  <2> QED BY <1>1, <1>3, <2>1, ReadTypes, ReadGoes
<1> QED BY <1>2, <1>3

LEMMA ReadReturnInv ==
  ASSUME StreamInv, NEW n \in Nodes, ReadReturn(n)
  PROVE  StreamInv'
<1>1. NoRead \in ReadRecord /\ NoRead.pc = "idle"
  BY DEF NoRead, ReadRecord
<1>2. /\ UNCHANGED <<log, done, st, blobs, gc, flight, seal, known, cache>>
      /\ read' = [read EXCEPT ![n] = NoRead]
  BY DEF ReadReturn
<1> HIDE DEF NoRead
<1> QED BY <1>1, <1>2, ReadTypes, ReadStepInv

----------------------------------------------------------------------------
(* The theorems *)

LEMMA InitStream == Init => StreamInv
<1> USE StreamAssumption
<1> SUFFICES ASSUME Init PROVE StreamInv
  OBVIOUS
<1>1. log = <<>> /\ Len(log) = 0 /\ log \in Seq(Command)
  BY DEF Init
<1>2. Replay(log)[0] = Empty /\ Leader = Empty
  BY <1>1, ReplaySteps DEF Leader
<1>3. Empty \in Tables
  BY DEF Empty, Tables
<1>4. Laid(Empty)
  BY <1>3, AlignedNumbers DEF Laid, Empty
<1>5. TypeOK
  BY <1>1, <1>3 DEF Init, TypeOK, Idle, NoRead, ReadRecord
<1>6. PrefixesLaid
  BY <1>1, <1>2, <1>4 DEF PrefixesLaid, Empty
<1>7. Copies
  BY <1>1, <1>2 DEF Init, Copies
<1>8. LogSound /\ FlightSound
  BY <1>1 DEF Init, LogSound, FlightSound
<1>9. ThreadsSound
  BY AlignedNumbers DEF Init, ThreadsSound, Idle
<1>10. ReadersKnow /\ NoFalseEmpty
  BY DEF Init, ReadersKnow, NoFalseEmpty, NoRead
<1>11. IndexedBlobsExist
  BY <1>2 DEF IndexedBlobsExist, Empty
<1> QED BY <1>5, <1>6, <1>7, <1>8, <1>9, <1>10, <1>11 DEF StreamInv

LEMMA StepStream ==
  ASSUME StreamInv, [Next]_vars
  PROVE  StreamInv'
<1>1. ASSUME NEW n \in Nodes, Push(n) \/ SealStep(n) PROVE StreamInv'
  BY <1>1, PushInv, SealFloorInv, SealTailInv, SealFramesInv, SealProposeInv, SealTrimInv, GiveUpInv
     DEF SealStep
<1>2. ASSUME NEW n \in Nodes,
             ApplyNext(n) \/ gc_trimmed_cold_segments(n) \/ InstallSnapshot(n) \/ Crash(n)
      PROVE  StreamInv'
  BY <1>2, ApplyNextInv, CollectInv, InstallInv, CrashInv
<1>3. ASSUME NEW n \in Nodes, NEW s \in 0 .. MaxAppends - 1, ReadStart(n, s) PROVE StreamInv'
  BY <1>3, StreamAssumption, ReadStartInv
<1>4. ASSUME NEW n \in Nodes, ReadStep(n) PROVE StreamInv'
  BY <1>4, ReadFloorInv, ReadCacheInv, ReadFindInv, ReadFetchInv, ReadMissInv, ReadReturnInv
     DEF ReadStep
<1>5. ASSUME NEW c \in flight, Commit(c) PROVE StreamInv'
  BY <1>5, CommitInv
<1>6. CASE UNCHANGED vars
  <2>1. UNCHANGED <<log, done, st, blobs, gc, flight, seal, known, cache, read>>
    BY <1>6 DEF vars
  <2>2. TablesOK' /\ Leader' = Leader
    BY <2>1, SameTables DEF StreamInv, TablesOK
  <2>3. FlightSound' /\ ThreadsSound' /\ IndexedBlobsExist' /\ ReadersKnow' /\ NoFalseEmpty'
    BY <2>1, <2>2, SameThreads, SameReaders DEF StreamInv
  <2>4. TypeOK'
    BY <2>1 DEF StreamInv, TypeOK
  <2> QED BY <2>2, <2>3, <2>4 DEF StreamInv, TablesOK
<1> QED BY <1>1, <1>2, <1>3, <1>4, <1>5, <1>6 DEF Next

\* The invariant of the stream, its replicas, its blobs and its readers.
THEOREM StreamTheorem == Spec => []StreamInv
<1>1. StreamInv /\ [Next]_vars => StreamInv'
  BY StepStream
<1> QED BY <1>1, InitStream, PTL DEF Spec

\* execute_metadata_in_txn: on every replica, below earliest an entry is gone,
\* from there to the floor one segment holds it and from there to the tail it
\* is a row, whatever stale seals and trims were committed.
THEOREM PlacedTheorem == Spec => []EveryEntryPlaced
<1>1. StreamInv => EveryEntryPlaced
  <2> SUFFICES ASSUME StreamInv, NEW n \in Nodes
               PROVE  /\ st[n].earliest <= st[n].floor /\ st[n].floor <= st[n].tail
                      /\ st[n].rows = st[n].floor .. st[n].tail - 1
                      /\ \A q \in 0 .. st[n].tail - 1 :
                           Cardinality({g \in st[n].segs : g[1] <= q /\ q < g[2]}) =
                             IF st[n].earliest <= q /\ q < st[n].floor THEN 1 ELSE 0
    BY DEF EveryEntryPlaced
  <2>1. Laid(st[n])
    BY TablesLaid
  <2>2. \A q \in 0 .. st[n].tail - 1 :
          Cardinality({g \in st[n].segs : g[1] <= q /\ q < g[2]}) =
            IF st[n].earliest <= q /\ q < st[n].floor THEN 1 ELSE 0
    BY <2>1, LaidPlaced
  <2> QED BY <2>1, <2>2 DEF Laid
<1> QED BY <1>1, StreamTheorem, PTL

\* seal_loop and gc_trimmed_cold_segments: every segment in the committed
\* tables can be fetched from the node that sealed it.
THEOREM BlobsTheorem == Spec => []IndexedBlobsExist
<1>1. StreamInv => IndexedBlobsExist
  BY DEF StreamInv
<1> QED BY <1>1, StreamTheorem, PTL

\* read_at: a reader of an entry that its replica had is never told that it is
\* not written yet.
THEOREM EmptyTheorem == Spec => []NoFalseEmpty
<1>1. StreamInv => NoFalseEmpty
  BY DEF StreamInv
<1> QED BY <1>1, StreamTheorem, PTL
=============================================================================
