------------------------- MODULE EcReplicationProofs -------------------------
(***************************************************************************)
(* Proofs about EcReplication, for any keys, peers, batch size, retention, *)
(* and any number of writes, timeouts, failures, restarts and snapshots:   *)
(* types, that a merge never takes a row back when nothing is deleted      *)
(* (NoRollback), and, for one writer and while no peer falls behind the    *)
(* WAL, that acknowledgements and the watermark cover only writes that     *)
(* were given (NothingSkipped, CommittedIsReplicated).                     *)
(***************************************************************************)
EXTENDS EcReplication, FiniteSetTheorems, WellFoundedInduction, TLAPS

----------------------------------------------------------------------------
(* Numbers *)

LEMMA LeastExists ==
  ASSUME NEW S \in SUBSET Nat, S # {}
  PROVE  \E x \in S : \A y \in S : x <= y
<1> DEFINE R == OpToRel(<, Nat)
<1>1. PICK x \in S : \A y \in S : ~(<<y, x>> \in R)
  <2>1. IsWellFoundedOn(R, Nat)
    BY NatLessThanWellFounded
  <2> HIDE DEF R
  <2> QED BY <2>1, WFMin
<1>2. \A y \in S : x <= y
  <2> TAKE y \in S
  <2>1. x \in Nat /\ y \in Nat
    OBVIOUS
  <2>2. ~(y < x)
    BY <1>1, <2>1 DEF OpToRel
  <2> QED BY <2>1, <2>2
<1> QED BY <1>2

\* Induction on the naturals, for a set.
LEMMA ByStep ==
  ASSUME NEW T \in SUBSET Nat, 0 \in T, \A n \in T : n + 1 \in T
  PROVE  T = Nat
<1> DEFINE D == Nat \ T
<1> SUFFICES ASSUME D # {} PROVE FALSE
  OBVIOUS
<1>1. PICK x \in D : \A y \in D : x <= y
  <2>1. D \in SUBSET Nat
    OBVIOUS
  <2> HIDE DEF D
  <2> QED BY <2>1, LeastExists
<1>2. x # 0 /\ x - 1 \in Nat
  OBVIOUS
<1>3. x - 1 \in T
  BY <1>1, <1>2
<1> QED BY <1>2, <1>3

LEMMA MinOf ==
  ASSUME NEW S \in SUBSET Nat, S # {}
  PROVE  Min(S) \in S /\ \A y \in S : Min(S) <= y
BY LeastExists DEF Min

LEMMA MaxOf ==
  ASSUME NEW S \in SUBSET Nat, S # {}, NEW b \in Nat, \A x \in S : x <= b
  PROVE  Max(S) \in S /\ \A y \in S : Max(S) >= y
<1> DEFINE U == {u \in Nat : \A x \in S : x <= u}
<1>1. PICK u \in U : \A v \in U : u <= v
  <2>1. U \in SUBSET Nat /\ U # {}
    OBVIOUS
  <2> HIDE DEF U
  <2> QED BY <2>1, LeastExists
<1>2. u \in S
  <2> SUFFICES ASSUME u \notin S PROVE FALSE
    OBVIOUS
  <2>1. PICK x \in S : TRUE
    OBVIOUS
  <2>2. u # 0 /\ \A y \in S : y <= u - 1
    BY <2>1
  <2>3. u - 1 \in U
    BY <2>2
  <2> QED BY <1>1, <2>3
<1>3. \A y \in S : u >= y
  OBVIOUS
<1> QED BY <1>2, <1>3 DEF Max

LEMMA MaxOfTwo ==
  ASSUME NEW a \in Int, NEW b \in Int
  PROVE  /\ Max({a, b}) \in {a, b} /\ Max({a, b}) >= a /\ Max({a, b}) >= b
<1>1. \E x \in {a, b} : \A y \in {a, b} : x >= y
  <2>1. CASE a >= b
    BY <2>1
  <2>2. CASE ~(a >= b)
    BY <2>2
  <2> QED BY <2>1, <2>2
<1> QED BY <1>1 DEF Max

----------------------------------------------------------------------------
(* What a peer makes of a request *)

MergeStep(f, t, mine, s) ==
  LET before == IF s = 0 THEN t ELSE f[s - 1]
  IN  IF \E r \in mine : r.seq = s
      THEN Merge(before, (CHOOSE r \in mine : r.seq = s).e) ELSE before

IsMerges(f, t, mine, n) == f = [s \in 0 .. n |-> MergeStep(f, t, mine, s)]

LEMMA MergesExist ==
  ASSUME NEW t, NEW mine, NEW last \in Nat
  PROVE  \E f : IsMerges(f, t, mine, last)
<1> DEFINE T == {n \in Nat : \E f : IsMerges(f, t, mine, n)}
<1>1. 0 \in T
  <2> DEFINE f == [s \in 0 .. 0 |-> MergeStep(<<>>, t, mine, s)]
  <2>1. \A g : MergeStep(g, t, mine, 0) = MergeStep(<<>>, t, mine, 0)
    BY DEF MergeStep
  <2>2. f = [s \in 0 .. 0 |-> MergeStep(f, t, mine, s)]
    BY <2>1
  <2>3. IsMerges(f, t, mine, 0)
    BY <2>2 DEF IsMerges
  <2> HIDE DEF f
  <2> QED BY <2>3
<1>2. ASSUME NEW n \in T PROVE n + 1 \in T
  <2>1. PICK f : IsMerges(f, t, mine, n)
    BY <1>2
  <2> DEFINE g == [s \in 0 .. n + 1 |-> IF s = n + 1 THEN MergeStep(f, t, mine, s) ELSE f[s]]
  <2>2. ASSUME NEW s \in 0 .. n + 1 PROVE g[s] = MergeStep(g, t, mine, s)
    <3>1. s = 0 \/ (s - 1 \in 0 .. n + 1 /\ g[s - 1] = f[s - 1])
      OBVIOUS
    <3>2. MergeStep(g, t, mine, s) = MergeStep(f, t, mine, s)
      <4> HIDE DEF g
      <4> QED BY <3>1 DEF MergeStep
    <3>3. CASE s = n + 1
      BY <3>2, <3>3
    <3>4. CASE s # n + 1
      <4>1. s \in 0 .. n
        BY <3>4
      <4>2. f[s] = MergeStep(f, t, mine, s)
        BY <2>1, <4>1 DEF IsMerges
      <4> QED BY <3>2, <3>4, <4>2
    <3> QED BY <3>3, <3>4
  <2>3. g = [s \in 0 .. n + 1 |-> MergeStep(g, t, mine, s)]
    BY <2>2
  <2>4. IsMerges(g, t, mine, n + 1)
    BY <2>3 DEF IsMerges
  <2> HIDE DEF g
  <2> QED BY <2>4
<1>3. T = Nat
  <2>1. T \in SUBSET Nat
    OBVIOUS
  <2> HIDE DEF T
  <2> QED BY <1>1, <1>2, <2>1, ByStep
<1> QED BY <1>3

LEMMA MergesSteps ==
  ASSUME NEW t, NEW mine, NEW last \in Nat
  PROVE  \A s \in 0 .. last :
           Merges(t, mine, last)[s] = MergeStep(Merges(t, mine, last), t, mine, s)
<1>1. Merges(t, mine, last) = CHOOSE f : IsMerges(f, t, mine, last)
  BY DEF Merges, IsMerges, MergeStep
<1>2. IsMerges(Merges(t, mine, last), t, mine, last)
  BY <1>1, MergesExist
<1> QED BY <1>2 DEF IsMerges

\* No row of a set makes a table older.
Newer(t, u, ops) == u \in [Keys -> Nat] /\ ("delete" \notin ops => \A k \in Keys : u[k] >= t[k])

LEMMA MergeNewer ==
  ASSUME NEW t \in [Keys -> Nat], NEW r \in Row
  PROVE  Newer(t, Merge(t, r.e), Ops)
<1>1. r.e.op \in Ops \cup {"set"} /\ r.e.key \in Keys /\ r.e.at \in Nat
  BY DEF Row
<1>2. "delete" \notin Ops => r.e.op = "set"
  BY <1>1, EcAssumption
<1> QED BY <1>1, <1>2 DEF Newer, Merge, Written, Absent

LEMMA NewerTwice ==
  ASSUME NEW t \in [Keys -> Nat], NEW u, NEW v, Newer(t, u, Ops), Newer(u, v, Ops)
  PROVE  Newer(t, v, Ops)
BY DEF Newer

LEMMA MergesNewer ==
  ASSUME NEW t \in [Keys -> Nat], NEW mine \in SUBSET Row, NEW last \in Nat
  PROVE  Newer(t, Merges(t, mine, last)[last], Ops)
<1> DEFINE f == Merges(t, mine, last)
           T == {s \in Nat : s <= last => Newer(t, f[s], Ops)}
<1>1. \A s \in 0 .. last : f[s] = MergeStep(f, t, mine, s)
  BY MergesSteps
<1> HIDE DEF f
<1>2. Newer(t, t, Ops)
  BY DEF Newer
<1>3. ASSUME NEW s \in 0 .. last, NEW u, Newer(t, u, Ops), u = IF s = 0 THEN t ELSE f[s - 1]
      PROVE  Newer(t, f[s], Ops)
  <2>1. u \in [Keys -> Nat]
    BY <1>3 DEF Newer
  <2>2. CASE \E r \in mine : r.seq = s
    <3> DEFINE r == CHOOSE r \in mine : r.seq = s
    <3>1. r \in Row
      BY <2>2
    <3>2. f[s] = Merge(u, r.e)
      BY <1>1, <1>3, <2>2 DEF MergeStep
    <3> HIDE DEF r
    <3>3. Newer(u, Merge(u, r.e), Ops)
      BY <2>1, <3>1, MergeNewer
    <3> QED BY <1>3, <3>2, <3>3, NewerTwice
  <2>3. CASE ~\E r \in mine : r.seq = s
    <3>1. f[s] = u
      BY <1>1, <1>3, <2>3 DEF MergeStep
    <3> QED BY <1>3, <3>1
  <2> QED BY <2>2, <2>3
<1>4. 0 \in T
  BY <1>2, <1>3
<1>5. ASSUME NEW s \in T PROVE s + 1 \in T
  <2> SUFFICES ASSUME s + 1 <= last PROVE Newer(t, f[s + 1], Ops)
    OBVIOUS
  <2>1. s + 1 \in 0 .. last /\ (s + 1) - 1 = s /\ s + 1 # 0
    OBVIOUS
  <2>2. Newer(t, f[s], Ops)
    BY <1>5
  <2> QED BY <1>3, <2>1, <2>2
<1>6. T = Nat
  <2>1. T \in SUBSET Nat
    OBVIOUS
  <2> HIDE DEF T
  <2> QED BY <1>4, <1>5, <2>1, ByStep
<1> QED BY <1>6 DEF f

LEMMA MergeAllNewer ==
  ASSUME NEW t \in [Keys -> Nat], NEW rows \in SUBSET Row, NEW c \in Nat, \A r \in rows : r.seq <= c
  PROVE  Newer(t, MergeAll(t, rows), Ops)
<1> DEFINE mine(k) == {r \in rows : r.e.key = k}
           last(k) == Max({0} \cup {r.seq : r \in mine(k)})
<1>1. \A k \in Keys : mine(k) \in SUBSET Row /\ last(k) \in Nat
  <2> TAKE k \in Keys
  <2>1. mine(k) \in SUBSET Row
    OBVIOUS
  <2>2. {0} \cup {r.seq : r \in mine(k)} \in SUBSET Nat
    BY <2>1 DEF Row
  <2>3. \A x \in {0} \cup {r.seq : r \in mine(k)} : x <= c
    OBVIOUS
  <2>4. last(k) \in {0} \cup {r.seq : r \in mine(k)}
    BY <2>2, <2>3, MaxOf
  <2> QED BY <2>1, <2>2, <2>4
<1>2. MergeAll(t, rows) = [k \in Keys |-> Merges(t, mine(k), last(k))[last(k)][k]]
  BY DEF MergeAll
<1> HIDE DEF mine, last
<1>3. \A k \in Keys : Newer(t, Merges(t, mine(k), last(k))[last(k)], Ops)
  BY <1>1, MergesNewer
<1> QED BY <1>2, <1>3 DEF Newer

----------------------------------------------------------------------------
(* Types *)

Typed == TypeOK /\ UnderWay

Sending == {NoSend} \cup Request \cup [kind : {"reading", "acked"}, cover : Nat]

LEMMA SendingKinds ==
  ASSUME NEW m \in Sending
  PROVE  /\ m.kind \in {"none", "batch", "snapshot", "reading", "acked"}
         /\ m.kind = "none" => m = NoSend
         /\ m # NoSend => m.kind # "none" /\ m.cover \in Nat
         /\ m.kind \in {"batch", "snapshot"} => m \in Request
BY DEF Sending, Request, NoSend

LEMMA RequestRows ==
  ASSUME NEW m \in Request
  PROVE  /\ m.kind \in {"batch", "snapshot"} /\ m.cover \in Nat /\ m.rows \in SUBSET Row
         /\ Given(m) \in SUBSET Nat
<1>1. m.kind \in {"batch", "snapshot"} /\ m.cover \in Nat /\ m.rows \in SUBSET Row
  BY DEF Request
<1>2. m.kind # "batch" => m.seqs \in SUBSET Nat
  BY DEF Request
<1>3. \A r \in m.rows : r.seq \in Nat
  BY <1>1 DEF Row
<1> QED BY <1>1, <1>2, <1>3 DEF Given

LEMMA CallFields ==
  ASSUME NEW c \in {Idle} \cup Call
  PROVE  /\ c.pc \in {"idle", "append", "apply"}
         /\ c.pc = "idle" <=> c = Idle
         /\ c # Idle => c \in Call /\ c.seq \in Nat /\ c.e \in Entry
BY DEF Call, Idle

LEMMA InitTyped == Init => Typed
<1> SUFFICES ASSUME Init PROVE TypeOK /\ UnderWay
  BY DEF Typed
<1>1. TypeOK
  BY DEF Init, TypeOK, Absent
<1>2. UnderWay
  BY DEF Init, UnderWay, NoSend, Idle
<1> QED BY <1>1, <1>2

LEMMA TakeSeqTyped ==
  ASSUME Typed, NEW w \in Writers, NEW op \in Ops, NEW k \in Keys, TakeSeq(w, op, k)
  PROVE  Typed'
<1> DEFINE e == [op |-> op, key |-> k, at |-> clock + 1]
           c == [pc |-> "append", seq |-> nextSeq, e |-> e]
<1>1. nextSeq \in Nat \ {0} /\ clock \in Nat
  BY DEF Typed, TypeOK, UnderWay
<1>2. e \in Entry
  BY <1>1 DEF Entry
<1>3. c \in Call /\ c # Idle /\ c.seq = nextSeq
  BY <1>1, <1>2 DEF Call, Idle
<1>4. writer' = [writer EXCEPT ![w] = c]
  BY DEF TakeSeq
<1> HIDE DEF c, e
<1>5. writer' \in [Writers -> {Idle} \cup Call]
  BY <1>3, <1>4 DEF Typed, UnderWay
<1>6. \A v \in Writers : writer'[v] # Idle => writer'[v].seq \in 1 .. nextSeq' - 1
  BY <1>1, <1>3, <1>4 DEF Typed, UnderWay, TakeSeq
<1>7. nextSeq' \in Nat /\ nextSeq' = nextSeq + 1 /\ clock' \in Nat
  BY <1>1 DEF TakeSeq
<1>8. TypeOK'
  BY <1>1, <1>7 DEF Typed, TypeOK, UnderWay, TakeSeq, walVars, sendVars
<1>9. \A p \in Peers : flight'[p] # NoSend => flight'[p].cover < nextSeq'
  <2> TAKE p \in Peers
  <2>1. flight[p] \in Sending /\ flight' = flight
    BY DEF Typed, UnderWay, Sending, TakeSeq, sendVars
  <2> QED BY <1>1, <1>7, <2>1, SendingKinds DEF Typed, UnderWay
<1>10. UnderWay'
  BY <1>5, <1>6, <1>7, <1>9 DEF Typed, UnderWay, TakeSeq, walVars, sendVars, histVars
<1> QED BY <1>8, <1>10 DEF Typed

LEMMA AppendTyped ==
  ASSUME Typed, NEW w \in Writers, Append(w)
  PROVE  Typed'
<1> DEFINE s == writer[w].seq
           c == [writer[w] EXCEPT !.pc = "apply"]
<1>1. writer[w] \in Call /\ writer[w] # Idle
  BY CallFields DEF Typed, UnderWay, Append
<1>2. s \in 1 .. nextSeq - 1 /\ writer[w].e \in Entry /\ nextSeq \in Nat /\ diskNext \in Nat \ {0}
  BY <1>1 DEF Typed, UnderWay, Call
<1>3. c \in Call /\ c # Idle /\ c.seq = s
  BY <1>1 DEF Call, Idle
<1>4. writer' = [writer EXCEPT ![w] = c]
  BY DEF Append
<1>5. /\ diskNext' \in {diskNext, s + 1} /\ diskNext' >= diskNext /\ diskNext' >= s + 1
  <2> DEFINE b == s + 1
  <2>1. diskNext' = Max({diskNext, b})
    BY DEF Append
  <2>2. diskNext \in Int /\ b \in Int
    BY <1>2
  <2>3. diskNext' \in {diskNext, b} /\ diskNext' >= diskNext /\ diskNext' >= b
    <3> HIDE DEF b
    <3> QED BY <2>1, <2>2, MaxOfTwo
  <2> QED BY <2>3
<1> HIDE DEF c
<1>6. DOMAIN wal' = DOMAIN wal \cup {s} /\ wal' \in [DOMAIN wal' -> Entry]
  BY <1>2 DEF Typed, TypeOK, Append
<1>7. TypeOK'
  BY <1>2, <1>5, <1>6 DEF Typed, TypeOK, UnderWay, Append, sendVars
<1>8. UnderWay'
  BY <1>2, <1>3, <1>4, <1>5 DEF Typed, UnderWay, Append, sendVars, histVars
<1> QED BY <1>7, <1>8 DEF Typed

LEMMA ApplyTyped ==
  ASSUME Typed, NEW w \in Writers, ApplyLocal(w) \/ ApplyFails(w)
  PROVE  Typed'
<1>1. writer[w] \in Call /\ writer[w] # Idle
  BY CallFields DEF Typed, UnderWay, ApplyLocal, ApplyFails
<1>2. writer[w].seq \in Nat /\ writer[w].e \in Entry
  BY <1>1 DEF Call
<1>3. table' \in [Keys -> Nat]
  BY <1>2 DEF Typed, TypeOK, ApplyLocal, ApplyFails, Written, Absent, Entry
<1>4. DOMAIN wal' \subseteq DOMAIN wal /\ wal' \in [DOMAIN wal' -> Entry]
  BY DEF Typed, TypeOK, ApplyLocal, ApplyFails, walVars
<1>5. TypeOK'
  BY <1>3, <1>4 DEF Typed, TypeOK, UnderWay, ApplyLocal, ApplyFails, walVars, sendVars
<1>6. writer' \in [Writers -> {Idle} \cup Call]
      /\ \A v \in Writers : writer'[v] # Idle => writer'[v] = writer[v]
  BY DEF Typed, UnderWay, ApplyLocal, ApplyFails
<1>7. applied' \subseteq Nat /\ tokens' \subseteq Nat
  BY <1>2 DEF Typed, UnderWay, ApplyLocal, ApplyFails
<1>8. UnderWay'
  BY <1>6, <1>7 DEF Typed, UnderWay, ApplyLocal, ApplyFails, walVars, sendVars
<1> QED BY <1>5, <1>8 DEF Typed

\* The floor of the compaction.
LEMMA FloorBounds ==
  ASSUME Typed, Peers # {}
  PROVE  CompactFloor \in Nat
<1> DEFINE A == {acked[p] : p \in Peers}
           a == nextSeq - Retention
           b == Min(A)
<1>1. A \in SUBSET Nat /\ A # {} /\ nextSeq \in Nat
  BY DEF Typed, TypeOK, UnderWay
<1>2. b \in Nat
  <2> HIDE DEF A
  <2> QED BY <1>1, MinOf
<1>3. CompactFloor = Max({a, b})
  BY DEF CompactFloor
<1>4. a \in Int
  BY <1>1, EcAssumption
<1> HIDE DEF a, b
<1>5. Max({a, b}) \in {a, b} /\ Max({a, b}) >= b
  BY <1>2, <1>4, MaxOfTwo
<1> QED BY <1>2, <1>3, <1>4, <1>5

\* The watermark is an acknowledged seq that a majority is at or beyond, or 0.
LEMMA WatermarkBounds ==
  ASSUME Typed
  PROVE  /\ Watermark(acked) \in Nat /\ Watermark(acked) < nextSeq
         /\ VoterPeers # {} => \/ Watermark(acked) = 0
                               \/ /\ \E p \in VoterPeers : Watermark(acked) = acked[p]
                                  /\ 2 * (1 + Cardinality({p \in VoterPeers : acked[p] >= Watermark(acked)}))
                                       > 1 + Cardinality(VoterPeers)
<1>1. nextSeq \in Nat \ {0} /\ \A p \in VoterPeers : acked[p] \in 0 .. nextSeq - 1
  BY EcAssumption DEF Typed, TypeOK, UnderWay
<1>2. CASE VoterPeers = {}
  BY <1>1, <1>2 DEF Watermark
<1>3. CASE VoterPeers # {}
  <2> DEFINE P(s) == 2 * (1 + Cardinality({p \in VoterPeers : acked[p] >= s})) > 1 + Cardinality(VoterPeers)
             S == {0} \cup {s \in {acked[p] : p \in VoterPeers} : P(s)}
  <2>1. Watermark(acked) = Max(S)
    BY <1>3 DEF Watermark
  <2>2. \A s \in S : s = 0 \/ (P(s) /\ \E p \in VoterPeers : s = acked[p])
    OBVIOUS
  <2>3. S \in SUBSET Nat /\ S # {} /\ nextSeq - 1 \in Nat /\ \A s \in S : s <= nextSeq - 1
    <3> HIDE DEF P
    <3> QED BY <1>1
  <2> DEFINE b == nextSeq - 1
  <2>4. Max(S) \in S
    <3> HIDE DEF S, b
    <3>1. b \in Nat /\ \A s \in S : s <= b
      BY <2>3 DEF b
    <3> QED BY <2>3, <3>1, MaxOf
  <2>5. Max(S) \in Nat /\ Max(S) < nextSeq
    <3> HIDE DEF S
    <3>1. Max(S) \in Nat /\ Max(S) <= nextSeq - 1
      BY <2>3, <2>4
    <3> QED BY <1>1, <3>1
  <2>6. Max(S) = 0 \/ (P(Max(S)) /\ \E p \in VoterPeers : Max(S) = acked[p])
    <3> HIDE DEF S, P
    <3> QED BY <2>2, <2>4
  <2> QED BY <2>1, <2>5, <2>6
<1> QED BY <1>2, <1>3

\* A batch takes every drained entry up to its last one.
LEMMA BatchBounds ==
  ASSUME Typed, NEW p \in Peers
  PROVE  /\ Batch(p) \subseteq DOMAIN wal /\ Batch(p) \subseteq 1 .. nextSeq - 1
         /\ Batch(p) # {} => Max(Batch(p)) \in Batch(p) /\ \A s \in Batch(p) : s <= Max(Batch(p))
         /\ \A m \in Batch(p), s \in Drained : s > acked[p] /\ s <= m => s \in Batch(p)
<1> DEFINE fresh == {s \in Drained : s > acked[p]}
           Below(s) == {t \in fresh : t < s}
<1>1. nextSeq \in Nat \ {0} /\ acked[p] \in Nat /\ DOMAIN wal \subseteq 1 .. nextSeq - 1
  BY DEF Typed, TypeOK, UnderWay
<1>2. Batch(p) = {s \in fresh : Cardinality(Below(s)) < MaxBatch}
  BY DEF Batch
<1>3. fresh \subseteq DOMAIN wal /\ fresh \subseteq 1 .. nextSeq - 1
  BY <1>1 DEF Drained
<1>4. ASSUME Batch(p) # {}
      PROVE  Max(Batch(p)) \in Batch(p) /\ \A s \in Batch(p) : s <= Max(Batch(p))
  <2> DEFINE b == nextSeq - 1
             B == Batch(p)
  <2>1. b \in Nat /\ B \in SUBSET Nat /\ B # {} /\ \A s \in B : s <= b
    BY <1>1, <1>2, <1>3, <1>4
  <2>2. B \in SUBSET Nat /\ Max(B) \in B /\ \A s \in B : Max(B) >= s
    <3> HIDE DEF b, B
    <3> QED BY <2>1, MaxOf
  <2> QED BY <2>2
<1>5. ASSUME NEW m \in Batch(p), NEW s \in Drained, s > acked[p], s <= m
      PROVE  s \in Batch(p)
  <2>1. m \in fresh /\ s \in fresh /\ Cardinality(Below(m)) < MaxBatch
    BY <1>2, <1>5
  <2>2. Below(s) \subseteq Below(m) /\ Below(m) \subseteq 1 .. nextSeq - 1
    BY <1>3, <1>5, <2>1
  <2> HIDE DEF Below
  <2>3. IsFiniteSet(Below(m))
    <3>1. 1 \in Int /\ nextSeq - 1 \in Int
      BY <1>1
    <3>2. IsFiniteSet(1 .. nextSeq - 1)
      BY <3>1, FS_Interval
    <3> QED BY <2>2, <3>2, FS_Subset
  <2>4. /\ IsFiniteSet(Below(s)) /\ Cardinality(Below(s)) <= Cardinality(Below(m))
    BY <2>2, <2>3, FS_Subset
  <2>5. Cardinality(Below(s)) \in Nat /\ Cardinality(Below(m)) \in Nat
    BY <2>3, <2>4, FS_CardinalityType
  <2>6. Cardinality(Below(s)) < MaxBatch
    BY <2>1, <2>4, <2>5, EcAssumption
  <2> QED BY <1>2, <2>1, <2>6
<1> QED BY <1>2, <1>3, <1>4, <1>5

\* What a pass leaves in flight to a peer.
LEMMA SpawnFlight ==
  ASSUME Typed, NEW ready \in SUBSET Peers, spawn_ec_replications(ready), NEW p \in Peers
  PROVE  \/ flight'[p] = flight[p]
         \/ /\ needsSnapshot[p]
            /\ flight'[p] = [kind |-> "reading", cover |-> nextSeq - 1]
         \/ /\ flight[p] = NoSend /\ Batch(p) # {}
            /\ flight'[p] = [kind |-> "batch", cover |-> Max(Batch(p)),
                             rows |-> {[seq |-> s, e |-> wal[s]] : s \in Batch(p)}]
BY DEF spawn_ec_replications, SendsSnapshot, Sends

LEMMA BatchRequest ==
  ASSUME Typed, NEW p \in Peers, Batch(p) # {},
         NEW m, m = [kind |-> "batch", cover |-> Max(Batch(p)),
                     rows |-> {[seq |-> s, e |-> wal[s]] : s \in Batch(p)}]
  PROVE  /\ m \in Request /\ m # NoSend /\ m.kind = "batch" /\ m.cover < diskNext
         /\ m.cover \in Batch(p) /\ m.rows \in SUBSET Row
         /\ \A r \in m.rows : r.seq <= m.cover
         /\ Given(m) = Batch(p)
<1> DEFINE B == Batch(p)
           c == Max(B)
           rows == {[seq |-> s, e |-> wal[s]] : s \in B}
<1>1. B \subseteq DOMAIN wal /\ B \subseteq Nat /\ c \in B /\ \A s \in B : s <= c
  <2>1. nextSeq \in Nat
    BY DEF Typed, UnderWay
  <2> QED BY <2>1, BatchBounds
<1>2. c \in Nat /\ c < diskNext
  BY <1>1 DEF Typed, TypeOK, UnderWay
<1> HIDE DEF c, B
<1>3. rows \in SUBSET Row
  <2>1. \A s \in B : wal[s] \in Entry
    BY <1>1 DEF Typed, TypeOK
  <2> QED BY <1>1, <2>1 DEF Row, Entry
<1>4. (\A r \in rows : r.seq <= c) /\ {r.seq : r \in rows} = B
  <2>1. \A r \in rows : r.seq \in B
    OBVIOUS
  <2>2. ASSUME NEW s \in B PROVE s \in {r.seq : r \in rows}
    <3>1. [seq |-> s, e |-> wal[s]] \in rows /\ [seq |-> s, e |-> wal[s]].seq = s
      OBVIOUS
    <3> HIDE DEF rows
    <3> QED BY <3>1
  <2> HIDE DEF rows
  <2> QED BY <1>1, <2>1, <2>2
<1>5. m = [kind |-> "batch", cover |-> c, rows |-> rows]
  BY DEF B, c
<1>6. Given(m) = B
  BY <1>4, <1>5 DEF Given
<1> HIDE DEF rows
<1>7. m \in Request /\ m # NoSend /\ m.kind = "batch" /\ m.cover = c /\ m.rows = rows
  BY <1>2, <1>3, <1>5 DEF Request, NoSend
<1>8. m.rows \in SUBSET Row /\ \A r \in m.rows : r.seq <= m.cover
  BY <1>3, <1>4, <1>7
<1> QED BY <1>1, <1>2, <1>6, <1>7, <1>8 DEF B

LEMMA SpawnTyped ==
  ASSUME Typed, NEW ready \in SUBSET Peers, spawn_ec_replications(ready)
  PROVE  Typed'
<1>1. nextSeq \in Nat \ {0} /\ diskNext \in Nat /\ diskNext <= nextSeq /\ earliest \in Nat \ {0} /\ watermark \in Nat
  BY DEF Typed, TypeOK, UnderWay
<1>2. /\ UNCHANGED <<table, raftSnap, diskNext, nextSeq, writer, acked, late, timeouts,
                     peerTable, clock, crashes, snapshots, histVars, got>>
      /\ Peers # {}
  BY DEF spawn_ec_replications
<1>3. earliest' \in Nat \ {0}
  <2> DEFINE f == CompactFloor + 1
  <2>1. f \in Nat \ {0}
    BY <1>2, FloorBounds
  <2>2. earliest' = Max({earliest, f})
    BY DEF spawn_ec_replications
  <2> HIDE DEF f
  <2> QED BY <1>1, <2>1, <2>2, MaxOfTwo
<1>4. watermark' \in Nat /\ (watermark < nextSeq => watermark' < nextSeq)
  <2> DEFINE v == Watermark(acked)
  <2>1. v \in Nat /\ v < nextSeq
    BY WatermarkBounds
  <2>2. watermark' = Max({watermark, v})
    BY DEF spawn_ec_replications
  <2> HIDE DEF v
  <2>3. watermark' \in {watermark, v}
    BY <1>1, <2>1, <2>2, MaxOfTwo
  <2> QED BY <1>1, <2>1, <2>3
<1>5. DOMAIN wal' \subseteq DOMAIN wal /\ wal' \in [DOMAIN wal' -> Entry]
  BY DEF Typed, TypeOK, spawn_ec_replications
<1>6. TypeOK'
  BY <1>1, <1>2, <1>3, <1>4, <1>5 DEF Typed, TypeOK
<1>7. ASSUME NEW p \in Peers
      PROVE  /\ flight'[p] \in Sending
             /\ flight'[p] # NoSend => flight'[p].cover < nextSeq
             /\ flight'[p].kind \in {"batch", "snapshot"} =>
                  \A r \in flight'[p].rows : r.seq <= flight'[p].cover
  <2>1. CASE flight'[p] = flight[p]
    BY <2>1 DEF Typed, UnderWay, Sending
  <2>2. CASE flight'[p] = [kind |-> "reading", cover |-> nextSeq - 1]
    BY <1>1, <2>2 DEF Sending
  <2>3. CASE Batch(p) # {} /\ flight'[p] = [kind |-> "batch", cover |-> Max(Batch(p)),
                             rows |-> {[seq |-> s, e |-> wal[s]] : s \in Batch(p)}]
    <3> DEFINE m == flight'[p]
    <3>1. m \in Request /\ m.cover < diskNext /\ \A r \in m.rows : r.seq <= m.cover
      BY <2>3, BatchRequest
    <3>2. m.cover \in Nat
      BY <3>1, RequestRows
    <3> QED BY <1>1, <3>1, <3>2 DEF Sending
  <2> QED BY <2>1, <2>2, <2>3, SpawnFlight
<1>8. flight' \in [Peers -> Sending]
  <2>1. DOMAIN flight' = Peers /\ flight' = [p \in Peers |-> flight'[p]]
    BY DEF spawn_ec_replications
  <2> QED BY <1>7, <2>1
<1>9. needsSnapshot' \in [Peers -> BOOLEAN]
  <2> DEFINE N(p) == IF p \notin {q \in ready : flight[q] = NoSend} THEN needsSnapshot[p]
                     ELSE IF SendsSnapshot(p) THEN TRUE ELSE Behind(p)
  <2>1. needsSnapshot' = [p \in Peers |-> N(p)]
    BY Zenon DEF spawn_ec_replications
  <2>2. ASSUME NEW p \in Peers PROVE N(p) \in BOOLEAN
    <3>1. needsSnapshot[p] \in BOOLEAN
      BY DEF Typed, UnderWay
    <3>2. Behind(p) \in BOOLEAN
      <4>1. acked[p] \in Nat /\ earliest \in Nat
        BY DEF Typed, TypeOK
      <4>2. CASE acked[p] + 1 < earliest
        BY <4>1, <4>2 DEF Behind
      <4>3. CASE ~(acked[p] + 1 < earliest)
        BY <4>1, <4>3 DEF Behind
      <4> QED BY <4>2, <4>3
    <3> QED BY <3>1, <3>2, Zenon
  <2> HIDE DEF N
  <2> QED BY <2>1, <2>2
<1>10. UnderWay'
  BY <1>2, <1>7, <1>8, <1>9 DEF Typed, UnderWay, Sending, histVars
<1> QED BY <1>6, <1>10 DEF Typed

LEMMA AdvanceTyped ==
  ASSUME Typed, AdvanceAlone
  PROVE  Typed'
<1>1. watermark' \in Nat /\ watermark' < nextSeq
  BY WatermarkBounds DEF AdvanceAlone
<1>2. TypeOK'
  BY <1>1 DEF Typed, TypeOK, AdvanceAlone, sendVars
<1>3. UnderWay'
  BY DEF Typed, UnderWay, AdvanceAlone, sendVars, histVars
<1> QED BY <1>2, <1>3 DEF Typed

\* A change of what is in flight to one peer.
LEMMA FlightTyped ==
  ASSUME Typed, NEW p \in Peers, NEW m \in Sending,
         m # NoSend => m.cover < nextSeq,
         m.kind \in {"batch", "snapshot"} => \A r \in m.rows : r.seq <= m.cover,
         flight' = [flight EXCEPT ![p] = m]
  PROVE  /\ flight' \in [Peers -> Sending]
         /\ \A q \in Peers : flight'[q] # NoSend => flight'[q].cover < nextSeq
         /\ \A q \in Peers : flight'[q].kind \in {"batch", "snapshot"} =>
              \A r \in flight'[q].rows : r.seq <= flight'[q].cover
<1>1. flight \in [Peers -> Sending]
  BY DEF Typed, UnderWay, Sending
<1>2. \A q \in Peers : flight'[q] = IF q = p THEN m ELSE flight[q]
  BY <1>1
<1>3. flight' \in [Peers -> Sending]
  BY <1>1
<1> QED BY <1>2, <1>3 DEF Typed, UnderWay

LEMMA ReadSnapshotTyped ==
  ASSUME Typed, NEW p \in Peers, ReadSnapshot(p)
  PROVE  Typed'
<1> DEFINE c == flight[p].cover
           rows == {[seq |-> c, e |-> [op |-> "set", key |-> k, at |-> table[k]]] :
                      k \in {j \in Keys : table[j] # Absent}}
           m == [kind |-> "snapshot", cover |-> c, seqs |-> applied, rows |-> rows]
<1>1. flight[p] \in Sending /\ flight[p].kind = "reading"
  BY DEF Typed, UnderWay, Sending, ReadSnapshot
<1>2. c \in Nat /\ c < nextSeq
  BY <1>1, SendingKinds DEF Typed, UnderWay, NoSend
<1>3. flight' = [flight EXCEPT ![p] = m]
  BY DEF ReadSnapshot
<1> HIDE DEF c
<1>4. rows \in SUBSET Row /\ \A r \in rows : r.seq = c
  BY <1>2 DEF Row, Typed, TypeOK
<1> HIDE DEF rows
<1>5. m \in Request /\ m # NoSend /\ m.cover = c /\ m.rows = rows
  BY <1>2, <1>4 DEF Request, NoSend, Typed, UnderWay
<1> HIDE DEF m
<1>6. m \in Sending /\ \A r \in m.rows : r.seq <= m.cover
  BY <1>2, <1>4, <1>5 DEF Sending
<1>7. /\ flight' \in [Peers -> Sending]
      /\ \A q \in Peers : flight'[q] # NoSend => flight'[q].cover < nextSeq
      /\ \A q \in Peers : flight'[q].kind \in {"batch", "snapshot"} =>
           \A r \in flight'[q].rows : r.seq <= flight'[q].cover
  BY <1>2, <1>3, <1>5, <1>6, FlightTyped
<1>8. TypeOK'
  BY DEF Typed, TypeOK, ReadSnapshot, walVars
<1>9. UnderWay'
  BY <1>7 DEF Typed, UnderWay, Sending, ReadSnapshot, walVars, histVars
<1> QED BY <1>8, <1>9 DEF Typed

LEMMA DeliverTyped ==
  ASSUME Typed, NEW p \in Peers, Deliver(p)
  PROVE  /\ Typed'
         /\ \A q \in Peers : Newer(peerTable[q], peerTable'[q], Ops)
<1> DEFINE m == flight[p]
           a == [kind |-> "acked", cover |-> m.cover]
           u == MergeAll(peerTable[p], m.rows)
           g == got[p] \cup Given(m)
<1>1. m \in Request
  BY SendingKinds DEF Typed, UnderWay, Sending, Deliver
<1>2. m.kind \in {"batch", "snapshot"} /\ m.cover \in Nat /\ m.rows \in SUBSET Row /\ Given(m) \in SUBSET Nat
  BY <1>1, RequestRows
<1>3. m.cover < nextSeq /\ \A r \in m.rows : r.seq <= m.cover
  BY <1>2 DEF Typed, UnderWay, NoSend
<1>4. peerTable \in [Peers -> [Keys -> Nat]] /\ got \in [Peers -> SUBSET Nat]
  BY DEF Typed, TypeOK, UnderWay
<1>5. /\ peerTable' = [peerTable EXCEPT ![p] = u] /\ got' = [got EXCEPT ![p] = g]
      /\ flight' = [flight EXCEPT ![p] = a]
  BY <1>4 DEF Deliver, Typed, UnderWay
<1>6. Newer(peerTable[p], u, Ops)
  <2> HIDE DEF m
  <2> QED BY <1>2, <1>3, <1>4, MergeAllNewer
<1>7. \A q \in Peers : Newer(peerTable[q], peerTable'[q], Ops)
  <2>1. \A q \in Peers : Newer(peerTable[q], peerTable[q], Ops)
    BY <1>4 DEF Newer
  <2> HIDE DEF u
  <2> QED BY <1>4, <1>5, <1>6, <2>1
<1>8. peerTable' \in [Peers -> [Keys -> Nat]] /\ got' \in [Peers -> SUBSET Nat]
  <2>1. u \in [Keys -> Nat] /\ g \in SUBSET Nat
    BY <1>2, <1>4, <1>6 DEF Newer
  <2> HIDE DEF u, g
  <2> QED BY <1>4, <1>5, <2>1
<1>9. a \in Sending /\ a # NoSend /\ a.kind = "acked" /\ a.cover < nextSeq
  BY <1>2, <1>3 DEF Sending, NoSend
<1>10. /\ flight' \in [Peers -> Sending]
       /\ \A q \in Peers : flight'[q] # NoSend => flight'[q].cover < nextSeq
       /\ \A q \in Peers : flight'[q].kind \in {"batch", "snapshot"} =>
            \A r \in flight'[q].rows : r.seq <= flight'[q].cover
  <2> HIDE DEF a
  <2> QED BY <1>5, <1>9, FlightTyped
<1>11. TypeOK'
  BY <1>8 DEF Typed, TypeOK, Deliver, walVars
<1>12. UnderWay'
  BY <1>8, <1>10 DEF Typed, UnderWay, Sending, Deliver, walVars, histVars
<1> QED BY <1>7, <1>11, <1>12 DEF Typed

LEMMA ReceiveAckTyped ==
  ASSUME Typed, NEW p \in Peers, ReceiveAck(p)
  PROVE  /\ Typed' /\ acked' = [acked EXCEPT ![p] = acked'[p]]
         /\ acked'[p] \in {acked[p], flight[p].cover}
<1> DEFINE c == flight[p].cover
           a == Max({acked[p], c})
<1>1. c \in Nat /\ c < nextSeq
  BY SendingKinds DEF Typed, UnderWay, Sending, NoSend, ReceiveAck
<1>2. acked \in [Peers -> 0 .. nextSeq - 1] /\ nextSeq \in Nat
  BY DEF Typed, TypeOK, UnderWay
<1>3. acked' = [acked EXCEPT ![p] = a]
  BY <1>2 DEF ReceiveAck
<1>4. a \in {acked[p], c}
  <2> DEFINE b == acked[p]
  <2>1. b \in Int /\ c \in Int
    BY <1>1, <1>2
  <2>2. Max({b, c}) \in {b, c}
    <3> HIDE DEF b, c
    <3> QED BY <2>1, MaxOfTwo
  <2> QED BY <2>2
<1> HIDE DEF a
<1>5. acked' \in [Peers -> 0 .. nextSeq - 1] /\ acked'[p] = a
  BY <1>1, <1>2, <1>3, <1>4
<1>6. /\ flight' \in [Peers -> Sending]
      /\ \A q \in Peers : flight'[q] # NoSend => flight'[q].cover < nextSeq
      /\ \A q \in Peers : flight'[q].kind \in {"batch", "snapshot"} =>
           \A r \in flight'[q].rows : r.seq <= flight'[q].cover
  <2>1. NoSend \in Sending /\ ~(NoSend.kind \in {"batch", "snapshot"})
    BY DEF Sending, NoSend
  <2>2. flight' = [flight EXCEPT ![p] = NoSend]
    BY DEF ReceiveAck
  <2> QED BY <2>1, <2>2, FlightTyped
<1>7. TypeOK'
  BY <1>5 DEF Typed, TypeOK, ReceiveAck, walVars
<1>8. UnderWay'
  BY <1>6 DEF Typed, UnderWay, Sending, ReceiveAck, walVars, histVars
<1> QED BY <1>3, <1>4, <1>5, <1>7, <1>8 DEF Typed

LEMMA FailSendTyped ==
  ASSUME Typed, NEW p \in Peers, FailSend(p)
  PROVE  Typed'
<1>1. /\ flight' \in [Peers -> Sending]
      /\ \A q \in Peers : flight'[q] # NoSend => flight'[q].cover < nextSeq
      /\ \A q \in Peers : flight'[q].kind \in {"batch", "snapshot"} =>
           \A r \in flight'[q].rows : r.seq <= flight'[q].cover
  <2>1. NoSend \in Sending /\ ~(NoSend.kind \in {"batch", "snapshot"})
    BY DEF Sending, NoSend
  <2>2. flight' = [flight EXCEPT ![p] = NoSend]
    BY DEF FailSend
  <2> QED BY <2>1, <2>2, FlightTyped
<1>2. flight[p].kind \in {"batch", "snapshot"} =>
        flight[p] \in Request /\ \A r \in flight[p].rows : r.seq <= flight[p].cover
  BY SendingKinds DEF Typed, UnderWay, Sending
<1>3. /\ late' \subseteq [to : Peers, m : Request]
      /\ \A x \in late' : \A r \in x.m.rows : r.seq <= x.m.cover
  <2>1. CASE flight[p].kind \in {"batch", "snapshot"}
    <3> DEFINE m == flight[p]
               x == [to |-> p, m |-> m]
    <3>1. late' = late \cup {x}
      BY <2>1 DEF FailSend
    <3>2. x \in [to : Peers, m : Request] /\ x.m = m /\ \A r \in m.rows : r.seq <= m.cover
      BY <1>2, <2>1
    <3> HIDE DEF x, m
    <3> QED BY <3>1, <3>2 DEF Typed, UnderWay
  <2>2. CASE ~(flight[p].kind \in {"batch", "snapshot"})
    BY <2>2 DEF FailSend, Typed, UnderWay
  <2> QED BY <2>1, <2>2
<1>4. TypeOK'
  BY DEF Typed, TypeOK, FailSend, walVars
<1>5. UnderWay'
  BY <1>1, <1>3 DEF Typed, UnderWay, Sending, FailSend, walVars, histVars
<1> QED BY <1>4, <1>5 DEF Typed

LEMMA DeliverLateTyped ==
  ASSUME Typed, NEW x \in late, DeliverLate(x)
  PROVE  /\ Typed'
         /\ \A q \in Peers : Newer(peerTable[q], peerTable'[q], Ops)
<1> DEFINE m == x.m
           p == x.to
           u == MergeAll(peerTable[p], m.rows)
           g == got[p] \cup Given(m)
<1>1. m \in Request /\ p \in Peers /\ \A r \in m.rows : r.seq <= m.cover
  BY DEF Typed, UnderWay
<1>2. m.cover \in Nat /\ m.rows \in SUBSET Row /\ Given(m) \in SUBSET Nat
  BY <1>1, RequestRows
<1>3. peerTable \in [Peers -> [Keys -> Nat]] /\ got \in [Peers -> SUBSET Nat]
  BY DEF Typed, TypeOK, UnderWay
<1>4. /\ peerTable' = [peerTable EXCEPT ![p] = u] /\ got' = [got EXCEPT ![p] = g]
  BY <1>1, <1>3 DEF DeliverLate
<1> HIDE DEF m, p
<1>5. Newer(peerTable[p], u, Ops)
  BY <1>1, <1>2, <1>3, MergeAllNewer
<1>6. \A q \in Peers : Newer(peerTable[q], peerTable'[q], Ops)
  <2>1. \A q \in Peers : Newer(peerTable[q], peerTable[q], Ops)
    BY <1>3 DEF Newer
  <2> HIDE DEF u
  <2> QED BY <1>1, <1>3, <1>4, <1>5, <2>1
<1>7. peerTable' \in [Peers -> [Keys -> Nat]] /\ got' \in [Peers -> SUBSET Nat]
  <2>1. u \in [Keys -> Nat] /\ g \in SUBSET Nat
    BY <1>1, <1>2, <1>3, <1>5 DEF Newer
  <2> HIDE DEF u, g
  <2> QED BY <1>1, <1>3, <1>4, <2>1
<1>8. TypeOK'
  BY <1>7 DEF Typed, TypeOK, DeliverLate, walVars
<1>9. UnderWay'
  BY <1>7 DEF Typed, UnderWay, DeliverLate, walVars, histVars
<1> QED BY <1>6, <1>8, <1>9 DEF Typed

LEMMA RestartTyped ==
  ASSUME Typed, Restart
  PROVE  Typed'
<1>1. diskNext \in Nat \ {0} /\ crashes \in Nat /\ crashes' = crashes + 1 /\ nextSeq' = diskNext
  BY DEF Typed, TypeOK, UnderWay, Restart
<1>2. table' \in [Keys -> Nat]
  BY DEF Typed, TypeOK, Restart
<1>3. acked' \in [Peers -> 0 .. nextSeq' - 1]
  BY <1>1 DEF Restart
<1>4. TypeOK'
  BY <1>1, <1>2, <1>3 DEF Typed, TypeOK, Restart, walVars
<1>5. \A p \in Peers : flight[p].kind \in {"batch", "snapshot"} =>
        flight[p] \in Request /\ \A r \in flight[p].rows : r.seq <= flight[p].cover
  BY SendingKinds DEF Typed, UnderWay, Sending
<1>6. /\ late' \subseteq [to : Peers, m : Request]
      /\ \A x \in late' : \A r \in x.m.rows : r.seq <= x.m.cover
  <2> SUFFICES ASSUME NEW x \in late'
               PROVE  x \in [to : Peers, m : Request] /\ \A r \in x.m.rows : r.seq <= x.m.cover
    OBVIOUS
  <2>1. CASE x \in late
    BY <2>1 DEF Typed, UnderWay
  <2>2. CASE x \notin late
    <3>1. PICK p \in Peers : flight[p].kind \in {"batch", "snapshot"} /\ x = [to |-> p, m |-> flight[p]]
      BY <2>2 DEF Restart
    <3> DEFINE m == flight[p]
    <3>2. m \in Request /\ \A r \in m.rows : r.seq <= m.cover
      BY <1>5, <3>1
    <3>3. x = [to |-> p, m |-> m]
      BY <3>1
    <3> HIDE DEF m
    <3> QED BY <3>2, <3>3
  <2> QED BY <2>1, <2>2
<1>7. /\ flight' = [p \in Peers |-> NoSend] /\ writer' = [w \in Writers |-> Idle]
      /\ needsSnapshot' = [p \in Peers |-> FALSE]
  BY DEF Restart
<1>8. UnderWay'
  BY <1>1, <1>6, <1>7 DEF Typed, UnderWay, NoSend, Restart, walVars, histVars
<1> QED BY <1>4, <1>8 DEF Typed

LEMMA StoreTyped ==
  ASSUME Typed, StoreSnapshot \/ UNCHANGED vars
  PROVE  Typed'
<1>1. TypeOK'
  BY DEF Typed, TypeOK, StoreSnapshot, vars, walVars, sendVars
<1>2. UnderWay'
  BY DEF Typed, UnderWay, StoreSnapshot, vars, walVars, sendVars, histVars
<1> QED BY <1>1, <1>2 DEF Typed

LEMMA NextTyped == Typed /\ [Next]_vars => Typed'
<1> SUFFICES ASSUME Typed, [Next]_vars PROVE Typed'
  OBVIOUS
<1>1. CASE \E w \in Writers, op \in Ops, k \in Keys : TakeSeq(w, op, k)
  BY <1>1, TakeSeqTyped
<1>2. CASE \E w \in Writers : Append(w)
  BY <1>2, AppendTyped
<1>3. CASE \E w \in Writers : ApplyLocal(w) \/ ApplyFails(w)
  BY <1>3, ApplyTyped
<1>4. CASE \E ready \in SUBSET Peers : spawn_ec_replications(ready)
  BY <1>4, SpawnTyped
<1>5. CASE AdvanceAlone
  BY <1>5, AdvanceTyped
<1>6. CASE \E p \in Peers : ReadSnapshot(p)
  BY <1>6, ReadSnapshotTyped
<1>7. CASE \E p \in Peers : Deliver(p)
  BY <1>7, DeliverTyped
<1>8. CASE \E p \in Peers : ReceiveAck(p)
  BY <1>8, ReceiveAckTyped
<1>9. CASE \E p \in Peers : FailSend(p)
  BY <1>9, FailSendTyped
<1>10. CASE \E x \in late : DeliverLate(x)
  BY <1>10, DeliverLateTyped
<1>11. CASE Restart
  BY <1>11, RestartTyped
<1>12. CASE StoreSnapshot \/ UNCHANGED vars
  BY <1>12, StoreTyped
<1> QED BY <1>1, <1>2, <1>3, <1>4, <1>5, <1>6, <1>7, <1>8, <1>9, <1>10, <1>11, <1>12 DEF Next

LEMMA TypedTheorem == Spec => []Typed
<1>1. Init => Typed
  BY InitTyped
<1>2. Typed /\ [Next]_vars => Typed'
  BY NextTyped
<1> QED BY <1>1, <1>2, PTL DEF Spec

\* Every action keeps the counters, the WAL, the cursors and the tables of an
\* owner and its peers in their types: the WAL is below next_seq and nobody
\* acknowledges a seq that was not given out, through any number of restarts.
THEOREM TypesTheorem == Spec => []TypeOK
<1>1. Typed => TypeOK
  BY DEF Typed
<1> QED BY <1>1, TypedTheorem, PTL

\* apply_ec_with_lww: while the owner deletes nothing, no retried batch, no
\* snapshot and no late request takes a row of a peer back to an earlier
\* write.  A delete takes the stamp away with the row, so that nothing is left
\* for a late request to be compared with.
THEOREM RollbackTheorem ==
  ASSUME "delete" \notin Ops
  PROVE  Spec => NoRollback
<1> DEFINE Keep == \A p \in Peers, k \in Keys : peerTable'[p][k] >= peerTable[p][k]
<1>1. Typed /\ [Next]_vars => [Keep]_vars
  <2> SUFFICES ASSUME Typed, Next PROVE Keep
    OBVIOUS
  <2>1. CASE \E p \in Peers : Deliver(p)
    <3>1. \A q \in Peers : Newer(peerTable[q], peerTable'[q], Ops)
      BY <2>1, DeliverTyped
    <3> QED BY <3>1 DEF Newer
  <2>2. CASE \E x \in late : DeliverLate(x)
    <3>1. \A q \in Peers : Newer(peerTable[q], peerTable'[q], Ops)
      BY <2>2, DeliverLateTyped
    <3> QED BY <3>1 DEF Newer
  <2>3. CASE ~(\E p \in Peers : Deliver(p)) /\ ~(\E x \in late : DeliverLate(x))
    <3>1. UNCHANGED peerTable
      BY <2>3 DEF Next, TakeSeq, Append, ApplyLocal, ApplyFails, spawn_ec_replications,
           AdvanceAlone, ReadSnapshot, ReceiveAck, FailSend, StoreSnapshot, Restart
    <3>2. \A p \in Peers, k \in Keys : peerTable[p][k] \in Nat
      BY DEF Typed, TypeOK
    <3> QED BY <3>1, <3>2
  <2> QED BY <2>1, <2>2, <2>3
<1> QED BY <1>1, TypedTheorem, PTL DEF Spec, NoRollback

----------------------------------------------------------------------------
(* Acknowledgements and the watermark cover what was given *)

Shipped == KnownLogged /\ AcksCovered /\ MajorityHolds

LEMMA KnownNumbers ==
  ASSUME Typed, KnownLogged
  PROVE  Known \subseteq Nat /\ diskNext \in Nat \ {0} /\ \A s \in Known : 1 <= s /\ s < diskNext
BY DEF Typed, UnderWay, KnownLogged

\* More holders are a majority still.
LEMMA MoreHolders ==
  ASSUME NEW A \in SUBSET VoterPeers, NEW B \in SUBSET VoterPeers, A \subseteq B,
         2 * (1 + Cardinality(A)) > 1 + Cardinality(VoterPeers)
  PROVE  2 * (1 + Cardinality(B)) > 1 + Cardinality(VoterPeers)
<1>1. IsFiniteSet(VoterPeers)
  BY EcAssumption, FS_Subset
<1>2. IsFiniteSet(B) /\ IsFiniteSet(A) /\ Cardinality(A) <= Cardinality(B)
  BY <1>1, FS_Subset
<1>3. Cardinality(A) \in Nat /\ Cardinality(B) \in Nat /\ Cardinality(VoterPeers) \in Nat
  BY <1>1, <1>2, FS_CardinalityType
<1> QED BY <1>2, <1>3

\* What a step that only forgets writes and gives more keeps.
LEMMA MajorityKept ==
  ASSUME MajorityHolds, Typed, diskNext' \in Nat, diskNext <= diskNext', UNCHANGED watermark,
         Known' \subseteq Known, \A p \in Peers : got[p] \subseteq got'[p]
  PROVE  MajorityHolds'
<1> SUFFICES ASSUME VoterPeers # {}
             PROVE  /\ watermark' < diskNext'
                    /\ 2 * (1 + Cardinality(Holders')) > 1 + Cardinality(VoterPeers)
  BY DEF MajorityHolds
<1>1. Holders \subseteq Holders' /\ Holders \in SUBSET VoterPeers /\ Holders' \in SUBSET VoterPeers
  BY EcAssumption DEF Holders
<1>2. 2 * (1 + Cardinality(Holders)) > 1 + Cardinality(VoterPeers) /\ watermark < diskNext
  BY DEF MajorityHolds
<1>3. watermark' < diskNext'
  BY <1>2 DEF Typed, TypeOK, UnderWay
<1> HIDE DEF Holders
<1>4. 2 * (1 + Cardinality(Holders')) > 1 + Cardinality(VoterPeers)
  BY <1>1, <1>2, MoreHolders
<1> QED BY <1>3, <1>4

LEMMA AcksKept ==
  ASSUME AcksCovered, Typed, diskNext' \in Nat, diskNext <= diskNext',
         UNCHANGED <<acked, needsSnapshot, flight>>,
         Known' \subseteq Known, \A p \in Peers : got[p] \subseteq got'[p]
  PROVE  AcksCovered'
<1> SUFFICES ASSUME NEW p \in Peers
             PROVE  /\ ~needsSnapshot[p] /\ flight[p].kind \in {"none", "batch", "acked"}
                    /\ acked[p] < diskNext' /\ \A s \in Known' : s <= acked[p] => s \in got'[p]
                    /\ flight[p].kind # "none" =>
                         /\ flight[p].cover < diskNext'
                         /\ \A s \in Known' : s <= flight[p].cover =>
                              s \in got'[p] \/ (flight[p].kind = "batch" /\ s \in Given(flight[p]))
  BY DEF AcksCovered, Given
<1>1. acked[p] \in Nat /\ diskNext \in Nat
  BY DEF Typed, TypeOK, UnderWay
<1>2. flight[p].kind # "none" => flight[p].cover \in Nat
  BY SendingKinds DEF Typed, UnderWay, Sending, NoSend
<1> QED BY <1>1, <1>2 DEF AcksCovered

LEMMA TakeSeqShips ==
  ASSUME Typed, Shipped, NEW w \in Writers, NEW op \in Ops, NEW k \in Keys, TakeSeq(w, op, k)
  PROVE  Shipped'
<1>1. diskNext \in Nat /\ nextSeq \in Nat /\ diskNext <= nextSeq /\ UNCHANGED <<diskNext, got, wal, tokens, earliest>>
  BY DEF Typed, TypeOK, UnderWay, TakeSeq, walVars, histVars
<1>2. \A v \in Writers : \/ writer'[v] = writer[v]
                         \/ writer'[v].pc = "append" /\ writer'[v].seq = nextSeq
  BY DEF TakeSeq, Typed, UnderWay
<1>3. Known' \subseteq Known
  BY <1>1, <1>2 DEF Known
<1>4. KnownLogged'
  <2>1. Known' \subseteq 1 .. diskNext' - 1 /\ \A s \in Known' : s \in DOMAIN wal' \/ s < earliest'
    BY <1>1, <1>3 DEF Shipped, KnownLogged
  <2>2. \A v \in Writers : /\ writer'[v].pc = "append" => diskNext' <= writer'[v].seq
                           /\ writer'[v].pc = "apply" => writer'[v].seq \notin tokens'
    BY <1>1, <1>2 DEF Shipped, KnownLogged
  <2> QED BY <2>1, <2>2 DEF KnownLogged
<1>5. AcksCovered'
  BY <1>1, <1>3, AcksKept DEF Shipped, TakeSeq, sendVars
<1>6. MajorityHolds'
  BY <1>1, <1>3, MajorityKept DEF Shipped, TakeSeq, walVars
<1> QED BY <1>4, <1>5, <1>6 DEF Shipped

\* The one action that makes a write known: its seq is above everything that
\* was acknowledged, is in flight or is committed.
LEMMA AppendShips ==
  ASSUME Typed, Shipped, SoleWriter, NEW w \in Writers, Append(w)
  PROVE  Shipped'
<1> DEFINE s == writer[w].seq
<1>1. /\ s \in Nat /\ diskNext \in Nat \ {0} /\ diskNext <= s
      /\ diskNext' \in Nat /\ diskNext <= diskNext' /\ s < diskNext'
  <2>1. s \in Nat /\ diskNext \in Nat \ {0} /\ diskNext <= s
    BY CallFields DEF Typed, UnderWay, Append, Idle, Shipped, KnownLogged
  <2> DEFINE b == s + 1
  <2>2. diskNext' = Max({diskNext, b}) /\ b \in Int /\ diskNext \in Int
    BY <2>1 DEF Append
  <2>3. diskNext' \in {diskNext, b} /\ diskNext' >= diskNext /\ diskNext' >= b
    <3> HIDE DEF b
    <3> QED BY <2>2, MaxOfTwo
  <2> QED BY <2>1, <2>3
<1>2. UNCHANGED <<got, tokens, earliest, watermark, acked, needsSnapshot, flight>>
  BY DEF Append, sendVars, histVars
<1>3. writer'[w].seq = s /\ writer'[w].pc = "apply" /\ \A v \in Writers : v = w
  <2>1. writer[w] \in Call
    BY CallFields DEF Typed, UnderWay, Append, Idle
  <2>2. writer' = [writer EXCEPT ![w] = [writer[w] EXCEPT !.pc = "apply"]]
    BY DEF Append
  <2> QED BY <2>1, <2>2 DEF Call, SoleWriter, Typed, UnderWay
<1>4. Known' \subseteq Known \cup {s} /\ DOMAIN wal' = DOMAIN wal \cup {s}
  <2>1. DOMAIN wal' = DOMAIN wal \cup {s}
    BY DEF Append
  <2> QED BY <1>2, <1>3, <2>1 DEF Known
<1>5. Known \subseteq Nat /\ \A t \in Known : 1 <= t /\ t < diskNext
  BY KnownNumbers DEF Shipped
<1> HIDE DEF s
<1>6. KnownLogged'
  <2>1. Known' \subseteq 1 .. diskNext' - 1
    <3>1. diskNext \in Nat /\ diskNext' \in Nat /\ diskNext <= diskNext' /\ s \in Nat /\ 1 <= s /\ s < diskNext'
      BY <1>1
    <3>2. \A x \in Known : x \in Nat /\ 1 <= x /\ x < diskNext'
      BY <1>5, <3>1
    <3>3. \A x \in Known' : x \in Nat /\ 1 <= x /\ x < diskNext'
      BY <1>4, <3>1, <3>2
    <3> QED BY <3>1, <3>3
  <2>2. \A t \in Known' : t \in DOMAIN wal' \/ t < earliest'
    BY <1>2, <1>4 DEF Shipped, KnownLogged
  <2>3. s \notin tokens
    <3>1. tokens \subseteq Known
      BY DEF Known
    <3> QED BY <1>1, <1>5, <3>1
  <2>4. \A v \in Writers : /\ writer'[v].pc = "append" => diskNext' <= writer'[v].seq
                           /\ writer'[v].pc = "apply" => writer'[v].seq \notin tokens'
    BY <1>2, <1>3, <2>3
  <2> QED BY <2>1, <2>2, <2>4 DEF KnownLogged
<1>7. AcksCovered'
  <2> SUFFICES ASSUME NEW p \in Peers
               PROVE  /\ ~needsSnapshot[p] /\ flight[p].kind \in {"none", "batch", "acked"}
                      /\ acked[p] < diskNext' /\ \A t \in Known' : t <= acked[p] => t \in got[p]
                      /\ flight[p].kind # "none" =>
                           /\ flight[p].cover < diskNext'
                           /\ \A t \in Known' : t <= flight[p].cover =>
                                t \in got[p] \/ (flight[p].kind = "batch" /\ t \in Given(flight[p]))
    BY <1>2 DEF AcksCovered, Given
  <2>1. acked[p] \in Nat /\ (flight[p].kind # "none" => flight[p].cover \in Nat)
    BY SendingKinds DEF Typed, TypeOK, UnderWay, Sending, NoSend
  <2> QED BY <1>1, <1>4, <2>1 DEF AcksCovered, Shipped
<1>8. MajorityHolds'
  <2> SUFFICES ASSUME VoterPeers # {}
               PROVE  /\ watermark' < diskNext'
                      /\ 2 * (1 + Cardinality(Holders')) > 1 + Cardinality(VoterPeers)
    BY DEF MajorityHolds
  <2>1. 2 * (1 + Cardinality(Holders)) > 1 + Cardinality(VoterPeers) /\ watermark < diskNext /\ watermark \in Nat
    BY DEF MajorityHolds, Shipped, Typed, TypeOK
  <2>2. Holders \subseteq Holders' /\ Holders \in SUBSET VoterPeers /\ Holders' \in SUBSET VoterPeers
    BY <1>1, <1>2, <1>4, <2>1 DEF Holders
  <2> HIDE DEF Holders
  <2>3. 2 * (1 + Cardinality(Holders')) > 1 + Cardinality(VoterPeers)
    BY <2>1, <2>2, MoreHolders
  <2> QED BY <1>1, <1>2, <2>1, <2>3
<1> QED BY <1>6, <1>7, <1>8 DEF Shipped

LEMMA ApplyShips ==
  ASSUME Typed, Shipped, SoleWriter, NEW w \in Writers, ApplyLocal(w) \/ ApplyFails(w)
  PROVE  Shipped'
<1> DEFINE s == writer[w].seq
<1>1. /\ UNCHANGED <<got, diskNext, earliest, watermark, acked, needsSnapshot, flight>>
      /\ diskNext \in Nat /\ writer[w].pc = "apply"
  BY DEF ApplyLocal, ApplyFails, walVars, sendVars, Typed, UnderWay
<1>2. \A v \in Writers : writer'[v].pc = "idle"
  BY DEF ApplyLocal, ApplyFails, SoleWriter, Typed, UnderWay, Idle
<1>3. Known' = DOMAIN wal' \cup tokens'
  BY <1>2 DEF Known
<1>4. s \in Known
  BY <1>1 DEF Known
<1>5. Known' \subseteq Known /\ \A t \in Known' : t \in DOMAIN wal => t \in DOMAIN wal'
  <2>1. CASE ApplyLocal(w)
    <3>1. UNCHANGED wal /\ tokens' = tokens \cup {s}
      BY <2>1 DEF ApplyLocal, walVars
    <3> QED BY <1>3, <1>4, <3>1 DEF Known
  <2>2. CASE ApplyFails(w)
    <3>1. DOMAIN wal' = DOMAIN wal \ {s} /\ UNCHANGED tokens
      BY <2>2 DEF ApplyFails
    <3>2. s \notin tokens
      BY <1>1 DEF Shipped, KnownLogged
    <3> QED BY <1>3, <3>1, <3>2 DEF Known
  <2> QED BY <2>1, <2>2
<1>6. KnownLogged'
  <2>1. Known' \subseteq 1 .. diskNext' - 1 /\ \A t \in Known' : t \in DOMAIN wal' \/ t < earliest'
    BY <1>1, <1>5 DEF Shipped, KnownLogged
  <2> QED BY <1>2, <2>1 DEF KnownLogged
<1>7. AcksCovered'
  BY <1>1, <1>5, AcksKept DEF Shipped
<1>8. MajorityHolds'
  BY <1>1, <1>5, MajorityKept DEF Shipped
<1> QED BY <1>6, <1>7, <1>8 DEF Shipped

\* A pass: what it sends covers a peer without a gap, because the peer is not
\* behind the WAL; what it drops is compacted; what it commits is acknowledged.
LEMMA SpawnShips ==
  ASSUME Typed, Shipped, NeverBehind, NEW ready \in SUBSET Peers, spawn_ec_replications(ready)
  PROVE  Shipped'
<1>1. UNCHANGED <<got, diskNext, nextSeq, acked, writer, tokens>> /\ Peers # {}
  BY DEF spawn_ec_replications, histVars
<1>2. /\ diskNext \in Nat \ {0} /\ nextSeq \in Nat /\ diskNext <= nextSeq /\ earliest \in Nat
      /\ acked \in [Peers -> Nat] /\ watermark \in Nat
  BY DEF Typed, TypeOK, UnderWay
<1>3. Known \subseteq Nat /\ \A s \in Known : 1 <= s /\ s < diskNext
  BY KnownNumbers DEF Shipped
<1>4. /\ earliest' \in Nat /\ earliest <= earliest'
      /\ DOMAIN wal' \subseteq DOMAIN wal /\ \A s \in DOMAIN wal : s \in DOMAIN wal' \/ s < earliest'
  <2> DEFINE f == CompactFloor
             b == f + 1
  <2>1. f \in Nat /\ b \in Nat
    BY <1>1, FloorBounds
  <2>2. earliest' = Max({earliest, b}) /\ DOMAIN wal' = {t \in DOMAIN wal : t > f}
    BY DEF spawn_ec_replications
  <2>3. \A s \in DOMAIN wal : s \in Nat
    BY DEF Typed, TypeOK, UnderWay
  <2>4. earliest' \in {earliest, b} /\ earliest' >= earliest /\ earliest' >= b
    <3>1. earliest \in Int /\ b \in Int
      BY <1>2, <2>1
    <3> HIDE DEF b
    <3> QED BY <2>2, <3>1, MaxOfTwo
  <2> HIDE DEF f
  <2> QED BY <1>2, <2>1, <2>2, <2>3, <2>4
<1>5. Known' \subseteq Known
  BY <1>1, <1>4 DEF Known
<1>6. KnownLogged'
  <2>1. \A s \in Known' : s \in DOMAIN wal' \/ s < earliest'
    BY <1>2, <1>3, <1>4, <1>5 DEF Shipped, KnownLogged
  <2> QED BY <1>1, <1>5, <2>1 DEF Shipped, KnownLogged
<1>7. ASSUME NEW p \in Peers, NEW s \in Known, acked[p] < s
      PROVE  s \in Drained
  <2>1. s \in DOMAIN wal \/ s < earliest
    BY DEF Shipped, KnownLogged
  <2>2. earliest <= acked[p] + 1
    BY <1>2 DEF NeverBehind, Behind
  <2> QED BY <1>2, <1>3, <1>7, <2>1, <2>2 DEF Drained
<1>8. AcksCovered'
  <2> SUFFICES ASSUME NEW p \in Peers
               PROVE  /\ ~needsSnapshot'[p] /\ flight'[p].kind \in {"none", "batch", "acked"}
                      /\ acked[p] < diskNext /\ \A s \in Known' : s <= acked[p] => s \in got[p]
                      /\ flight'[p].kind # "none" =>
                           /\ flight'[p].cover < diskNext
                           /\ \A s \in Known' : s <= flight'[p].cover =>
                                s \in got[p] \/ (flight'[p].kind = "batch" /\ s \in Given(flight'[p]))
    BY <1>1 DEF AcksCovered, Given
  <2>1. /\ ~needsSnapshot[p] /\ flight[p].kind \in {"none", "batch", "acked"}
        /\ acked[p] < diskNext /\ \A s \in Known : s <= acked[p] => s \in got[p]
    BY DEF Shipped, AcksCovered
  <2>2. ~needsSnapshot'[p]
    BY <2>1 DEF spawn_ec_replications, SendsSnapshot, NeverBehind
  <2>3. CASE flight'[p] = flight[p]
    BY <1>5, <2>1, <2>2, <2>3 DEF Shipped, AcksCovered
  <2>4. CASE Batch(p) # {} /\ flight'[p] = [kind |-> "batch", cover |-> Max(Batch(p)),
                             rows |-> {[seq |-> s, e |-> wal[s]] : s \in Batch(p)}]
    <3> DEFINE m == flight'[p]
    <3>1. m.kind = "batch" /\ m.cover < diskNext /\ m.cover \in Batch(p) /\ Given(m) = Batch(p)
      BY <2>4, BatchRequest
    <3>2. \A s \in Known : acked[p] < s /\ s <= m.cover => s \in Given(m)
      <4> TAKE s \in Known
      <4> HAVE acked[p] < s /\ s <= m.cover
      <4>1. s \in Drained /\ s > acked[p]
        BY <1>2, <1>3, <1>7
      <4> HIDE DEF m
      <4> QED BY <3>1, <4>1, BatchBounds
    <3>3. m.cover \in Nat
      <4>1. Batch(p) \subseteq Nat
        BY <1>2, BatchBounds
      <4> QED BY <3>1, <4>1
    <3> HIDE DEF m
    <3>4. \A s \in Known' : s <= m.cover => s \in got[p] \/ s \in Given(m)
      <4> TAKE s \in Known'
      <4>1. s \in Known /\ s \in Nat /\ acked[p] \in Nat
        BY <1>2, <1>3, <1>5
      <4>2. s <= acked[p] \/ acked[p] < s
        BY <4>1
      <4> QED BY <2>1, <3>2, <4>1, <4>2
    <3> QED BY <1>5, <2>1, <2>2, <3>1, <3>4 DEF m
  <2> QED BY <2>1, <2>3, <2>4, SpawnFlight
<1>9. MajorityHolds'
  <2> DEFINE v == Watermark(acked)
  <2>1. watermark' = Max({watermark, v}) /\ v \in Nat
    BY WatermarkBounds DEF spawn_ec_replications
  <2>2. watermark' \in {watermark, v}
    <3>1. watermark \in Int /\ v \in Int
      BY <1>2, <2>1
    <3> HIDE DEF v
    <3> QED BY <2>1, <3>1, MaxOfTwo
  <2>3. CASE watermark' = watermark
    BY <1>1, <1>2, <1>5, <2>3, MajorityKept DEF Shipped
  <2>4. CASE watermark' = v /\ VoterPeers # {}
    <3>1. CASE v = 0
      <4>1. Holders' = VoterPeers
        BY <1>3, <1>5, <2>4, <3>1 DEF Holders
      <4>2. Cardinality(VoterPeers) \in Nat
        BY EcAssumption, FS_Subset, FS_CardinalityType
      <4>3. 2 * (1 + Cardinality(Holders')) > 1 + Cardinality(VoterPeers)
        BY <4>1, <4>2
      <4> QED BY <1>1, <1>2, <2>4, <3>1, <4>3 DEF MajorityHolds
    <3>2. CASE v # 0
      <4> DEFINE A == {p \in VoterPeers : acked[p] >= v}
      <4>1. /\ \E p \in VoterPeers : v = acked[p]
            /\ 2 * (1 + Cardinality(A)) > 1 + Cardinality(VoterPeers)
        BY <2>4, <3>2, WatermarkBounds
      <4>2. v < diskNext
        BY <4>1, EcAssumption DEF Shipped, AcksCovered
      <4>3. A \subseteq Holders'
        <5> HIDE DEF v
        <5> SUFFICES ASSUME NEW p \in VoterPeers, acked[p] >= v, NEW s \in Known', s <= v
                     PROVE  s \in got'[p]
          BY <2>4 DEF Holders
        <5>1. p \in Peers /\ s \in Known /\ s \in Nat /\ acked[p] \in Nat
          BY <1>2, <1>3, <1>5, EcAssumption
        <5>2. s <= acked[p]
          BY <2>1, <5>1
        <5> QED BY <1>1, <5>1, <5>2 DEF Shipped, AcksCovered
      <4>4. A \in SUBSET VoterPeers /\ Holders' \in SUBSET VoterPeers
        BY DEF Holders
      <4> HIDE DEF A, v
      <4>5. 2 * (1 + Cardinality(Holders')) > 1 + Cardinality(VoterPeers)
        <5> HIDE DEF Holders
        <5> QED BY <4>1, <4>3, <4>4, MoreHolders
      <4> QED BY <1>1, <2>4, <4>2, <4>5 DEF MajorityHolds
    <3> QED BY <3>1, <3>2
  <2>5. CASE VoterPeers = {}
    BY <2>5 DEF MajorityHolds
  <2> QED BY <2>2, <2>3, <2>4, <2>5
<1> QED BY <1>6, <1>8, <1>9 DEF Shipped

\* What the peers and the network do: the log of the owner stays as it is.
LEMMA LogKept ==
  ASSUME Shipped, UNCHANGED <<wal, diskNext, earliest, writer, tokens>>
  PROVE  Known' = Known /\ KnownLogged'
<1>1. Known' = Known
  BY DEF Known
<1> QED BY <1>1 DEF Shipped, KnownLogged

\* For one peer, what AcksCovered says of every peer.
Covered(g, a, m) ==
  /\ m.kind \in {"none", "batch", "acked"}
  /\ a < diskNext /\ \A s \in Known : s <= a => s \in g
  /\ m.kind # "none" =>
       /\ m.cover < diskNext
       /\ \A s \in Known : s <= m.cover => s \in g \/ (m.kind = "batch" /\ s \in Given(m))

LEMMA CoveredIsAcks ==
  /\ AcksCovered <=> \A p \in Peers : ~needsSnapshot[p] /\ Covered(got[p], acked[p], flight[p])
  /\ UNCHANGED <<Known, diskNext>> =>
       (AcksCovered' <=> \A p \in Peers : ~needsSnapshot'[p] /\ Covered(got'[p], acked'[p], flight'[p]))
BY DEF AcksCovered, Covered, Given

LEMMA MoreCovered ==
  ASSUME NEW g, NEW h, g \subseteq h, NEW a, NEW m, Covered(g, a, m)
  PROVE  Covered(h, a, m) /\ Covered(h, a, NoSend)
BY DEF Covered, NoSend

LEMMA TransferShips ==
  ASSUME Typed, Shipped,
         NEW p \in Peers, Deliver(p) \/ ReceiveAck(p) \/ FailSend(p)
  PROVE  Shipped'
<1>1. /\ UNCHANGED <<wal, diskNext, earliest, writer, tokens, watermark, needsSnapshot>>
      /\ diskNext \in Nat
  BY DEF Deliver, ReceiveAck, FailSend, walVars, histVars, Typed, UnderWay
<1>2. Known' = Known /\ KnownLogged'
  BY <1>1, LogKept
<1>3. got \in [Peers -> SUBSET Nat] /\ acked \in [Peers -> Nat] /\ flight \in [Peers -> Sending]
  BY DEF Typed, TypeOK, UnderWay, Sending
<1>4. \A q \in Peers : ~needsSnapshot[q] /\ Covered(got[q], acked[q], flight[q])
  BY CoveredIsAcks DEF Shipped
<1>5. \A q \in Peers : got[q] \subseteq got'[q]
  BY <1>3 DEF Deliver, ReceiveAck, FailSend
<1>6. \A q \in Peers : q # p => acked'[q] = acked[q] /\ flight'[q] = flight[q]
  BY <1>3 DEF Deliver, ReceiveAck, FailSend
<1>7. Covered(got'[p], acked'[p], flight'[p])
  <2> DEFINE m == flight[p]
             a == acked[p]
             g == got[p]
  <2>1. Covered(g, a, m)
    BY <1>4
  <2>2. CASE Deliver(p)
    <3> DEFINE n == [kind |-> "acked", cover |-> m.cover]
               h == g \cup Given(m)
    <3>1. flight'[p] = n /\ acked'[p] = a /\ got'[p] = h /\ m.kind = "batch"
      BY <1>3, <2>1, <2>2 DEF Deliver, Covered
    <3> HIDE DEF m, a, g
    <3>2. Covered(h, a, n)
      BY <2>1, <3>1 DEF Covered
    <3> QED BY <3>1, <3>2
  <2>3. CASE ReceiveAck(p)
    <3>1. acked'[p] \in {a, m.cover} /\ flight'[p] = NoSend /\ got'[p] = g /\ m.kind = "acked"
      BY <1>3, <2>3, ReceiveAckTyped DEF ReceiveAck
    <3> HIDE DEF m, a, g
    <3>2. Covered(g, acked'[p], NoSend)
      BY <2>1, <3>1 DEF Covered, NoSend
    <3> QED BY <3>1, <3>2
  <2>4. CASE FailSend(p)
    <3>1. acked'[p] = a /\ flight'[p] = NoSend /\ got'[p] = g
      BY <1>3, <2>4 DEF FailSend
    <3> HIDE DEF m, a, g
    <3> QED BY <2>1, <3>1, MoreCovered
  <2> QED BY <2>2, <2>3, <2>4
<1>8. \A q \in Peers : Covered(got'[q], acked'[q], flight'[q])
  BY <1>4, <1>5, <1>6, <1>7, MoreCovered
<1>9. AcksCovered'
  BY <1>1, <1>2, <1>4, <1>8, CoveredIsAcks
<1>10. MajorityHolds'
  BY <1>1, <1>2, <1>5, MajorityKept DEF Shipped
<1> QED BY <1>2, <1>9, <1>10 DEF Shipped

LEMMA LateShips ==
  ASSUME Typed, Shipped, NEW x \in late, DeliverLate(x)
  PROVE  Shipped'
<1>1. /\ UNCHANGED <<wal, diskNext, earliest, writer, tokens, watermark, needsSnapshot, acked, flight>>
      /\ diskNext \in Nat
  BY DEF DeliverLate, walVars, histVars, Typed, UnderWay
<1>2. Known' = Known /\ KnownLogged'
  BY <1>1, LogKept
<1>3. \A q \in Peers : got[q] \subseteq got'[q]
  BY DEF DeliverLate, Typed, UnderWay
<1>4. AcksCovered'
  BY <1>1, <1>2, <1>3, AcksKept DEF Shipped
<1>5. MajorityHolds'
  BY <1>1, <1>2, <1>3, MajorityKept DEF Shipped
<1> QED BY <1>2, <1>4, <1>5 DEF Shipped

LEMMA StoreShips ==
  ASSUME Typed, Shipped, StoreSnapshot \/ UNCHANGED vars
  PROVE  Shipped'
<1>1. UNCHANGED <<wal, diskNext, earliest, writer, tokens, watermark, needsSnapshot, acked, flight, got>>
  BY DEF StoreSnapshot, vars, walVars, sendVars, histVars
<1>2. Known' = Known /\ KnownLogged'
  BY <1>1, LogKept
<1>3. diskNext \in Nat
  BY DEF Typed, UnderWay
<1>4. AcksCovered'
  BY <1>1, <1>2, <1>3, AcksKept DEF Shipped
<1>5. MajorityHolds'
  BY <1>1, <1>2, <1>3, MajorityKept DEF Shipped
<1> QED BY <1>2, <1>4, <1>5 DEF Shipped

\* A restart forgets the cursors, which only loses acknowledgements, and the
\* calls under way, whose entries stay in the WAL.
LEMMA RestartShips ==
  ASSUME Typed, Shipped, Restart
  PROVE  Shipped'
<1>1. /\ UNCHANGED <<wal, diskNext, earliest, tokens, watermark, got>>
      /\ writer' = [w \in Writers |-> Idle] /\ acked' = [p \in Peers |-> 0]
      /\ needsSnapshot' = [p \in Peers |-> FALSE] /\ flight' = [p \in Peers |-> NoSend]
  BY DEF Restart, walVars, histVars
<1>2. diskNext \in Nat \ {0}
  BY DEF Typed, UnderWay
<1>3. Known' \subseteq Known
  BY <1>1 DEF Known, Idle
<1>4. KnownLogged'
  <2>1. Known' \subseteq 1 .. diskNext' - 1 /\ \A s \in Known' : s \in DOMAIN wal' \/ s < earliest'
    BY <1>1, <1>3 DEF Shipped, KnownLogged
  <2>2. \A w \in Writers : writer'[w].pc = "idle"
    BY <1>1 DEF Idle
  <2> QED BY <2>1, <2>2 DEF KnownLogged
<1>5. \A s \in Known' : ~(s <= 0)
  <2>1. \A s \in Known : s \in Nat /\ 1 <= s
    BY KnownNumbers DEF Shipped
  <2> QED BY <1>3, <2>1
<1>6. AcksCovered'
  BY <1>1, <1>2, <1>5 DEF AcksCovered, NoSend
<1>7. MajorityHolds'
  BY <1>1, <1>2, <1>3, MajorityKept DEF Shipped
<1> QED BY <1>4, <1>6, <1>7 DEF Shipped

LEMMA InitShips == Init => Shipped
<1> SUFFICES ASSUME Init PROVE KnownLogged /\ AcksCovered /\ MajorityHolds
  BY DEF Shipped
<1>1. Known = {}
  BY DEF Init, Known, Idle
<1>2. KnownLogged
  BY <1>1 DEF Init, KnownLogged, Idle
<1>3. AcksCovered
  BY <1>1 DEF Init, AcksCovered, NoSend
<1>4. MajorityHolds
  <2>1. Holders = VoterPeers
    BY <1>1 DEF Holders
  <2>2. Cardinality(VoterPeers) \in Nat
    BY EcAssumption, FS_Subset, FS_CardinalityType
  <2>3. 2 * (1 + Cardinality(Holders)) > 1 + Cardinality(VoterPeers)
    BY <2>1, <2>2
  <2> QED BY <2>3 DEF Init, MajorityHolds
<1> QED BY <1>2, <1>3, <1>4

LEMMA NextShips ==
  ASSUME SoleWriter
  PROVE  Typed /\ Shipped /\ NeverBehind /\ [Next]_vars => Shipped'
<1> SUFFICES ASSUME Typed, Shipped, NeverBehind, [Next]_vars PROVE Shipped'
  OBVIOUS
<1>1. CASE \E w \in Writers, op \in Ops, k \in Keys : TakeSeq(w, op, k)
  BY <1>1, TakeSeqShips
<1>2. CASE \E w \in Writers : Append(w)
  BY <1>2, AppendShips
<1>3. CASE \E w \in Writers : ApplyLocal(w) \/ ApplyFails(w)
  BY <1>3, ApplyShips
<1>4. CASE \E ready \in SUBSET Peers : spawn_ec_replications(ready)
  BY <1>4, SpawnShips
<1>5. CASE AdvanceAlone
  <2>1. UNCHANGED <<wal, diskNext, earliest, writer, tokens, needsSnapshot, acked, flight, got>>
    BY <1>5 DEF AdvanceAlone, sendVars, histVars
  <2>2. Known' = Known /\ KnownLogged'
    BY <2>1, LogKept
  <2>3. diskNext \in Nat
    BY DEF Typed, UnderWay
  <2>4. AcksCovered'
    BY <2>1, <2>2, <2>3, AcksKept DEF Shipped
  <2>5. MajorityHolds'
    BY <1>5 DEF AdvanceAlone, MajorityHolds
  <2> QED BY <2>2, <2>4, <2>5 DEF Shipped
<1>6. CASE \E p \in Peers : ReadSnapshot(p)
  BY <1>6 DEF ReadSnapshot, Shipped, AcksCovered
<1>7. CASE \E p \in Peers : Deliver(p) \/ ReceiveAck(p) \/ FailSend(p)
  BY <1>7, TransferShips
<1>8. CASE \E x \in late : DeliverLate(x)
  BY <1>8, LateShips
<1>9. CASE Restart
  BY <1>9, RestartShips
<1>10. CASE StoreSnapshot \/ UNCHANGED vars
  BY <1>10, StoreShips
<1> QED BY <1>1, <1>2, <1>3, <1>4, <1>5, <1>6, <1>7, <1>8, <1>9, <1>10 DEF Next

\* With one writer, and as long as no peer falls behind the WAL, what the owner
\* logged, acknowledged and committed fits together: ShipInv.
THEOREM ShipTheorem ==
  ASSUME SoleWriter
  PROVE  Spec /\ []NeverBehind => []ShipInv
<1>1. Init => Typed /\ Shipped
  BY InitTyped, InitShips
<1>2. Typed /\ Shipped /\ NeverBehind /\ [Next]_vars => Typed' /\ Shipped'
  BY NextTyped, NextShips
<1>3. Typed /\ Shipped => ShipInv
  BY DEF Typed, Shipped, ShipInv
<1> QED BY <1>1, <1>2, <1>3, PTL DEF Spec

\* ec_compact_floor and the per-peer cursor: through lost, late and repeated
\* requests, failures of apply_local and restarts, a write that a peer has
\* acknowledged has reached it, and one it has not is still in the WAL.
THEOREM SkippedTheorem ==
  ASSUME SoleWriter
  PROVE  Spec /\ []NeverBehind => []NothingSkipped
<1>1. ShipInv => NothingSkipped
  <2> SUFFICES ASSUME ShipInv, NEW p \in Peers, NEW s \in tokens, s \notin got[p]
               PROVE  acked[p] < s /\ (s \in DOMAIN wal \/ Behind(p))
    BY DEF NothingSkipped
  <2>1. Typed /\ KnownLogged /\ AcksCovered
    BY DEF ShipInv, Typed
  <2>2. s \in Known /\ s \in Nat
    BY <2>1 DEF Known, Typed, UnderWay
  <2>3. acked[p] \in Nat /\ earliest \in Nat
    BY <2>1 DEF Typed, TypeOK
  <2>4. ~(s <= acked[p])
    BY <2>1, <2>2 DEF AcksCovered
  <2>5. s \in DOMAIN wal \/ s < earliest
    BY <2>1, <2>2 DEF KnownLogged
  <2> QED BY <2>2, <2>3, <2>4, <2>5 DEF Behind
<1> QED BY <1>1, ShipTheorem, PTL

\* is_committed: in the same circumstances, a token at or below the watermark
\* has been given to a majority of the voters, the owner among them.
THEOREM CommittedTheorem ==
  ASSUME SoleWriter
  PROVE  Spec /\ []NeverBehind => []CommittedIsReplicated
<1>1. ShipInv => CommittedIsReplicated
  <2> SUFFICES ASSUME ShipInv, NEW s \in tokens, s <= watermark
               PROVE  2 * (1 + Cardinality({p \in VoterPeers : s \in got[p]})) > 1 + Cardinality(VoterPeers)
    BY DEF CommittedIsReplicated
  <2> DEFINE B == {p \in VoterPeers : s \in got[p]}
  <2>1. CASE VoterPeers = {}
    <3>1. B = {} /\ Cardinality(B) = 0 /\ Cardinality(VoterPeers) = 0
      BY <2>1, FS_EmptySet
    <3> HIDE DEF B
    <3> QED BY <3>1 DEF B
  <2>2. CASE VoterPeers # {}
    <3>1. 2 * (1 + Cardinality(Holders)) > 1 + Cardinality(VoterPeers)
      BY <2>2 DEF ShipInv, MajorityHolds
    <3>2. Holders \subseteq B
      BY DEF Holders, Known
    <3>3. Holders \in SUBSET VoterPeers /\ B \in SUBSET VoterPeers
      BY DEF Holders
    <3> HIDE DEF B, Holders
    <3>4. 2 * (1 + Cardinality(B)) > 1 + Cardinality(VoterPeers)
      BY <3>1, <3>2, <3>3, MoreHolders
    <3> QED BY <3>4 DEF B
  <2> QED BY <2>1, <2>2
<1> QED BY <1>1, ShipTheorem, PTL

----------------------------------------------------------------------------
(* When no peer falls behind *)

InWindow ==
  /\ NeverBehind
  /\ crashes = 0 /\ nextSeq = clock + 1 /\ clock <= MaxWrites

LEMMA WindowKept ==
  ASSUME MaxCrashes = 0, MaxWrites < Retention
  PROVE  Typed /\ InWindow /\ [Next]_vars => InWindow'
<1> SUFFICES ASSUME Typed, InWindow, [Next]_vars PROVE InWindow'
  OBVIOUS
<1>1. /\ acked \in [Peers -> Nat] /\ earliest \in Nat /\ clock \in Nat /\ nextSeq \in Nat
      /\ MaxWrites \in Nat /\ Retention \in Nat
  BY EcAssumption DEF Typed, TypeOK, UnderWay
<1>2. \A p \in Peers : earliest <= acked[p] + 1
  BY <1>1 DEF InWindow, NeverBehind, Behind
<1>3. ASSUME UNCHANGED <<acked, earliest>> PROVE NeverBehind'
  BY <1>3 DEF InWindow, NeverBehind, Behind
<1>4. CASE \E w \in Writers, op \in Ops, k \in Keys : TakeSeq(w, op, k)
  <2>1. /\ UNCHANGED <<acked, earliest, crashes>> /\ clock < MaxWrites
        /\ clock' = clock + 1 /\ nextSeq' = nextSeq + 1
    BY <1>4 DEF TakeSeq, walVars, sendVars
  <2> QED BY <1>1, <1>3, <2>1 DEF InWindow
<1>5. CASE \E ready \in SUBSET Peers : spawn_ec_replications(ready)
  <2>1. UNCHANGED <<acked, crashes, nextSeq, clock>> /\ Peers # {}
    BY <1>5 DEF spawn_ec_replications
  <2> DEFINE A == {acked[p] : p \in Peers}
             a == nextSeq - Retention
             b == Min(A)
             f == CompactFloor
             c == f + 1
  <2>2. b \in Nat /\ \A p \in Peers : b <= acked[p]
    <3>1. A \in SUBSET Nat /\ A # {}
      BY <1>1, <2>1
    <3>2. b \in A /\ \A y \in A : b <= y
      <4> HIDE DEF A
      <4> QED BY <3>1, MinOf
    <3> QED BY <1>1, <3>2
  <2>3. f = Max({a, b}) /\ a \in Int /\ a <= 0
    <3>1. f = Max({a, b})
      BY <2>1 DEF CompactFloor
    <3>2. nextSeq = clock + 1 /\ clock <= MaxWrites
      BY DEF InWindow
    <3>3. a \in Int /\ a <= 0
      BY <1>1, <3>2
    <3> QED BY <3>1, <3>3
  <2>4. f = b
    <3> HIDE DEF a, b
    <3>1. Max({a, b}) \in {a, b} /\ Max({a, b}) >= b
      BY <2>2, <2>3, MaxOfTwo
    <3> QED BY <2>2, <2>3, <3>1
  <2>5. earliest' = Max({earliest, c})
    BY <1>5 DEF spawn_ec_replications
  <2>6. c \in Nat /\ c = b + 1
    BY <2>2, <2>4
  <2>7. earliest' \in {earliest, c}
    <3>1. earliest \in Int /\ c \in Int
      BY <1>1, <2>6
    <3> HIDE DEF c
    <3> QED BY <2>5, <3>1, MaxOfTwo
  <2> HIDE DEF b, c
  <2>8. \A p \in Peers : earliest' <= acked[p] + 1
    BY <1>1, <1>2, <2>2, <2>6, <2>7
  <2>9. NeverBehind'
    BY <1>1, <2>1, <2>6, <2>7, <2>8 DEF NeverBehind, Behind
  <2> QED BY <2>1, <2>9 DEF InWindow
<1>6. CASE \E p \in Peers : ReceiveAck(p)
  <2>1. PICK p \in Peers : ReceiveAck(p)
    BY <1>6
  <2> DEFINE a == acked[p]
             c == flight[p].cover
  <2>2. acked' = [acked EXCEPT ![p] = Max({a, c})] /\ UNCHANGED <<earliest, crashes, nextSeq, clock>>
    BY <1>1, <2>1 DEF ReceiveAck, walVars
  <2>3. a \in Nat /\ c \in Nat
    BY <1>1, <2>1, SendingKinds DEF Typed, UnderWay, Sending, NoSend, ReceiveAck
  <2>4. Max({a, c}) \in {a, c} /\ Max({a, c}) >= a
    <3>1. a \in Int /\ c \in Int
      BY <2>3
    <3> HIDE DEF a, c
    <3> QED BY <3>1, MaxOfTwo
  <2>5. \A q \in Peers : acked'[q] \in Nat /\ acked[q] <= acked'[q]
    <3> DEFINE m == Max({a, c})
    <3>1. m \in Nat /\ m >= acked[p]
      BY <2>3, <2>4
    <3>2. acked' = [acked EXCEPT ![p] = m]
      BY <2>2
    <3> HIDE DEF m
    <3> QED BY <1>1, <3>1, <3>2
  <2>6. NeverBehind'
    BY <1>1, <1>2, <2>2, <2>5 DEF NeverBehind, Behind
  <2> QED BY <2>2, <2>6 DEF InWindow
<1>7. CASE Restart
  BY <1>7 DEF Restart, InWindow
<1>8. CASE \/ \E w \in Writers : Append(w) \/ ApplyLocal(w) \/ ApplyFails(w)
           \/ AdvanceAlone \/ StoreSnapshot
           \/ \E p \in Peers : ReadSnapshot(p) \/ Deliver(p) \/ FailSend(p)
           \/ \E x \in late : DeliverLate(x)
           \/ UNCHANGED vars
  <2>1. UNCHANGED <<acked, earliest, crashes, nextSeq, clock>>
    BY <1>8 DEF Append, ApplyLocal, ApplyFails, AdvanceAlone, StoreSnapshot, ReadSnapshot, Deliver,
         FailSend, DeliverLate, vars, walVars, sendVars
  <2> QED BY <1>3, <2>1 DEF InWindow
<1> QED BY <1>4, <1>5, <1>6, <1>7, <1>8 DEF Next

\* ec_compact_floor: an owner that is not restarted and has written less than
\* its retention window never leaves a peer behind, so that the two theorems
\* above hold of it without more.
THEOREM WindowTheorem ==
  ASSUME MaxCrashes = 0, MaxWrites < Retention
  PROVE  Spec => []NeverBehind
<1>1. Init => InWindow
  BY EcAssumption DEF Init, InWindow, NeverBehind, Behind
<1>2. Typed /\ InWindow /\ [Next]_vars => InWindow'
  BY WindowKept
<1>3. InWindow => NeverBehind
  BY DEF InWindow
<1> QED BY <1>1, <1>2, <1>3, TypedTheorem, PTL DEF Spec
=============================================================================
