------------------------------ MODULE WalStream ------------------------------
(***************************************************************************)
(* One replicated DT_STREAM with a cold tier: the stream commands of the   *)
(* state machine (raft/src/raft/state_machine.rs), the core that appends,  *)
(* seals, trims and reads (kernel/src/core/stream/wal.rs), the blobs of    *)
(* sealed segments (kernel/src/federation/cold_segment.rs) and the         *)
(* observer that reclaims them (raft/src/stream_retention_gc.rs).          *)
(*                                                                         *)
(* The raft log is a sequence of committed commands that every node        *)
(* applies in order, or jumps over with a snapshot.  A payload is known by *)
(* its sequence number, a blob by the base of its segment (it holds the    *)
(* SealBatch payloads from there), and every segment has size 1.           *)
(***************************************************************************)
EXTENDS Integers, Sequences, FiniteSets

CONSTANTS
  Nodes,
  Sealers,       \* nodes that append, and so may seal
  Readers,       \* nodes that read
  HotWindow, SealBatch,
  Retention,     \* cold segments kept; 0 keeps them for ever
  MaxAppends, MaxGiveUps, MaxCrashes, MaxSnapshots   \* bounds

ASSUME StreamAssumption ==
  /\ Sealers \subseteq Nodes /\ Readers \subseteq Nodes
  /\ HotWindow \in Nat /\ SealBatch \in Nat \ {0} /\ Retention \in Nat
  /\ MaxAppends \in Nat /\ MaxGiveUps \in Nat /\ MaxCrashes \in Nat /\ MaxSnapshots \in Nat

VARIABLES
  log,        \* the committed commands
  done,       \* done[n]: how many of them node n has applied
  st,         \* st[n]: the stream tables of node n
  blobs,      \* blobs[n]: bases of the segment blobs node n stores
  gc,         \* gc[n]: blobs handed to the blocking pool for deletion
  flight,     \* proposals that may still be committed
  seal,       \* the seal thread of every node
  known,      \* known_floor
  cache,      \* seg_cache: the base of the cached segment, or -1
  read,       \* the read in progress on every node
  giveups, crashes, snapshots

vars == <<log, done, st, blobs, gc, flight, seal, known, cache, read, giveups, crashes, snapshots>>

Empty == [tail |-> 0, floor |-> 0, earliest |-> 0, rows |-> {}, segs |-> {}]
Idle == [pc |-> "off", base |-> 0]
NoRead == [pc |-> "idle", seq |-> 0, seg |-> <<>>, from |-> 0]

Init ==
  /\ log = <<>>
  /\ done = [n \in Nodes |-> 0]
  /\ st = [n \in Nodes |-> Empty]
  /\ blobs = [n \in Nodes |-> {}]
  /\ gc = [n \in Nodes |-> {}]
  /\ flight = {}
  /\ seal = [n \in Nodes |-> Idle]
  /\ known = [n \in Nodes |-> 0]
  /\ cache = [n \in Nodes |-> -1]
  /\ read = [n \in Nodes |-> NoRead]
  /\ giveups = 0 /\ crashes = 0 /\ snapshots = 0

----------------------------------------------------------------------------
(* execute_metadata_in_txn: a segment is <<base, end, origin>> *)

AppendStreamEntry(s) == [s EXCEPT !.rows = @ \cup {s.tail}, !.tail = @ + 1]

\* Mutant: a stale seal is accepted.
SealRefused_Stale(s, c) == c.end > s.tail

SealRefused(s, c) == c.base # s.floor \/ c.end <= c.base \/ c.end > s.tail

SealStreamSegment(s, c) ==
  IF SealRefused(s, c) THEN s
  ELSE [s EXCEPT !.segs = @ \cup {<<c.base, c.end, c.origin>>},
                 !.rows = @ \ (c.base .. c.end - 1),
                 !.floor = c.end]

TrimRefused(s, c) == c.up_to <= s.earliest \/ c.up_to > s.floor

TrimStreamSegment(s, c) ==
  IF TrimRefused(s, c) THEN s
  ELSE [s EXCEPT !.segs = {g \in @ : g[2] > c.up_to}, !.earliest = c.up_to]

Apply(s, c) ==
  CASE c.type = "append" -> AppendStreamEntry(s)
    [] c.type = "seal"   -> SealStreamSegment(s, c)
    [] c.type = "trim"   -> TrimStreamSegment(s, c)

\* The tables after every prefix of a log.
Replay(l) ==
  LET after[i \in 0 .. Len(l)] == IF i = 0 THEN Empty ELSE Apply(after[i - 1], l[i])
  IN  after

\* The tables after the whole log, as the leader has them.
Leader == Replay(log)[Len(log)]

Count(type) == Cardinality({i \in 1 .. Len(log) : log[i].type = type})

----------------------------------------------------------------------------
(* Writing and sealing *)

\* maybe_trigger_seal, after an append at seq.
Triggered(n, seq) ==
  /\ seal[n].pc = "off"
  /\ seq + 1 >= known[n] + HotWindow + SealBatch

\* push: the append is committed and gets the next offset.
Push(n) ==
  /\ n \in Sealers /\ Count("append") < MaxAppends
  /\ log' = Append(log, [type |-> "append"])
  /\ seal' = IF Triggered(n, Count("append")) THEN [seal EXCEPT ![n].pc = "floor"] ELSE seal
  /\ UNCHANGED <<done, st, blobs, gc, flight, known, cache, read, giveups, crashes, snapshots>>

SealFloor(n) ==
  /\ seal[n].pc = "floor"
  /\ seal' = [seal EXCEPT ![n] = [pc |-> "tail", base |-> st[n].floor]]
  /\ known' = [known EXCEPT ![n] = st[n].floor]
  /\ UNCHANGED <<log, done, st, blobs, gc, flight, cache, read, giveups, crashes, snapshots>>

SealTail(n) ==
  /\ seal[n].pc = "tail"
  /\ seal' = IF st[n].tail < seal[n].base + HotWindow + SealBatch
             THEN [seal EXCEPT ![n] = Idle] ELSE [seal EXCEPT ![n].pc = "frames"]
  /\ UNCHANGED <<log, done, st, blobs, gc, flight, known, cache, read, giveups, crashes, snapshots>>

Batch(base) == base .. base + SealBatch - 1

\* A missing row is a lost race; otherwise the blob is written, or not.
SealFrames(n) ==
  /\ seal[n].pc = "frames"
  /\ \/ /\ Batch(seal[n].base) \subseteq st[n].rows
        /\ blobs' = [blobs EXCEPT ![n] = @ \cup {seal[n].base}]
        /\ seal' = [seal EXCEPT ![n].pc = "propose"]
     \/ seal' = [seal EXCEPT ![n] = Idle] /\ UNCHANGED blobs
  /\ UNCHANGED <<log, done, st, gc, flight, known, cache, read, giveups, crashes, snapshots>>

SealPropose(n) ==
  /\ seal[n].pc = "propose"
  /\ flight' = flight \cup {[type |-> "seal", base |-> seal[n].base,
                             end |-> seal[n].base + SealBatch, origin |-> n]}
  /\ seal' = [seal EXCEPT ![n].pc = "sealing"]
  /\ UNCHANGED <<log, done, st, blobs, gc, known, cache, read, giveups, crashes, snapshots>>

\* Mutant: the list is filled before the budget is tested.
maybe_trim_Early(n) ==
  LET segs == st[n].segs
      drop == {g \in segs : Cardinality({h \in segs : h[1] >= g[1]}) > Retention}
  IN  IF drop = {} THEN {}
      ELSE {[type |-> "trim", up_to |-> CHOOSE e \in {g[2] : g \in drop} : \A g \in drop : g[2] <= e,
             trimmed |-> {g \in segs : Cardinality({h \in segs : h[1] >= g[1]}) >= Retention}, by |-> n]}

\* Mutant: the last segment below the trim is left out of the list.
maybe_trim_Newest(n) ==
  LET segs == st[n].segs
      drop == {g \in segs : Cardinality({h \in segs : h[1] >= g[1]}) > Retention}
  IN  IF drop = {} THEN {}
      ELSE {[type |-> "trim", up_to |-> CHOOSE e \in {g[2] : g \in drop} : \A g \in drop : g[2] <= e,
             trimmed |-> {g \in drop : \E h \in drop : h[1] > g[1]}, by |-> n]}

\* The oldest segments above the budget are dropped, as this node sees them.
maybe_trim(n) ==
  LET segs == st[n].segs
      drop == {g \in segs : Cardinality({h \in segs : h[1] >= g[1]}) > Retention}
  IN  IF drop = {} THEN {}
      ELSE {[type |-> "trim", up_to |-> CHOOSE e \in {g[2] : g \in drop} : \A g \in drop : g[2] <= e,
             trimmed |-> drop, by |-> n]}

SealTrim(n) ==
  /\ seal[n].pc = "trim"
  /\ flight' = flight \cup maybe_trim(n)
  /\ seal' = [seal EXCEPT ![n].pc = IF maybe_trim(n) = {} THEN "floor" ELSE "trimming"]
  /\ UNCHANGED <<log, done, st, blobs, gc, known, cache, read, giveups, crashes, snapshots>>

\* What the thread of the proposer does with the answer: after a seal it goes
\* on, to the trim when there is a budget; a refusal ends the pass; after a
\* trim it goes on whatever the answer.
Answered(c) ==
  LET n == IF c.type = "seal" THEN c.origin ELSE c.by
      mine == \/ c.type = "seal" /\ seal[n] = [pc |-> "sealing", base |-> c.base]
              \/ c.type = "trim" /\ seal[n].pc = "trimming"
      sealed == ~SealRefused(Leader, c)
  IN  /\ seal' = IF ~mine THEN seal
                 ELSE IF c.type = "trim" THEN [seal EXCEPT ![n].pc = "floor"]
                 ELSE IF ~sealed THEN [seal EXCEPT ![n] = Idle]
                 ELSE [seal EXCEPT ![n].pc = IF Retention > 0 THEN "trim" ELSE "floor"]
      /\ known' = IF mine /\ c.type = "seal" /\ sealed THEN [known EXCEPT ![n] = c.end] ELSE known

Commit(c) ==
  /\ c \in flight
  /\ flight' = flight \ {c}
  /\ log' = Append(log, c)
  /\ Answered(c)
  /\ UNCHANGED <<done, st, blobs, gc, cache, read, giveups, crashes, snapshots>>

\* No answer came: the proposal is lost, or may still be committed later.
GiveUp(n) ==
  /\ giveups < MaxGiveUps /\ giveups' = giveups + 1
  /\ seal[n].pc \in {"sealing", "trimming"}
  /\ seal' = IF seal[n].pc = "sealing" THEN [seal EXCEPT ![n] = Idle]
             ELSE [seal EXCEPT ![n].pc = "floor"]
  /\ \/ UNCHANGED flight
     \/ flight' = {c \in flight : IF c.type = "seal" THEN c.origin # n ELSE c.by # n}
  /\ UNCHANGED <<log, done, st, blobs, gc, known, cache, read, crashes, snapshots>>

----------------------------------------------------------------------------
(* Replicas *)

\* The observer ignores the answer and keeps the blobs this node sealed.
Trimmed(n, c) == IF c.type = "trim" THEN {g[1] : g \in {h \in c.trimmed : h[3] = n}} ELSE {}

ApplyNext(n) ==
  /\ done[n] < Len(log)
  /\ LET c == log[done[n] + 1]
     IN  /\ st' = [st EXCEPT ![n] = Apply(@, c)]
         /\ gc' = [gc EXCEPT ![n] = @ \cup Trimmed(n, c)]
  /\ done' = [done EXCEPT ![n] = @ + 1]
  /\ UNCHANGED <<log, blobs, flight, seal, known, cache, read, giveups, crashes, snapshots>>

gc_trimmed_cold_segments(n) ==
  /\ gc[n] # {}
  /\ \E b \in gc[n] : /\ blobs' = [blobs EXCEPT ![n] = @ \ {b}]
                      /\ gc' = [gc EXCEPT ![n] = @ \ {b}]
  /\ UNCHANGED <<log, done, st, flight, seal, known, cache, read, giveups, crashes, snapshots>>

\* A lagging node gets the tables and none of the commands.
InstallSnapshot(n) ==
  /\ snapshots < MaxSnapshots /\ snapshots' = snapshots + 1
  /\ done[n] < Len(log)
  /\ st' = [st EXCEPT ![n] = Leader]
  /\ done' = [done EXCEPT ![n] = Len(log)]
  /\ UNCHANGED <<log, blobs, gc, flight, seal, known, cache, read, giveups, crashes>>

Crash(n) ==
  /\ crashes < MaxCrashes /\ crashes' = crashes + 1
  /\ gc' = [gc EXCEPT ![n] = {}]
  /\ seal' = [seal EXCEPT ![n] = Idle]
  /\ known' = [known EXCEPT ![n] = 0]
  /\ cache' = [cache EXCEPT ![n] = -1]
  /\ read' = [read EXCEPT ![n] = NoRead]
  /\ UNCHANGED <<log, done, st, blobs, flight, giveups, snapshots>>

----------------------------------------------------------------------------
(* Reading: read_at, read_committed, read_cold *)

ReadStart(n, s) ==
  /\ n \in Readers /\ read[n].pc = "idle"
  /\ read' = [read EXCEPT ![n] = [NoRead EXCEPT !.pc = IF s \in st[n].rows THEN "data" ELSE "miss",
                                                !.seq = s, !.from = st[n].tail]]
  /\ UNCHANGED <<log, done, st, blobs, gc, flight, seal, known, cache, giveups, crashes, snapshots>>

ReadGoto(n, l) ==
  /\ read' = [read EXCEPT ![n].pc = l]
  /\ UNCHANGED <<log, done, st, blobs, gc, flight, seal, known, cache, giveups, crashes, snapshots>>

ReadFloor(n) ==
  /\ read[n].pc = "miss"
  /\ ReadGoto(n, IF read[n].seq < st[n].floor THEN "cold" ELSE "none")

ReadCache(n) ==
  /\ read[n].pc = "cold" /\ cache[n] >= 0 /\ read[n].seq \in Batch(cache[n])
  /\ ReadGoto(n, "data")

\* find_segment: the last segment that starts at or before seq, if it holds it.
ReadFind(n) ==
  /\ read[n].pc = "cold" /\ ~(cache[n] >= 0 /\ read[n].seq \in Batch(cache[n]))
  /\ LET seg == {g \in st[n].segs : g[1] <= read[n].seq /\ read[n].seq < g[2]}
     IN  read' = [read EXCEPT ![n].pc = IF seg = {} THEN "none" ELSE "fetch",
                              ![n].seg = IF seg = {} THEN <<>> ELSE CHOOSE g \in seg : TRUE]
  /\ UNCHANGED <<log, done, st, blobs, gc, flight, seal, known, cache, giveups, crashes, snapshots>>

\* The local content store, else the node that sealed the segment.
ReadFetch(n) ==
  /\ read[n].pc = "fetch"
  /\ LET g == read[n].seg
     IN  IF g[1] \in blobs[n] \cup blobs[g[3]]
         THEN /\ read' = [read EXCEPT ![n].pc = "data"]
              /\ cache' = [cache EXCEPT ![n] = g[1]]
         ELSE read' = [read EXCEPT ![n].pc = "failed"] /\ UNCHANGED cache
  /\ UNCHANGED <<log, done, st, blobs, gc, flight, seal, known, giveups, crashes, snapshots>>

\* Mutant: a miss is always taken for the end of the stream.
ReadMiss_Empty(n) == read[n].pc = "none" /\ ReadGoto(n, "empty")

ReadMiss(n) ==
  /\ read[n].pc = "none"
  /\ ReadGoto(n, IF read[n].seq < st[n].earliest THEN "truncated" ELSE "empty")

ReadReturn(n) ==
  /\ read[n].pc \in {"data", "truncated", "empty", "failed"}
  /\ read' = [read EXCEPT ![n] = NoRead]
  /\ UNCHANGED <<log, done, st, blobs, gc, flight, seal, known, cache, giveups, crashes, snapshots>>

----------------------------------------------------------------------------
SealStep(n) ==
  SealFloor(n) \/ SealTail(n) \/ SealFrames(n) \/ SealPropose(n) \/ SealTrim(n) \/ GiveUp(n)

ReadStep(n) ==
  ReadFloor(n) \/ ReadCache(n) \/ ReadFind(n) \/ ReadFetch(n) \/ ReadMiss(n) \/ ReadReturn(n)

Next ==
  \/ \E n \in Nodes :
       \/ Push(n) \/ SealStep(n)
       \/ ApplyNext(n) \/ gc_trimmed_cold_segments(n) \/ InstallSnapshot(n) \/ Crash(n)
       \/ \E s \in 0 .. MaxAppends - 1 : ReadStart(n, s)
       \/ ReadStep(n)
  \/ \E c \in flight : Commit(c)

Spec == Init /\ [][Next]_vars

\* Replicas catch up and the blocking pool runs what it was given.
FairSpec ==
  Spec /\ \A n \in Nodes : WF_vars(ApplyNext(n)) /\ WF_vars(gc_trimmed_cold_segments(n))

----------------------------------------------------------------------------
(* Types *)

Segment == Nat \X Nat \X Nodes

Tables == [tail : Nat, floor : Nat, earliest : Nat, rows : SUBSET Nat, segs : SUBSET Segment]

Command ==
  [type : {"append"}]
  \cup [type : {"seal"}, base : Nat, end : Nat, origin : Nodes]
  \cup [type : {"trim"}, up_to : Nat, trimmed : SUBSET Segment, by : Nodes]

ReadRecord ==
  [pc : {"idle", "miss", "cold", "fetch", "none", "data", "truncated", "empty", "failed"},
   seq : Nat, seg : Segment \cup {<<>>}, from : Nat]

TypeOK ==
  /\ log \in Seq(Command) /\ flight \subseteq Command
  /\ done \in [Nodes -> Nat] /\ st \in [Nodes -> Tables]
  /\ blobs \in [Nodes -> SUBSET Nat] /\ gc \in [Nodes -> SUBSET Nat]
  /\ seal \in [Nodes -> [pc : {"off", "floor", "tail", "frames", "propose", "sealing", "trim",
                               "trimming"}, base : Nat]]
  /\ known \in [Nodes -> Nat] /\ cache \in [Nodes -> Nat \cup {-1}]
  /\ read \in [Nodes -> ReadRecord]

----------------------------------------------------------------------------
(* Properties *)

\* Every entry of a replica is in exactly one place: below earliest it is
\* gone, from there to the floor one segment holds it, and from the floor to
\* the tail it is a row; whatever stale seals and trims were committed.
EveryEntryPlaced ==
  \A n \in Nodes : LET s == st[n] IN
    /\ s.earliest <= s.floor /\ s.floor <= s.tail
    /\ s.rows = s.floor .. s.tail - 1
    /\ \A q \in 0 .. s.tail - 1 :
         Cardinality({g \in s.segs : g[1] <= q /\ q < g[2]}) =
           IF s.earliest <= q /\ q < s.floor THEN 1 ELSE 0

\* A blob outlives its index entry: every segment in the committed tables can
\* be fetched from the node that sealed it.
IndexedBlobsExist == \A g \in Leader.segs : g[1] \in blobs[g[3]]

\* read_at: a reader of an entry that its replica had is never told that it
\* is not written yet, whatever is sealed and trimmed between its steps.
NoFalseEmpty == \A n \in Nodes : read[n].pc = "empty" => read[n].seq >= read[n].from

\* What these three rest on.  Segments are SealBatch long from 0 on, so that
\* the end of one is where another starts.
Aligned(x) == \E i \in 0 .. x : x = i * SealBatch

\* The tables of a stream: EveryEntryPlaced, with the place of the segments.
Laid(s) ==
  /\ s \in Tables
  /\ Aligned(s.earliest) /\ Aligned(s.floor)
  /\ s.earliest <= s.floor /\ s.floor <= s.tail
  /\ s.rows = s.floor .. s.tail - 1
  /\ \A g \in s.segs : /\ Aligned(g[1]) /\ g[2] = g[1] + SealBatch
                        /\ s.earliest <= g[1] /\ g[2] <= s.floor
  /\ \A g, h \in s.segs : g[1] = h[1] => g = h
  /\ \A q \in s.earliest .. s.floor - 1 : \E g \in s.segs : g[1] <= q /\ q < g[2]

\* A seal is of one batch; a trim ends where a segment ends and lists only
\* segments below that.
Sound(c) ==
  /\ c.type = "seal" => Aligned(c.base) /\ c.end = c.base + SealBatch
  /\ c.type = "trim" => Aligned(c.up_to) /\ \A g \in c.trimmed : g[1] < c.up_to

\* Replicas have prefixes of the log, and floor and earliest only grow.
PrefixesLaid ==
  \A i \in 0 .. Len(log) : /\ Laid(Replay(log)[i])
                          /\ Replay(log)[i].floor <= Leader.floor
                          /\ Replay(log)[i].earliest <= Leader.earliest
Copies == \A n \in Nodes : done[n] <= Len(log) /\ st[n] = Replay(log)[done[n]]

\* What is committed or may be: a trim in the log has been done, one in flight
\* is of segments that are sealed, and a seal of a base that is not yet
\* trimmed has its blob.
LogSound ==
  \A i \in 1 .. Len(log) :
    Sound(log[i]) /\ (log[i].type = "trim" => log[i].up_to <= Leader.earliest)
Stored(n, b) == b \in blobs[n] \/ b < Leader.earliest
FlightSound ==
  \A c \in flight : /\ Sound(c)
                    /\ c.type = "seal" => Stored(c.origin, c.base)
                    /\ c.type = "trim" => c.up_to <= Leader.floor
ThreadsSound ==
  \A n \in Nodes : /\ Aligned(seal[n].base)
                   /\ seal[n].pc = "propose" => Stored(n, seal[n].base)
                   /\ \A b \in gc[n] : b < Leader.earliest

\* Where a reader of an entry that its replica had can be.
ReadersKnow ==
  \A n \in Nodes :
    /\ read[n].pc = "fetch" => read[n].seg \in Segment
    /\ read[n].seq < read[n].from =>
         /\ read[n].pc \in {"miss", "cold"} => read[n].seq < st[n].floor
         /\ read[n].pc = "none" => read[n].seq < st[n].earliest

StreamInv ==
  /\ TypeOK /\ PrefixesLaid /\ Copies /\ LogSound /\ FlightSound /\ ThreadsSound /\ ReadersKnow
  /\ IndexedBlobsExist /\ NoFalseEmpty

\* stream_retention_gc.rs: "makes each node reclaim exactly its own blobs -
\* one delete per blob, cluster-wide".  A blob below earliest goes away.
TrimmedIsReclaimed ==
  \A n \in Nodes, b \in 0 .. MaxAppends - 1 :
    (b \in blobs[n] /\ b < Leader.earliest) ~> b \notin blobs[n]

\* What is left of it: where no process dies and no replica skips commands.
ReclaimedUnlessLost == [](crashes + snapshots = 0) => TrimmedIsReclaimed

\* stream_retention_gc.rs: "the index no longer references the blob, so a
\* reader can never reach it".
NoFailedRead == \A n \in Nodes : read[n].pc # "failed"
=============================================================================
