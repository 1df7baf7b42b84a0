---------------------------- MODULE EcReplication ----------------------------
(***************************************************************************)
(* The eventually consistent write plane of a zone: an owner node applies  *)
(* metadata writes locally (ZoneConsensus::propose_ec_local) after logging *)
(* them in its replication WAL (raft/src/raft/replication_log.rs); the     *)
(* transport loop ships WAL entries, or a state snapshot, to every peer,   *)
(* which merges them by last writer wins.                                  *)
(*                                                                         *)
(* The plane is specified for owner-partitioned keys: the keys here are    *)
(* the owner's, and only its threads write them.  A value is its           *)
(* modified_at stamp and 0 is an absent key.  Every write takes the next   *)
(* value of the owner's clock, so the stamps of sets and deletes are       *)
(* distinct and comparable.  A pass of the transport loop is one step.     *)
(*                                                                         *)
(* Retention and MaxBatch are parameters of the code; the other Max...     *)
(* constants bound TLC's runs.                                             *)
(***************************************************************************)
EXTENDS Integers, FiniteSets, FiniteSetsExt

CONSTANTS
  Keys,          \* metadata keys of the owner
  Writers,       \* threads that call propose_ec_local
  Ops,           \* subset of {"set", "delete"} the run writes
  Peers,         \* the transport peer map: voters and learners
  VoterPeers,    \* the voters among them, without the owner
  Retention,     \* ec_wal_retention
  MaxBatch,      \* EC_MAX_ENTRIES_PER_BATCH
  MaxWrites,     \* bound on the writes
  MaxTimeouts,   \* bound on the sends that time out
  MaxFailures,   \* bound on the failures of apply_local
  MaxCrashes,    \* bound on the owner's restarts
  MaxSnapshots   \* bound on the raft snapshots the owner stores

ASSUME EcAssumption ==
  /\ Ops \subseteq {"set", "delete"}
  /\ IsFiniteSet(Peers) /\ VoterPeers \subseteq Peers
  /\ Retention \in Nat /\ MaxBatch \in Nat \ {0}
  /\ {MaxWrites, MaxTimeouts, MaxFailures, MaxCrashes, MaxSnapshots} \subseteq Nat

VARIABLES
  table, raftSnap,               \* sm.redb: the owner's metadata; its stored raft snapshot
  wal, diskNext, earliest,       \* ec_replication_log and ec_replication_meta
  watermark,                     \* replicated_watermark
  nextSeq, writer,               \* the sequence counter; the calls under way
  acked, needsSnapshot, flight,  \* ec_peer_state of the transport loop
  late,                          \* requests whose sender gave up and that may still arrive
  peerTable,                     \* metadata of every peer
  clock, timeouts, crashes, snapshots,
  applied, tokens, failed,       \* history: seqs applied by the owner, returned, refused
  got                            \* history: seqs whose write each peer was given

walVars   == <<wal, diskNext, earliest, watermark>>
sendVars  == <<acked, needsSnapshot, flight, late, timeouts>>
histVars  == <<applied, tokens, failed>>
vars == <<table, raftSnap, walVars, nextSeq, writer, sendVars, peerTable,
          clock, crashes, snapshots, histVars, got>>

Absent  == 0
Entry   == [op : Ops, key : Keys, at : Nat]
Idle    == [pc |-> "idle"]
NoSend  == [kind |-> "none"]

Init ==
  /\ table = [k \in Keys |-> Absent] /\ raftSnap = table
  /\ wal = [s \in {} |-> [op |-> "set"]]
  /\ diskNext = 1 /\ earliest = 1 /\ watermark = 0 /\ nextSeq = 1
  /\ writer = [w \in Writers |-> Idle]
  /\ acked = [p \in Peers |-> 0]
  /\ needsSnapshot = [p \in Peers |-> FALSE]
  /\ flight = [p \in Peers |-> NoSend]
  /\ late = {}
  /\ peerTable = [p \in Peers |-> table]
  /\ clock = 0 /\ timeouts = 0 /\ crashes = 0 /\ snapshots = 0
  /\ applied = {} /\ tokens = {} /\ failed = {}
  /\ got = [p \in Peers |-> {}]

----------------------------------------------------------------------------
(* The owner: propose_ec_local *)

\* The sequence number is taken outside of the transaction that logs the entry.
TakeSeq(w, op, k) ==
  /\ writer[w].pc = "idle"
  /\ clock < MaxWrites
  /\ clock' = clock + 1
  /\ nextSeq' = nextSeq + 1
  /\ writer' = [writer EXCEPT ![w] =
       [pc |-> "append", seq |-> nextSeq, e |-> [op |-> op, key |-> k, at |-> clock + 1]]]
  /\ UNCHANGED <<table, raftSnap, walVars, sendVars, peerTable, crashes, snapshots,
                 histVars, got>>

\* ReplicationLog::append: entry and counter in one transaction.
Append(w) ==
  LET s == writer[w].seq
  IN  /\ writer[w].pc = "append"
      /\ wal' = [t \in DOMAIN wal \cup {s} |-> IF t = s THEN writer[w].e ELSE wal[t]]
      /\ diskNext' = Max({diskNext, s + 1})
      /\ writer' = [writer EXCEPT ![w].pc = "apply"]
      /\ UNCHANGED <<table, raftSnap, earliest, watermark, nextSeq, sendVars, peerTable,
                     clock, crashes, snapshots, histVars, got>>

\* apply_local overwrites or deletes without a look at the stamps.
Written(t, e) == [t EXCEPT ![e.key] = IF e.op = "set" THEN e.at ELSE Absent]

ApplyLocal(w) ==
  LET s == writer[w].seq
  IN  /\ writer[w].pc = "apply"
      /\ table' = Written(table, writer[w].e)
      /\ applied' = applied \cup {s}
      /\ tokens' = tokens \cup {s}
      /\ writer' = [writer EXCEPT ![w] = Idle]
      /\ UNCHANGED <<raftSnap, walVars, nextSeq, sendVars, peerTable, clock, crashes,
                     snapshots, failed, got>>

\* apply_local fails: remove_entry, and the caller gets the error.
ApplyFails(w) ==
  LET s == writer[w].seq
  IN  /\ writer[w].pc = "apply"
      /\ Cardinality(failed) < MaxFailures
      /\ wal' = [t \in DOMAIN wal \ {s} |-> wal[t]]
      /\ failed' = failed \cup {s}
      /\ writer' = [writer EXCEPT ![w] = Idle]
      /\ UNCHANGED <<table, raftSnap, diskNext, earliest, watermark, nextSeq, sendVars,
                     peerTable, clock, crashes, snapshots, applied, tokens, got>>

----------------------------------------------------------------------------
(* The transport loop: spawn_ec_replications *)

\* Mutant: the acks of learners count.
Watermark_Learners(ack) ==
  IF VoterPeers = {} THEN nextSeq - 1
  ELSE Max({0} \cup {s \in {ack[p] : p \in Peers} :
         2 * (1 + Cardinality({p \in Peers : ack[p] >= s})) > 1 + Cardinality(VoterPeers)})

\* Mutant: next_seq is taken for the last sequence number.
Watermark_Next(ack) == IF VoterPeers = {} THEN nextSeq ELSE 0

\* compute_ec_watermark: the highest seq that a majority of the voters, the
\* owner among them, has acknowledged; a single voter is its own majority.
Watermark(ack) ==
  IF VoterPeers = {} THEN nextSeq - 1
  ELSE Max({0} \cup {s \in {ack[p] : p \in VoterPeers} :
         2 * (1 + Cardinality({p \in VoterPeers : ack[p] >= s}))
            > 1 + Cardinality(VoterPeers)})

\* Mutant: a peer that never acknowledged anything does not hold the floor.
CompactFloor_Acked ==
  Max({nextSeq - Retention,
       Min({acked[p] : p \in {q \in Peers : acked[q] > 0}} \cup
           (IF \E q \in Peers : acked[q] > 0 THEN {} ELSE {0}))})

\* ec_compact_floor
CompactFloor ==
  Max({nextSeq - Retention, IF Peers = {} THEN 0 ELSE Min({acked[p] : p \in Peers})})

\* drain_unreplicated: what the table holds between earliest_seq and next_seq.
Drained == {s \in DOMAIN wal : earliest <= s /\ s < nextSeq}

\* Mutant: the entry after the acknowledged one is skipped.
Batch_OffByOne(p) ==
  LET fresh == {s \in Drained : s > acked[p] + 1}
  IN  {s \in fresh : Cardinality({t \in fresh : t < s}) < MaxBatch}

\* The entries of one batch for a peer, lowest seqs first.
Batch(p) ==
  LET fresh == {s \in Drained : s > acked[p]}
  IN  {s \in fresh : Cardinality({t \in fresh : t < s}) < MaxBatch}

Behind(p) == acked[p] + 1 < earliest

\* What the pass does for a peer with no send in flight and no backoff.
Sends(p) == ~Behind(p) /\ ~(needsSnapshot[p] /\ acked[p] < earliest) /\ Batch(p) # {}
SendsSnapshot(p) == needsSnapshot[p] /\ acked[p] < earliest

\* One pass.  ready are the peers whose backoff is over.  The snapshot's
\* covering_seq is fixed here; its rows are read later, by the spawned task.
spawn_ec_replications(ready) ==
  LET free == {p \in ready : flight[p] = NoSend}
      idle == Drained = {} /\ \A p \in Peers : ~Behind(p)
      floor == CompactFloor
  IN  /\ Peers # {} /\ ~idle
      /\ flight' = [p \in Peers |->
           CASE p \in free /\ SendsSnapshot(p) ->
                  [kind |-> "reading", cover |-> nextSeq - 1]
             [] p \in free /\ Sends(p) ->
                  [kind |-> "batch", cover |-> Max(Batch(p)),
                   rows |-> {[seq |-> s, e |-> wal[s]] : s \in Batch(p)}]
             [] OTHER -> flight[p]]
      /\ needsSnapshot' = [p \in Peers |->
           IF p \notin free THEN needsSnapshot[p]
           ELSE IF SendsSnapshot(p) THEN TRUE ELSE Behind(p)]
      /\ watermark' = Max({watermark, Watermark(acked)})
      /\ wal' = [s \in {t \in DOMAIN wal : t > floor} |-> wal[s]]
      /\ earliest' = Max({earliest, floor + 1})
      /\ UNCHANGED <<table, raftSnap, diskNext, nextSeq, writer, acked, late, timeouts,
                     peerTable, clock, crashes, snapshots, histVars, got>>

\* A single voter advances its watermark in every pass, idle ones too.
AdvanceAlone ==
  /\ VoterPeers = {} /\ watermark < Watermark(acked)
  /\ watermark' = Watermark(acked)
  /\ UNCHANGED <<table, raftSnap, wal, diskNext, earliest, nextSeq, writer, sendVars,
                 peerTable, clock, crashes, snapshots, histVars, got>>

\* ec_state_snapshot: the rows there are, as sets.  What was deleted is not in it.
ReadSnapshot(p) ==
  /\ flight[p].kind = "reading"
  /\ flight' = [flight EXCEPT ![p] =
       [kind |-> "snapshot", cover |-> flight[p].cover, seqs |-> applied,
        rows |-> {[seq |-> flight[p].cover, e |-> [op |-> "set", key |-> k, at |-> table[k]]] :
                    k \in {j \in Keys : table[j] # Absent}}]]
  /\ UNCHANGED <<table, raftSnap, walVars, nextSeq, writer, acked, needsSnapshot, late,
                 timeouts, peerTable, clock, crashes, snapshots, histVars, got>>

----------------------------------------------------------------------------
(* The peers: apply_ec_from_peer *)

\* Mutant: the merge is not guarded by the stamps.
Merge_Overwrite(t, e) == Written(t, e)

\* apply_ec_with_lww
Merge(t, e) == IF t[e.key] > e.at THEN t ELSE Written(t, e)

\* The table after the rows of one key up to every seq.
Merges(t, mine, last) ==
  LET after[s \in 0 .. last] ==
        LET before == IF s = 0 THEN t ELSE after[s - 1]
        IN  IF \E r \in mine : r.seq = s
            THEN Merge(before, (CHOOSE r \in mine : r.seq = s).e) ELSE before
  IN  after

\* The rows of a request in their order; a request has one row of a key with a
\* seq.
MergeAll(t, rows) ==
  [k \in Keys |->
     LET mine == {r \in rows : r.e.key = k}
         last == Max({0} \cup {r.seq : r \in mine})
     IN  Merges(t, mine, last)[last][k]]

Given(m) == IF m.kind = "batch" THEN {r.seq : r \in m.rows} ELSE m.seqs

\* replicate_entries and snapshot_ec_state answer with what they have applied.
Deliver(p) ==
  /\ flight[p].kind \in {"batch", "snapshot"}
  /\ peerTable' = [peerTable EXCEPT ![p] = MergeAll(@, flight[p].rows)]
  /\ got' = [got EXCEPT ![p] = @ \cup Given(flight[p])]
  /\ flight' = [flight EXCEPT ![p] = [kind |-> "acked", cover |-> @.cover]]
  /\ UNCHANGED <<table, raftSnap, walVars, nextSeq, writer, acked, needsSnapshot, late,
                 timeouts, clock, crashes, snapshots, histVars>>

\* EcCompletion::Acked
ReceiveAck(p) ==
  /\ flight[p].kind = "acked"
  /\ acked' = [acked EXCEPT ![p] = Max({@, flight[p].cover})]
  /\ flight' = [flight EXCEPT ![p] = NoSend]
  /\ UNCHANGED <<table, raftSnap, walVars, nextSeq, writer, needsSnapshot, late, timeouts,
                 peerTable, clock, crashes, snapshots, histVars, got>>

\* EcCompletion::Failed: the request or its answer is lost or late.
FailSend(p) ==
  /\ flight[p].kind # "none"
  /\ timeouts < MaxTimeouts
  /\ timeouts' = timeouts + 1
  /\ flight' = [flight EXCEPT ![p] = NoSend]
  /\ late' = IF flight[p].kind \in {"batch", "snapshot"}
             THEN late \cup {[to |-> p, m |-> flight[p]]} ELSE late
  /\ UNCHANGED <<table, raftSnap, walVars, nextSeq, writer, acked, needsSnapshot,
                 peerTable, clock, crashes, snapshots, histVars, got>>

DeliverLate(x) ==
  /\ peerTable' = [peerTable EXCEPT ![x.to] = MergeAll(@, x.m.rows)]
  /\ got' = [got EXCEPT ![x.to] = @ \cup Given(x.m)]
  /\ late' = late \ {x}
  /\ UNCHANGED <<table, raftSnap, walVars, nextSeq, writer, acked, needsSnapshot, flight,
                 timeouts, clock, crashes, snapshots, histVars>>

----------------------------------------------------------------------------
(* Raft snapshots and restarts of the owner *)

\* store_snapshot: the metadata table, EC writes included.
StoreSnapshot ==
  /\ snapshots < MaxSnapshots
  /\ snapshots' = snapshots + 1
  /\ raftSnap' = table
  /\ UNCHANGED <<table, walVars, nextSeq, writer, sendVars, peerTable, clock, crashes,
                 histVars, got>>

\* The process dies and starts again: setup_zone restores the stored raft
\* snapshot over the tables, and ReplicationLog::new reads its counters.
Restart ==
  /\ crashes < MaxCrashes
  /\ crashes' = crashes + 1
  /\ table' = IF snapshots = 0 THEN table ELSE raftSnap
  /\ nextSeq' = diskNext
  /\ writer' = [w \in Writers |-> Idle]
  /\ acked' = [p \in Peers |-> 0]
  /\ needsSnapshot' = [p \in Peers |-> FALSE]
  /\ flight' = [p \in Peers |-> NoSend]
  /\ late' = late \cup {[to |-> p, m |-> flight[p]] :
                          p \in {q \in Peers : flight[q].kind \in {"batch", "snapshot"}}}
  /\ UNCHANGED <<raftSnap, walVars, timeouts, peerTable, clock, snapshots, histVars, got>>

----------------------------------------------------------------------------
Write(w) == Append(w) \/ ApplyLocal(w)
Transfer(p) == ReadSnapshot(p) \/ Deliver(p) \/ ReceiveAck(p)

Next ==
  \/ \E w \in Writers, op \in Ops, k \in Keys : TakeSeq(w, op, k)
  \/ \E w \in Writers : Append(w)
  \/ \E w \in Writers : ApplyLocal(w)
  \/ \E w \in Writers : ApplyFails(w)
  \/ \E ready \in SUBSET Peers : spawn_ec_replications(ready)
  \/ AdvanceAlone
  \/ \E p \in Peers : ReadSnapshot(p)
  \/ \E p \in Peers : Deliver(p)
  \/ \E p \in Peers : ReceiveAck(p)
  \/ \E p \in Peers : FailSend(p)
  \/ \E x \in late : DeliverLate(x)
  \/ StoreSnapshot
  \/ Restart

Spec == Init /\ [][Next]_vars

\* Calls run to their end; the loop wakes up and every backoff ends; a send
\* that is not lost is delivered, and only boundedly many are lost.
FairSpec ==
  /\ Spec
  /\ \A w \in Writers : WF_vars(Write(w))
  /\ WF_vars(spawn_ec_replications(Peers))
  /\ \A p \in Peers : WF_vars(Transfer(p))
  /\ WF_vars(\E x \in late : DeliverLate(x))

----------------------------------------------------------------------------
(* Properties *)

\* Types; the WAL holds only seqs below the counters, and nobody acknowledges
\* a seq that append has not given out.
TypeOK ==
  /\ table \in [Keys -> Nat] /\ raftSnap \in [Keys -> Nat]
  /\ peerTable \in [Peers -> [Keys -> Nat]]
  /\ wal \in [DOMAIN wal -> Entry]
  /\ DOMAIN wal \subseteq 1 .. diskNext - 1 /\ diskNext <= nextSeq
  /\ earliest \in Nat \ {0} /\ watermark \in Nat
  /\ crashes = 0 => watermark < nextSeq    \* a restart may take nextSeq back
  /\ acked \in [Peers -> 0 .. nextSeq - 1]

\* What is under way: the calls, the requests and their rows.
Row == [seq : Nat, e : [op : Ops \cup {"set"}, key : Keys, at : Nat]]

Call == [pc : {"append", "apply"}, seq : Nat, e : Entry]

Request ==
  [kind : {"batch"}, cover : Nat, rows : SUBSET Row]
  \cup [kind : {"snapshot"}, cover : Nat, seqs : SUBSET Nat, rows : SUBSET Row]

UnderWay ==
  /\ nextSeq \in Nat /\ diskNext \in Nat \ {0} /\ clock \in Nat /\ crashes \in Nat
  /\ writer \in [Writers -> {Idle} \cup Call]
  /\ \A w \in Writers : writer[w] # Idle => writer[w].seq \in 1 .. nextSeq - 1
  /\ flight \in [Peers -> {NoSend} \cup Request \cup [kind : {"reading", "acked"}, cover : Nat]]
  /\ \A p \in Peers : flight[p] # NoSend => flight[p].cover < nextSeq
  /\ late \subseteq [to : Peers, m : Request]
  /\ \A p \in Peers : flight[p].kind \in {"batch", "snapshot"} =>
       \A r \in flight[p].rows : r.seq <= flight[p].cover
  /\ \A x \in late : \A r \in x.m.rows : r.seq <= x.m.cover
  /\ needsSnapshot \in [Peers -> BOOLEAN]
  /\ applied \subseteq Nat /\ tokens \subseteq Nat /\ got \in [Peers -> SUBSET Nat]

\* ec_compact_floor ("keeps every entry any known peer still needs") and the
\* per-peer cursor: a write whose seq a peer has acknowledged has reached it,
\* and one it has not acknowledged is in the WAL or the peer is recognised as
\* behind; with lost answers and late requests, and with restarts as long as
\* no peer falls behind the WAL.
NothingSkipped ==
  \A p \in Peers, s \in tokens :
    \/ s \in got[p]
    \/ acked[p] < s /\ (s \in DOMAIN wal \/ Behind(p))

\* What NothingSkipped rests on, for one writer and as long as no peer is
\* behind the WAL.  Known are the writes that are logged and not undone.
Known ==
  DOMAIN wal \cup tokens \cup {writer[w].seq : w \in {v \in Writers : writer[v].pc = "apply"}}

SoleWriter == \A v, w \in Writers : v = w
NeverBehind == \A p \in Peers : ~Behind(p)

\* A logged write is in the WAL or compacted, and its seq is below the ones
\* that are being logged.
KnownLogged ==
  /\ Known \subseteq 1 .. diskNext - 1
  /\ \A s \in Known : s \in DOMAIN wal \/ s < earliest
  /\ \A w \in Writers : /\ writer[w].pc = "append" => diskNext <= writer[w].seq
                        /\ writer[w].pc = "apply" => writer[w].seq \notin tokens

\* An acknowledgement, on its way too, covers nothing that was not given.
AcksCovered ==
  \A p \in Peers :
    /\ ~needsSnapshot[p] /\ flight[p].kind \in {"none", "batch", "acked"}
    /\ acked[p] < diskNext /\ \A s \in Known : s <= acked[p] => s \in got[p]
    /\ flight[p].kind # "none" =>
         /\ flight[p].cover < diskNext
         /\ \A s \in Known : s <= flight[p].cover =>
              s \in got[p] \/ (flight[p].kind = "batch" /\ s \in Given(flight[p]))

\* A majority holds every write at or below the watermark.
Holders == {p \in VoterPeers : \A s \in Known : s <= watermark => s \in got[p]}
MajorityHolds ==
  VoterPeers # {} =>
    watermark < diskNext /\ 2 * (1 + Cardinality(Holders)) > 1 + Cardinality(VoterPeers)

ShipInv == TypeOK /\ UnderWay /\ KnownLogged /\ AcksCovered /\ MajorityHolds

\* is_committed: "committed" is the majority-acked seq.  A token at or below
\* the watermark has been given to a majority of the voters.
CommittedIsReplicated ==
  \A s \in tokens : s <= watermark =>
    2 * (1 + Cardinality({p \in VoterPeers : s \in got[p]})) > 1 + Cardinality(VoterPeers)

\* spawn_ec_replications: "the materialized state is >= covering_seq".
SnapshotCovers ==
  \A p \in Peers : flight[p].kind = "snapshot" =>
    \A s \in tokens : s <= flight[p].cover => s \in flight[p].seqs

\* is_committed: the WAL "survives a voter crash (redb-persistent WAL,
\* re-applied on restart)": a committed set is in the owner's table until a
\* later write to its key.
CommittedSurvives ==
  \A s \in tokens \cap DOMAIN wal :
    (s <= watermark /\ wal[s].op = "set"
       /\ \A t \in DOMAIN wal : t # s => wal[t].key # wal[s].key
       /\ \A w \in Writers : writer[w] = Idle)
      => table[wal[s].key] = wal[s].at

\* apply_ec_with_lww: "compares the incoming entry's timestamp against the
\* existing metadata to reject stale writes".  A retried batch, a snapshot or
\* a late request never takes a key of a peer back to an earlier write.
NoRollback == [][\A p \in Peers, k \in Keys : peerTable'[p][k] >= peerTable[p][k]]_vars

\* propose_ec_local: a failed write is removed from the WAL, so that it is
\* not "failed locally, committed remotely".
FailedNeverShips == \A p \in Peers : got[p] \cap failed = {}

\* apply_ec_with_lww: on owner-partitioned keys "the merge is trivially
\* convergent".  Once the writes end, every peer gets the rows the owner ended
\* with and keeps them, whatever was deleted before and arrives late.
Converges ==
  <>[](\A p \in Peers, k \in Keys : table[k] # Absent => peerTable[p][k] = table[k])

\* The same for the rows the owner ended without.
DeletesConverge ==
  <>[](\A p \in Peers, k \in Keys : table[k] = Absent => peerTable[p][k] = Absent)
=============================================================================
