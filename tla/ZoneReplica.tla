----------------------------- MODULE ZoneReplica -----------------------------
(***************************************************************************)
(* One replica of a zone: RaftStorage (raft/src/raft/storage.rs), the      *)
(* FullStateMachine (state_machine.rs) and the ready loop that drives them *)
(* (ZoneConsensusDriver::advance in node.rs), with crashes between durable *)
(* writes and the restart path of ZoneRaftRegistry (zone_registry.rs).     *)
(*                                                                         *)
(* The zone's agreed log is a given here: log[i] is the command committed  *)
(* at index i, and image[i] the state of a machine that has applied        *)
(* log[1..i] in order.  How the log is agreed on is the subject of RaftLog.*)
(*                                                                         *)
(* MaxLog and MaxCrashes bound TLC's runs; CrashPoints says in which       *)
(* phases of the ready loop a run lets the process die.                    *)
(***************************************************************************)
EXTENDS LockState, Sequences, FiniteSetsExt

CONSTANTS
  Keys,          \* metadata keys
  Values,        \* metadata values
  NoValue,       \* what an absent key maps to
  Members,       \* nodes that may join or leave the zone
  Commands,      \* the commands a run commits
  Threshold,     \* snapshot_threshold of the driver
  MaxLog,        \* bound on the log
  MaxCrashes,    \* bound on the crashes
  CrashPoints    \* where the process may die (CrashPoint)

\* A log entry's command.  AdjustCounter always moves the zone's link count
\* by one here.
Command ==
  [op : {"noop"}]
    \cup [op : {"set"}, key : Keys, val : Values]
    \cup [op : {"delete"}, key : Keys]
    \cup [op : {"adjust"}]
    \cup [op : {"join", "leave"}, node : Members]
    \cup [op : {"acquire"}, path : Paths, id : LockIds, max : Nat, ttl : Nat, now : Nat]
    \cup [op : {"extend"}, path : Paths, id : LockIds, ttl : Nat, now : Nat]
    \cup [op : {"release"}, path : Paths, id : LockIds]
    \cup [op : {"force"}, path : Paths]

\* Where the ready loop is: between two Readys; applying committed entries;
\* between store_snapshot and the two transactions of compact; between the
\* two halves of a snapshot install; not running; unable to start.
Phases == {"idle", "applying", "stored", "removed", "installing", "down", "failed"}

ASSUME ReplicaAssumption ==
  /\ Commands \subseteq Command
  /\ NoValue \notin Values
  /\ Threshold \in Nat \ {0}
  /\ MaxLog \in Nat
  /\ MaxCrashes \in Nat
  /\ CrashPoints \subseteq (Phases \ {"down", "failed"}) \cup {"cut"}

VARIABLES
  log, image,                     \* the zone's log and the state after each prefix
  first, stored, hsCommit,        \* raft.redb: first_index, entry keys, HardState
  conf, snap,                     \* raft.redb: ConfState (who has joined), snapshot
  meta, links, applied,           \* sm.redb: metadata, i_links_count, last_applied
  locks, lastApplied,             \* the state machine's memory
  commit, raftApplied, snapAt,    \* raft-rs's cursors, last_index_at_snapshot
  refresh,                        \* membership_changed_since_snapshot
  pc, crashes

zoneVars  == <<log, image>>
diskVars  == <<first, stored, hsCommit, conf, snap>>
tableVars == <<meta, links, applied>>
memVars   == <<locks, lastApplied, commit, raftApplied, snapAt, refresh>>
vars      == <<zoneVars, diskVars, tableVars, memVars, pc, crashes>>

NoMeta == [k \in Keys |-> NoValue]
NoSnapshot == [index |-> 0, meta |-> NoMeta, locks |-> EmptyLockState, conf |-> {}]

----------------------------------------------------------------------------
(* The state machine *)

IsLockCommand(c) == c.op \in {"acquire", "extend", "release", "force"}

LocksAfter(ls, c) ==
  CASE c.op = "acquire" -> apply_acquire(ls, c.path, c.id, c.max, c.ttl, c.now)
    [] c.op = "extend"  -> apply_extend(ls, c.path, c.id, c.ttl, c.now)
    [] c.op = "release" -> apply_release(ls, c.path, c.id)
    [] c.op = "force"   -> apply_force_release(ls, c.path)
    [] OTHER            -> ls

MetaAfter(m, c) ==
  CASE c.op = "set"    -> [m EXCEPT ![c.key] = c.val]
    [] c.op = "delete" -> [m EXCEPT ![c.key] = NoValue]
    [] OTHER           -> m

LinksAfter(n, c) == IF c.op = "adjust" THEN n + 1 ELSE n

\* A ConfChange or ConfChangeV2 entry; a Noop to the state machine.
IsConfChange(c) == c.op \in {"join", "leave"}

ConfAfter(m, c) ==
  CASE c.op = "join"  -> m \cup {c.node}
    [] c.op = "leave" -> m \ {c.node}
    [] OTHER          -> m

EmptyImage ==
  [meta |-> NoMeta, links |-> 0, locks |-> EmptyLockState, conf |-> {}]

ImageAfter(s, c) ==
  [meta |-> MetaAfter(s.meta, c), links |-> LinksAfter(s.links, c),
   locks |-> LocksAfter(s.locks, c), conf |-> ConfAfter(s.conf, c)]

----------------------------------------------------------------------------
(* Raft storage *)

\* Mutant: an empty log is taken to end at first_index itself.
LastIndex_Empty == IF stored = {} THEN first ELSE Max(stored)

\* last_index_impl: the greatest key of the entries table.
LastIndex == IF stored = {} THEN first - 1 ELSE Max(stored)

Init ==
  /\ log = <<>>
  /\ image = [i \in {0} |-> EmptyImage]
  /\ first = 1 /\ stored = {} /\ hsCommit = 0 /\ conf = {} /\ snap = NoSnapshot
  /\ meta = NoMeta /\ links = 0 /\ applied = 0
  /\ locks = EmptyLockState /\ lastApplied = 0
  /\ commit = 0 /\ raftApplied = 0 /\ snapAt = 0 /\ refresh = FALSE
  /\ pc = "idle" /\ crashes = 0

\* The zone's quorum commits a command.
Commit(c) ==
  /\ Len(log) < MaxLog
  /\ log' = Append(log, c)
  /\ image' = [i \in 0 .. Len(log) + 1 |->
       IF i <= Len(log) THEN image[i] ELSE ImageAfter(image[Len(log)], c)]
  /\ UNCHANGED <<diskVars, tableVars, memVars, pc, crashes>>

----------------------------------------------------------------------------
(* The ready loop: advance() *)

\* Every Ready ends in maybe_snapshot_and_compact, one with nothing but
\* messages or a vote too.
EmptyReady ==
  /\ pc = "idle"
  /\ pc' = "applying"
  /\ UNCHANGED <<zoneVars, diskVars, tableVars, memVars, crashes>>

\* A Ready with entries appends them in one transaction.
PersistEntries(k) ==
  /\ pc = "idle"
  /\ LastIndex < k
  /\ stored' = stored \cup (LastIndex + 1 .. k)
  /\ pc' = "applying"
  /\ UNCHANGED <<zoneVars, first, hsCommit, conf, snap, tableVars, memVars, crashes>>

\* A Ready carries the new commit index j in a HardState, which is persisted
\* before the entries are applied.
StartApply(j) ==
  /\ pc = "idle"
  /\ commit <= j /\ raftApplied < j
  /\ j <= LastIndex
  /\ hsCommit' = IF j > commit THEN j ELSE hsCommit
  /\ commit' = j
  /\ pc' = "applying"
  /\ UNCHANGED <<zoneVars, first, stored, conf, snap, tableVars,
                 locks, lastApplied, raftApplied, snapAt, refresh, crashes>>

\* A LightReady's commit index is used and not persisted.
StartLightApply(j) ==
  /\ pc = "idle"
  /\ commit < j /\ j <= LastIndex
  /\ commit' = j
  /\ pc' = "applying"
  /\ UNCHANGED <<zoneVars, diskVars, tableVars,
                 locks, lastApplied, raftApplied, snapAt, refresh, crashes>>

\* apply_entries: FullStateMachine::apply on one committed entry.  Lock
\* commands go to the in-memory table on every replay; the others run in a
\* transaction with last_applied, unless the index was applied before.
ApplyLock(i) ==
  /\ locks' = LocksAfter(locks, log[i])
  /\ lastApplied' = IF i > lastApplied THEN i ELSE lastApplied
  /\ UNCHANGED tableVars

ApplyMetadata(i) ==
  /\ IF i <= lastApplied
     THEN UNCHANGED <<tableVars, lastApplied>>
     ELSE /\ meta' = MetaAfter(meta, log[i])
          /\ links' = LinksAfter(links, log[i])
          /\ applied' = i
          /\ lastApplied' = i
  /\ UNCHANGED locks

ApplyEntry ==
  LET i == raftApplied + 1
  IN  /\ pc = "applying"
      /\ raftApplied < commit
      /\ i \in stored
      /\ IF IsLockCommand(log[i]) THEN ApplyLock(i) ELSE ApplyMetadata(i)
      /\ conf' = ConfAfter(conf, log[i])
      /\ refresh' = (refresh \/ IsConfChange(log[i]))
      /\ raftApplied' = i
      /\ UNCHANGED <<zoneVars, first, stored, hsCommit, snap, commit, snapAt, pc, crashes>>

----------------------------------------------------------------------------
(* maybe_snapshot_and_compact, the last step of every advance() *)

\* Enough is applied for a snapshot: a threshold of entries, or any entry at
\* all if the membership has changed and the log is already compacted.
Enough ==
  IF refresh /\ first > 1
  THEN lastApplied >= first
  ELSE lastApplied > first /\ lastApplied - first >= Threshold

SnapshotDue ==
  /\ LastIndex - snapAt >= Threshold \/ refresh
  /\ Enough
  /\ lastApplied \in stored

SkipSnapshot ==
  /\ pc = "applying" /\ raftApplied = commit
  /\ ~SnapshotDue
  /\ pc' = "idle"
  /\ UNCHANGED <<zoneVars, diskVars, tableVars, memVars, crashes>>

\* Mutant: the snapshot is stamped with the last log index.
SnapshotIndex_Last == LastIndex

\* Mutant: the snapshot is stamped with the first index it does not cover.
SnapshotIndex_Past == lastApplied + 1

\* The index a snapshot is stamped with: the state machine's last_applied.
SnapshotIndex == lastApplied

\* Mutant: HardState.commit stays behind the snapshot.
CommitCovering_Stale(i) == hsCommit

CommitCovering(i) == IF hsCommit < i THEN i ELSE hsCommit

\* store_snapshot: snapshot bytes and HardState in one transaction.  The
\* snapshot leaves out every internal key, the link count among them.
StoreSnapshot ==
  /\ pc = "applying" /\ raftApplied = commit
  /\ SnapshotDue
  /\ snap' = [index |-> SnapshotIndex, meta |-> meta, locks |-> locks, conf |-> conf]
  /\ hsCommit' = CommitCovering(SnapshotIndex)
  /\ pc' = "stored"
  /\ UNCHANGED <<zoneVars, first, stored, conf, tableVars, memVars, crashes>>

\* compact: the entries go in one transaction, first_index in the next.
CompactEntries ==
  /\ pc = "stored"
  /\ stored' = {i \in stored : i > snap.index}
  /\ pc' = "removed"
  /\ UNCHANGED <<zoneVars, first, hsCommit, conf, snap, tableVars, memVars, crashes>>

CompactFirst ==
  /\ pc = "removed"
  /\ first' = snap.index + 1
  /\ snapAt' = snap.index
  /\ refresh' = FALSE
  /\ pc' = "idle"
  /\ UNCHANGED <<zoneVars, stored, hsCommit, conf, snap, tableVars,
                 locks, lastApplied, commit, raftApplied, crashes>>

----------------------------------------------------------------------------
(* Snapshot from the leader *)

\* apply_snapshot, one transaction over both tables of raft.redb.  raft-rs
\* offers a snapshot only past the end of a matching log.
InstallSnapshot(i) ==
  /\ pc = "idle"
  /\ i > LastIndex
  /\ first' = i + 1
  /\ stored' = {}
  /\ hsCommit' = CommitCovering(i)
  /\ conf' = image[i].conf
  /\ snap' = [index |-> i, meta |-> image[i].meta, locks |-> image[i].locks,
              conf |-> image[i].conf]
  /\ pc' = "installing"
  /\ UNCHANGED <<zoneVars, tableVars, memVars, crashes>>

\* Mutant: last_applied is not taken from the snapshot.
RestoredIndex_Kept == applied

RestoredIndex == snap.index

\* restore_snapshot: the tables are cleared and filled from the snapshot in
\* one transaction, then the lock table is replaced.
restore_snapshot ==
  /\ meta' = snap.meta
  /\ links' = 0
  /\ applied' = RestoredIndex
  /\ lastApplied' = RestoredIndex
  /\ locks' = snap.locks

RestoreInstalled ==
  /\ pc = "installing"
  /\ restore_snapshot
  /\ commit' = snap.index /\ raftApplied' = snap.index /\ snapAt' = snap.index
  /\ pc' = "applying"
  /\ UNCHANGED <<zoneVars, diskVars, refresh, crashes>>

----------------------------------------------------------------------------
(* Crash and restart *)

\* Where a crash would hit.  "cut" is the moment of an advance() in which
\* enough entries are applied for a snapshot and it is not stored yet.
CrashPoint == IF pc = "applying" /\ Enough THEN "cut" ELSE pc

Crash ==
  /\ CrashPoint \in CrashPoints
  /\ crashes < MaxCrashes
  /\ crashes' = crashes + 1
  /\ pc' = "down"
  /\ locks' = EmptyLockState
  /\ lastApplied' = 0 /\ commit' = 0 /\ raftApplied' = 0 /\ snapAt' = 0
  /\ refresh' = FALSE
  /\ UNCHANGED <<zoneVars, diskVars, tableVars>>

\* RawNode::new accepts the stored log: HardState.commit is within it, and
\* the committed entries it is going to replay can be read.
LogReadable ==
  /\ first - 1 <= hsCommit /\ hsCommit <= LastIndex
  /\ first .. hsCommit \subseteq stored

\* Mutant: the lock table of the stored snapshot is not restored.
Rehydrate_MetadataOnly ==
  IF snap.index = 0
  THEN /\ locks' = EmptyLockState
       /\ lastApplied' = applied
       /\ UNCHANGED tableVars
  ELSE /\ meta' = snap.meta /\ links' = 0 /\ applied' = snap.index
       /\ lastApplied' = snap.index
       /\ locks' = EmptyLockState

\* setup_zone: FullStateMachine::new reads last_applied; a stored snapshot is
\* restored over the tables.
Rehydrate ==
  IF snap.index = 0
  THEN /\ locks' = EmptyLockState
       /\ lastApplied' = applied
       /\ UNCHANGED tableVars
  ELSE restore_snapshot

Restart ==
  /\ pc = "down"
  /\ Rehydrate
  /\ IF LogReadable
     THEN /\ commit' = hsCommit
          /\ raftApplied' = first - 1
          /\ snapAt' = first - 1
          /\ pc' = "idle"
     ELSE /\ pc' = "failed"
          /\ UNCHANGED <<commit, raftApplied, snapAt>>
  /\ UNCHANGED <<zoneVars, diskVars, refresh, crashes>>

----------------------------------------------------------------------------
Deliver ==
  \/ \E k \in 1 .. Len(log) : PersistEntries(k)
  \/ \E j \in 1 .. Len(log) : StartApply(j)
  \/ \E j \in 1 .. Len(log) : StartLightApply(j)
  \/ \E i \in 1 .. Len(log) : InstallSnapshot(i)

Loop ==
  \/ ApplyEntry \/ SkipSnapshot
  \/ StoreSnapshot \/ CompactEntries \/ CompactFirst
  \/ RestoreInstalled
  \/ Restart

Next ==
  \/ \E c \in Commands : Commit(c)
  \/ EmptyReady
  \/ Deliver
  \/ Loop
  \/ Crash

Spec == Init /\ [][Next]_vars

\* The driver task runs its loop to the end of every Ready and the daemon is
\* restarted after a crash; the leader keeps sending what the replica lacks,
\* so that a Ready with entries, commits or a snapshot keeps coming up.
FairSpec == Spec /\ WF_vars(Loop) /\ SF_vars(Deliver)

----------------------------------------------------------------------------
(* Properties *)

Up == pc \notin {"down", "failed"}

TypeOK ==
  /\ log \in Seq(Command)
  /\ DOMAIN image = 0 .. Len(log)
  /\ first \in 1 .. Len(log) + 1
  /\ stored \subseteq 1 .. Len(log)
  /\ {hsCommit, applied, lastApplied, commit, raftApplied, snapAt, snap.index}
       \subseteq 0 .. Len(log)
  /\ meta \in [Keys -> Values \cup {NoValue}]
  /\ links \in Nat
  /\ conf \subseteq Members /\ refresh \in BOOLEAN
  /\ IsLockState(locks)
  /\ pc \in Phases

\* FullStateMachine::apply, restore_snapshot and the last_applied guard: the
\* metadata on disk is exactly the state after log[1..last_applied], whatever
\* was replayed, skipped, installed or rehydrated on the way there, and in a
\* crash; and the in-memory last_applied never runs ahead of that state.
MetadataIsPrefix ==
  /\ meta = image[applied].meta
  /\ Up => meta = image[lastApplied].meta /\ applied <= lastApplied

\* apply on lock commands ("they are idempotent under full log replay"): the
\* lock table of a running replica that has caught up with its own snapshot
\* is the state after the entries raft has handed over, so a restarted
\* replica decides the next acquire as the others do.
LocksFollowLog ==
  (Up /\ raftApplied >= snap.index) => locks = image[raftApplied].locks

\* maybe_snapshot_and_compact: "the applied index, the SM state, and the
\* conf_state all reflect exactly the same point".
SnapshotIsCut ==
  /\ snap.meta = image[snap.index].meta
  /\ snap.locks = image[snap.index].locks
  /\ snap.conf = image[snap.index].conf

\* A replica that dies can always be started again from what it has stored.
RestartSucceeds == pc # "failed"

\* The reference count of a zone is a function of its log, like the rest of
\* the state machine ("given the same sequence of commands, all nodes must
\* reach the same state").
LinksFollowLog == links = image[applied].links

\* What the properties rest on.  image[i] is what log[1..i] makes of the empty
\* machine.
ImagesFollowLog ==
  /\ image[0] = EmptyImage
  /\ \A i \in 1 .. Len(log) : image[i] = ImageAfter(image[i - 1], log[i])
  /\ \A i \in 0 .. Len(log) : /\ image[i].meta \in [Keys -> Values \cup {NoValue}]
                              /\ IsLockState(image[i].locks) /\ image[i].conf \subseteq Members

\* The stored log is gapless from first_index to an end that covers every
\* cursor; between the two transactions of compact it begins behind the
\* snapshot instead.
LogKept ==
  /\ first <= snap.index + 1
  /\ \E n \in snap.index .. Len(log) :
       /\ applied <= n /\ lastApplied <= n /\ commit <= n
       /\ stored = (IF pc = "removed" THEN snap.index + 1 ELSE first) .. n

\* Raft never hands over more than the state machine has applied or is about
\* to apply, and a snapshot being installed is ahead of both.
CursorsInOrder ==
  /\ Up => raftApplied <= commit /\ raftApplied <= lastApplied
  /\ Up /\ pc # "installing" => snap.index <= lastApplied
  /\ pc = "installing" => lastApplied < snap.index

\* A snapshot's rows are those of its index, whatever its locks are.
SnapshotRows ==
  /\ snap.meta = image[snap.index].meta
  /\ IsLockState(snap.locks) /\ snap.conf \subseteq Members

\* Inductive for a process that does not die inside compact.
MetaInv ==
  TypeOK /\ ImagesFollowLog /\ LogKept /\ CursorsInOrder /\ MetadataIsPrefix /\ SnapshotRows

\* The rest needs a process that does not die between the steps of a snapshot
\* or with one due: then the log begins where the snapshot ends, ...
CleanCrashes == CrashPoints \subseteq {"idle", "applying", "installing"}

LogMeetsSnapshot ==
  /\ snap.index <= hsCommit /\ hsCommit \in stored \cup {snap.index}
  /\ pc \notin {"stored", "removed"} => first = snap.index + 1
  /\ pc \in {"stored", "removed"} => snap.index = lastApplied /\ raftApplied = lastApplied
  /\ Up /\ pc # "installing" => snapAt = first - 1
  /\ pc = "idle" => ~Enough

\* ... a replay that is still behind the tables never gets to a snapshot, ...
FewEntries(i) == ~(i > 1 /\ i - 1 >= Threshold)
Joined(x, i)  == \E j \in 1 .. i : IsConfChange(log[j]) /\ log[j].node = x

Replaying ==
  /\ snap.index = 0 /\ FewEntries(lastApplied) /\ applied = lastApplied
  /\ \A x \in conf : Joined(x, lastApplied)
  /\ \A x \in Members : Joined(x, raftApplied) => (x \in conf <=> x \in image[raftApplied].conf)

\* ... and the ConfState on disk is the one of the entries that count.
Running == pc \in {"idle", "applying", "stored", "removed"}

RunningFollows ==
  /\ IF raftApplied = lastApplied THEN conf = image[raftApplied].conf ELSE Replaying
  /\ snap.index # 0 /\ ~refresh => conf = image[snap.index].conf
  /\ \A j \in applied + 1 .. lastApplied : IsLockCommand(log[j])
  /\ locks = image[raftApplied].locks

DownFollows ==
  IF snap.index # 0 THEN conf = image[snap.index].conf
  ELSE FewEntries(applied) /\ \A x \in conf : Joined(x, applied)

ConfFollowsLog ==
  /\ \A i \in 0 .. Len(log) : \A x \in image[i].conf : Joined(x, i)
  /\ Running => RunningFollows
  /\ pc = "installing" => snap.index # 0 /\ conf = image[snap.index].conf
  /\ pc = "down" => DownFollows

CutInv == MetaInv /\ RestartSucceeds /\ SnapshotIsCut /\ LogMeetsSnapshot /\ ConfFollowsLog

\* A replica that stops crashing catches up with the zone's log, whether it
\* was down, behind the leader's compaction or half way through an install.
CatchesUp == []<>(Up /\ raftApplied = Len(log))
=============================================================================
