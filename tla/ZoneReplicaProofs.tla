-------------------------- MODULE ZoneReplicaProofs --------------------------
(***************************************************************************)
(* A replica of any zone, with logs of any length and any number of        *)
(* crashes: its metadata is a prefix of the log and its linearizable reads *)
(* are linearizable unless it dies inside compact; if it does not die with *)
(* a snapshot due or half way through one either, its snapshots are cuts,  *)
(* its locks follow the log and it can always be restarted.                *)
(***************************************************************************)
EXTENDS LinearizableReads, FiniteSetTheorems, TLAPS

----------------------------------------------------------------------------
(* Operators *)

\* Replacing or removing an entry leaves a lock table.
LEMMA PutTable ==
  ASSUME NEW ls, IsLockState(ls), NEW p \in Paths,
         NEW e \in LockEntry, IsFiniteSet(e.holders)
  PROVE  IsLockState(Put(ls, p, e)) /\ IsLockState(Drop(ls, p))
BY DEF IsLockState, Put, Drop

\* What is left of a path's holders, and with one more, is a finite set.
LEMMA HoldersTable ==
  ASSUME NEW ls, IsLockState(ls), NEW p \in Paths,
         NEW S \in SUBSET HoldersAt(ls, p), NEW m \in Holder
  PROVE  /\ S \in SUBSET Holder /\ IsFiniteSet(S)
         /\ S \cup {m} \in SUBSET Holder /\ IsFiniteSet(S \cup {m})
<1>1. HoldersAt(ls, p) \in SUBSET Holder /\ IsFiniteSet(HoldersAt(ls, p))
  BY FS_EmptySet DEF IsLockState, HoldersAt, LockEntry
<1>2. IsFiniteSet(S)
  BY <1>1, FS_Subset
<1> QED BY <1>1, <1>2, FS_AddElement

\* The entry of a path with other holders.
LEMMA EntryTable ==
  ASSUME NEW ls, IsLockState(ls), NEW p \in DOMAIN ls, NEW S \in SUBSET Holder, IsFiniteSet(S)
  PROVE  /\ [ls[p] EXCEPT !.holders = S] \in LockEntry
         /\ IsFiniteSet([ls[p] EXCEPT !.holders = S].holders)
<1>1. ls[p] \in LockEntry
  BY DEF IsLockState
<1> QED BY <1>1 DEF LockEntry

LEMMA AcquireTable ==
  ASSUME NEW ls, IsLockState(ls), NEW p \in Paths, NEW id \in LockIds,
         NEW max \in Nat, NEW ttl \in Nat, NEW now \in Nat
  PROVE  IsLockState(apply_acquire(ls, p, id, max, ttl, now))
<1> DEFINE kept == Unexpired(ls, p, now)
           mine == [lock_id |-> id, expires_at |-> now + ttl]
           rest == {h \in kept : h.lock_id # id}
           hs   == IF Acquired(ls, p, id, max, now) THEN rest \cup {mine} ELSE kept
           e    == [max_holders |-> SeededMax(ls, p, max, now), holders |-> hs]
<1>1. mine \in Holder
  BY DEF Holder
<1> HIDE DEF mine
<1>2. kept \in SUBSET HoldersAt(ls, p) /\ rest \in SUBSET HoldersAt(ls, p)
  BY DEF Unexpired
<1> HIDE DEF kept, rest
<1>3. hs \in SUBSET Holder /\ IsFiniteSet(hs)
  BY <1>1, <1>2, HoldersTable
<1>4. SeededMax(ls, p, max, now) \in Nat
  <2>1. Unexpired(ls, p, now) # {} => p \in DOMAIN ls
    BY DEF Unexpired, HoldersAt
  <2> QED BY <2>1 DEF SeededMax, IsLockState, LockEntry
<1> HIDE DEF hs
<1>5. e \in LockEntry /\ IsFiniteSet(e.holders)
  BY <1>3, <1>4 DEF LockEntry
<1>6. IsLockState(Put(ls, p, e))
  <2> HIDE DEF e
  <2> QED BY <1>5, PutTable
<1> QED BY <1>6 DEF apply_acquire, hs, rest, kept, mine

LEMMA ExtendTable ==
  ASSUME NEW ls, IsLockState(ls), NEW p \in Paths, NEW id \in LockIds,
         NEW ttl \in Nat, NEW now \in Nat
  PROVE  IsLockState(apply_extend(ls, p, id, ttl, now))
<1> DEFINE kept == Unexpired(ls, p, now)
           mine == [lock_id |-> id, expires_at |-> now + ttl]
           rest == {h \in kept : h.lock_id # id}
           more == rest \cup {mine}
           e(S) == [ls[p] EXCEPT !.holders = S]
<1>1. mine \in Holder
  BY DEF Holder
<1> HIDE DEF mine
<1>2. kept \in SUBSET HoldersAt(ls, p) /\ rest \in SUBSET HoldersAt(ls, p)
  BY DEF Unexpired
<1> HIDE DEF kept, rest
<1>3. kept \in SUBSET Holder /\ IsFiniteSet(kept) /\ more \in SUBSET Holder /\ IsFiniteSet(more)
  BY <1>1, <1>2, HoldersTable
<1> HIDE DEF more
<1>4. p \in DOMAIN ls => IsLockState(Put(ls, p, e(kept))) /\ IsLockState(Put(ls, p, e(more)))
  BY <1>3, EntryTable, PutTable
<1>5. IsLockState(Drop(ls, p))
  BY DEF IsLockState, Drop
<1> QED BY <1>4, <1>5 DEF apply_extend, kept, rest, more, mine

LEMMA ReleaseTable ==
  ASSUME NEW ls, IsLockState(ls), NEW p \in Paths, NEW id
  PROVE  IsLockState(apply_release(ls, p, id)) /\ IsLockState(apply_force_release(ls, p))
<1> DEFINE kept == {h \in HoldersAt(ls, p) : h.lock_id # id}
           e    == [ls[p] EXCEPT !.holders = kept]
<1>1. kept \in SUBSET Holder /\ IsFiniteSet(kept)
  <2>1. HoldersAt(ls, p) \in SUBSET Holder /\ IsFiniteSet(HoldersAt(ls, p))
    BY FS_EmptySet DEF IsLockState, HoldersAt, LockEntry
  <2> QED BY <2>1, FS_Subset
<1> HIDE DEF kept
<1>2. p \in DOMAIN ls => IsLockState(Put(ls, p, e))
  BY <1>1, EntryTable, PutTable
<1>3. IsLockState(Drop(ls, p))
  BY DEF IsLockState, Drop
<1> QED BY <1>2, <1>3 DEF apply_release, apply_force_release, kept

\* The fields of a command.
LEMMA CommandFields ==
  ASSUME NEW c \in Command
  PROVE  /\ c.op = "set" => c.key \in Keys /\ c.val \in Values
         /\ c.op = "delete" => c.key \in Keys
         /\ IsConfChange(c) => c.node \in Members
         /\ IsLockCommand(c) => c.path \in Paths
         /\ c.op \in {"acquire", "extend", "release"} => c.id \in LockIds
         /\ c.op \in {"acquire", "extend"} => c.ttl \in Nat /\ c.now \in Nat
         /\ c.op = "acquire" => c.max \in Nat
BY DEF Command, IsConfChange, IsLockCommand

\* Every command leaves a lock table, rows and members.
LEMMA LocksAfterTable ==
  ASSUME NEW ls, IsLockState(ls), NEW c \in Command
  PROVE  IsLockState(LocksAfter(ls, c))
<1>1. CASE c.op = "acquire"
  <2>1. LocksAfter(ls, c) = apply_acquire(ls, c.path, c.id, c.max, c.ttl, c.now)
    BY <1>1 DEF LocksAfter
  <2> QED BY <1>1, <2>1, CommandFields, AcquireTable DEF IsLockCommand
<1>2. CASE c.op = "extend"
  <2>1. LocksAfter(ls, c) = apply_extend(ls, c.path, c.id, c.ttl, c.now)
    BY <1>2 DEF LocksAfter
  <2> QED BY <1>2, <2>1, CommandFields, ExtendTable DEF IsLockCommand
<1>3. CASE c.op = "release" \/ c.op = "force"
  <2>1. LocksAfter(ls, c) = apply_release(ls, c.path, c.id)
          \/ LocksAfter(ls, c) = apply_force_release(ls, c.path)
    BY <1>3 DEF LocksAfter
  <2> QED BY <1>3, <2>1, CommandFields, ReleaseTable DEF IsLockCommand
<1>4. CASE c.op \notin {"acquire", "extend", "release", "force"}
  BY <1>4 DEF LocksAfter
<1> QED BY <1>1, <1>2, <1>3, <1>4

LEMMA MetaAfterType ==
  ASSUME NEW m \in [Keys -> Values \cup {NoValue}], NEW c \in Command
  PROVE  MetaAfter(m, c) \in [Keys -> Values \cup {NoValue}]
BY CommandFields DEF MetaAfter

LEMMA ConfAfterType ==
  ASSUME NEW m \in SUBSET Members, NEW c \in Command
  PROVE  ConfAfter(m, c) \in SUBSET Members
BY CommandFields DEF ConfAfter, IsConfChange

\* A lock command touches the locks only, the others leave them alone.
LEMMA LockCommandOnly ==
  ASSUME NEW c
  PROVE  /\ IsLockCommand(c) => \A m : MetaAfter(m, c) = m /\ ConfAfter(m, c) = m
         /\ ~IsLockCommand(c) => \A ls : LocksAfter(ls, c) = ls
         /\ ~IsConfChange(c) => \A m : ConfAfter(m, c) = m
BY DEF IsLockCommand, MetaAfter, ConfAfter, LocksAfter, IsConfChange

\* last_index_impl of a gapless log.
LEMMA LastIndexIs ==
  ASSUME NEW n \in Nat, first \in Nat, first <= n + 1, stored = first .. n
  PROVE  LastIndex = n
<1>1. CASE first = n + 1
  BY <1>1 DEF LastIndex
<1>2. CASE first <= n
  <2>1. n \in stored /\ \A y \in stored : n >= y
    BY <1>2
  <2>2. \A x \in stored : (\A y \in stored : x >= y) => x = n
    BY <2>1
  <2> QED BY <2>1, <2>2 DEF LastIndex, Max
<1> QED BY <1>1, <1>2

----------------------------------------------------------------------------
(* The metadata and the cursors *)

\* The numbers of a state are numbers.
LEMMA Numbers ==
  ASSUME TypeOK
  PROVE  /\ Len(log) \in Nat /\ first \in Nat /\ first >= 1 /\ first <= Len(log) + 1
         /\ hsCommit \in 0 .. Len(log) /\ applied \in 0 .. Len(log)
         /\ lastApplied \in 0 .. Len(log) /\ commit \in 0 .. Len(log)
         /\ raftApplied \in 0 .. Len(log) /\ snapAt \in 0 .. Len(log)
         /\ snap.index \in 0 .. Len(log)
<1>1. log \in Seq(Command) /\ Len(log) \in Nat
  BY DEF TypeOK
<1> QED BY <1>1 DEF TypeOK

\* The end of the stored log.
LEMMA LogEnd ==
  ASSUME MetaInv, pc # "removed"
  PROVE  /\ LastIndex \in snap.index .. Len(log) /\ stored = first .. LastIndex
         /\ applied <= LastIndex /\ lastApplied <= LastIndex /\ commit <= LastIndex
         /\ first <= LastIndex + 1
<1>1. TypeOK
  BY DEF MetaInv
<1>2. PICK n \in snap.index .. Len(log) :
        applied <= n /\ lastApplied <= n /\ commit <= n /\ stored = first .. n
  BY DEF MetaInv, LogKept
<1>3. first <= n + 1 /\ n \in Nat /\ first \in Nat
  BY <1>1, <1>2, Numbers DEF MetaInv, LogKept
<1>4. LastIndex = n
  BY <1>2, <1>3, LastIndexIs
<1> QED BY <1>2, <1>3, <1>4

LEMMA InitMeta == Init => MetaInv
<1> SUFFICES ASSUME Init PROVE MetaInv
  OBVIOUS
<1>1. /\ log = <<>> /\ Len(log) = 0 /\ image[0] = EmptyImage /\ DOMAIN image = {0}
      /\ log \in Seq(Command)
  BY DEF Init
<1>2. NoMeta \in [Keys -> Values \cup {NoValue}] /\ IsLockState(EmptyLockState)
  BY FS_EmptySet DEF NoMeta, EmptyLockState, IsLockState
<1>3. 0 .. 0 = {0} /\ 1 .. 0 = {}
  OBVIOUS
<1>4. /\ EmptyImage.meta = NoMeta /\ EmptyImage.locks = EmptyLockState /\ EmptyImage.conf = {}
      /\ NoSnapshot.index = 0 /\ NoSnapshot.meta = NoMeta /\ NoSnapshot.locks = EmptyLockState
      /\ NoSnapshot.conf = {}
  BY DEF EmptyImage, NoSnapshot
<1>5. TypeOK
  <2>1. /\ first \in 1 .. Len(log) + 1 /\ stored \subseteq 1 .. Len(log)
        /\ {hsCommit, applied, lastApplied, commit, raftApplied, snapAt, snap.index}
             \subseteq 0 .. Len(log)
    BY <1>1, <1>4 DEF Init
  <2>2. DOMAIN image = 0 .. Len(log) /\ pc \in Phases /\ conf \subseteq Members
    BY <1>1, <1>3 DEF Init, Phases
  <2>3. meta \in [Keys -> Values \cup {NoValue}] /\ links \in Nat /\ IsLockState(locks)
        /\ refresh \in BOOLEAN
    BY <1>2 DEF Init
  <2> QED BY <1>1, <2>1, <2>2, <2>3 DEF TypeOK
<1>6. ImagesFollowLog
  BY <1>1, <1>2, <1>3, <1>4 DEF ImagesFollowLog
<1>7. LogKept /\ CursorsInOrder
  BY <1>1, <1>3, <1>4 DEF Init, LogKept, CursorsInOrder
<1>8. MetadataIsPrefix /\ SnapshotRows
  BY <1>1, <1>2, <1>4 DEF Init, MetadataIsPrefix, SnapshotRows
<1> QED BY <1>5, <1>6, <1>7, <1>8 DEF MetaInv

\* A new entry of the zone's log.
LEMMA CommitImages ==
  ASSUME TypeOK, ImagesFollowLog, NEW c \in Commands, Commit(c)
  PROVE  /\ Len(log') = Len(log) + 1 /\ log' \in Seq(Command)
         /\ \A i \in 1 .. Len(log) : log'[i] = log[i]
         /\ \A i \in 0 .. Len(log) : image'[i] = image[i]
         /\ image'[Len(log) + 1] = ImageAfter(image[Len(log)], log'[Len(log) + 1])
         /\ DOMAIN image' = 0 .. Len(log')
         /\ ImagesFollowLog'
<1>1. Len(log) \in Nat /\ log \in Seq(Command) /\ c \in Command
  BY ReplicaAssumption DEF TypeOK
<1>2. log' = Append(log, c)
  BY DEF Commit
<1>3. /\ Len(log') = Len(log) + 1 /\ log' \in Seq(Command) /\ log'[Len(log) + 1] = c
      /\ \A i \in 1 .. Len(log) : log'[i] = log[i]
  BY <1>1, <1>2
<1>4. image' = [i \in 0 .. Len(log) + 1 |->
        IF i <= Len(log) THEN image[i] ELSE ImageAfter(image[Len(log)], c)]
  BY DEF Commit
<1>5. /\ \A i \in 0 .. Len(log) : image'[i] = image[i]
      /\ image'[Len(log) + 1] = ImageAfter(image[Len(log)], c)
      /\ DOMAIN image' = 0 .. Len(log')
  BY <1>1, <1>3, <1>4
<1>6. \A i \in 1 .. Len(log') : image'[i] = ImageAfter(image'[i - 1], log'[i])
  <2> SUFFICES ASSUME NEW i \in 1 .. Len(log')
               PROVE  image'[i] = ImageAfter(image'[i - 1], log'[i])
    OBVIOUS
  <2>1. CASE i = Len(log) + 1
    BY <1>1, <1>3, <1>5, <2>1
  <2>2. CASE i <= Len(log)
    <3>1. i \in 1 .. Len(log) /\ i - 1 \in 0 .. Len(log) /\ i \in 0 .. Len(log)
      BY <1>1, <2>2
    <3> QED BY <1>3, <1>5, <3>1 DEF ImagesFollowLog
  <2> QED BY <1>1, <1>3, <2>1, <2>2
<1>7. /\ image'[Len(log')].meta \in [Keys -> Values \cup {NoValue}]
      /\ IsLockState(image'[Len(log')].locks) /\ image'[Len(log')].conf \subseteq Members
  <2> DEFINE s == image[Len(log)]
  <2>1. /\ s.meta \in [Keys -> Values \cup {NoValue}]
        /\ IsLockState(s.locks) /\ s.conf \in SUBSET Members
    BY <1>1 DEF ImagesFollowLog
  <2> HIDE DEF s
  <2>2. /\ ImageAfter(s, c).meta = MetaAfter(s.meta, c)
        /\ ImageAfter(s, c).locks = LocksAfter(s.locks, c)
        /\ ImageAfter(s, c).conf = ConfAfter(s.conf, c)
    BY DEF ImageAfter
  <2>3. /\ MetaAfter(s.meta, c) \in [Keys -> Values \cup {NoValue}]
        /\ IsLockState(LocksAfter(s.locks, c)) /\ ConfAfter(s.conf, c) \in SUBSET Members
    BY <1>1, <2>1, MetaAfterType, LocksAfterTable, ConfAfterType
  <2> QED BY <1>3, <1>5, <2>2, <2>3 DEF s
<1>8. \A i \in 0 .. Len(log') : i \in 0 .. Len(log) \/ i = Len(log')
  BY <1>1, <1>3
<1>9. ImagesFollowLog'
  <2>1. image'[0] = EmptyImage
    BY <1>1, <1>5 DEF ImagesFollowLog
  <2>2. ASSUME NEW i \in 0 .. Len(log')
        PROVE  /\ image'[i].meta \in [Keys -> Values \cup {NoValue}]
               /\ IsLockState(image'[i].locks) /\ image'[i].conf \subseteq Members
    <3>1. CASE i \in 0 .. Len(log)
      BY <1>5, <3>1 DEF ImagesFollowLog
    <3>2. CASE i = Len(log')
      BY <1>7, <3>2
    <3> QED BY <1>8, <3>1, <3>2
  <2> QED BY <1>6, <2>1, <2>2 DEF ImagesFollowLog
<1> QED BY <1>3, <1>5, <1>9

\* It is ahead of everything the replica has.
LEMMA CommitMeta ==
  ASSUME MetaInv, NEW c \in Commands, Commit(c)
  PROVE  MetaInv'
<1>1. /\ Len(log') = Len(log) + 1 /\ log' \in Seq(Command)
      /\ \A i \in 0 .. Len(log) : image'[i] = image[i]
      /\ DOMAIN image' = 0 .. Len(log')
      /\ ImagesFollowLog'
  BY CommitImages DEF MetaInv
<1>2. UNCHANGED <<first, stored, hsCommit, conf, snap, meta, links, applied, locks,
                  lastApplied, commit, raftApplied, snapAt, refresh, pc>>
  BY DEF Commit, diskVars, tableVars, memVars
<1>3. /\ Len(log) \in Nat /\ applied \in 0 .. Len(log) /\ lastApplied \in 0 .. Len(log)
      /\ snap.index \in 0 .. Len(log)
  BY Numbers DEF MetaInv
<1>4. TypeOK'
  BY <1>1, <1>2, <1>3 DEF MetaInv, TypeOK
<1>5. LogKept' /\ CursorsInOrder'
  BY <1>1, <1>2, <1>3 DEF MetaInv, LogKept, CursorsInOrder, Up
<1>6. MetadataIsPrefix' /\ SnapshotRows'
  BY <1>1, <1>2, <1>3 DEF MetaInv, MetadataIsPrefix, SnapshotRows, Up
<1> QED BY <1>1, <1>4, <1>5, <1>6 DEF MetaInv

\* A Ready that brings nothing, and the end of one without a snapshot.
LEMMA QuietMeta ==
  ASSUME MetaInv, pc \in {"idle", "applying"}, pc' \in {"idle", "applying"},
         UNCHANGED <<zoneVars, diskVars, tableVars, memVars>>
  PROVE  MetaInv'
<1> USE DEF MetaInv, zoneVars, diskVars, tableVars, memVars
<1>1. TypeOK' /\ ImagesFollowLog'
  BY DEF TypeOK, ImagesFollowLog, Phases
<1>2. LogKept' /\ CursorsInOrder'
  BY DEF LogKept, CursorsInOrder, Up
<1>3. MetadataIsPrefix' /\ SnapshotRows'
  BY DEF MetadataIsPrefix, SnapshotRows, Up
<1> QED BY <1>1, <1>2, <1>3

LEMMA PersistMeta ==
  ASSUME MetaInv, NEW k \in 1 .. Len(log), PersistEntries(k)
  PROVE  MetaInv'
<1> USE DEF MetaInv, zoneVars, tableVars, memVars, PersistEntries
<1>1. /\ LastIndex \in snap.index .. Len(log) /\ stored = first .. LastIndex
      /\ applied <= LastIndex /\ lastApplied <= LastIndex /\ commit <= LastIndex
      /\ first <= LastIndex + 1
  BY LogEnd
<1>2. /\ Len(log) \in Nat /\ first \in Nat /\ first >= 1 /\ snap.index \in Nat
      /\ applied \in Nat /\ lastApplied \in Nat /\ commit \in Nat
  BY Numbers
<1>3. stored' = first .. k /\ k > LastIndex
  BY <1>1, <1>2
<1>4. TypeOK' /\ ImagesFollowLog'
  BY <1>2, <1>3 DEF TypeOK, ImagesFollowLog, Phases
<1>5. LogKept' /\ CursorsInOrder'
  BY <1>1, <1>2, <1>3 DEF LogKept, CursorsInOrder, Up
<1>6. MetadataIsPrefix' /\ SnapshotRows'
  BY DEF MetadataIsPrefix, SnapshotRows, Up
<1> QED BY <1>4, <1>5, <1>6

LEMMA StartMeta ==
  ASSUME MetaInv, NEW j \in 1 .. Len(log), StartApply(j) \/ StartLightApply(j)
  PROVE  MetaInv'
<1> USE DEF MetaInv
<1>0. commit \in Nat
  BY Numbers
<1>1. /\ pc = "idle" /\ pc' = "applying" /\ commit <= j /\ j <= LastIndex /\ commit' = j
      /\ hsCommit' \in {hsCommit, j}
      /\ UNCHANGED <<log, image, first, stored, conf, snap, meta, links, applied,
                     locks, lastApplied, raftApplied, snapAt, refresh>>
  BY <1>0 DEF StartApply, StartLightApply, zoneVars, diskVars, tableVars
<1>2. /\ LastIndex \in snap.index .. Len(log) /\ stored = first .. LastIndex
      /\ applied <= LastIndex /\ lastApplied <= LastIndex
  BY <1>1, LogEnd
<1>3. /\ Len(log) \in Nat /\ raftApplied \in Nat /\ commit \in Nat /\ hsCommit \in 0 .. Len(log)
  BY Numbers
<1>4. TypeOK' /\ ImagesFollowLog'
  BY <1>1, <1>3 DEF TypeOK, ImagesFollowLog, Phases
<1>5. LogKept'
  BY <1>1, <1>2 DEF LogKept
<1>6. CursorsInOrder' /\ MetadataIsPrefix' /\ SnapshotRows'
  BY <1>1, <1>3 DEF MetadataIsPrefix, SnapshotRows, CursorsInOrder, Up
<1> QED BY <1>4, <1>5, <1>6

\* The images around the entry that is applied.
LEMMA NextEntry ==
  ASSUME MetaInv, ApplyEntry
  PROVE  LET i == raftApplied + 1
         IN  /\ i \in 1 .. Len(log) /\ i \in stored /\ i <= commit /\ log[i] \in Command
             /\ image[i].meta = MetaAfter(image[raftApplied].meta, log[i])
             /\ image[i].locks = LocksAfter(image[raftApplied].locks, log[i])
             /\ image[i].conf = ConfAfter(image[raftApplied].conf, log[i])
<1> DEFINE i == raftApplied + 1
<1>1. Len(log) \in Nat /\ raftApplied \in Nat /\ commit \in 0 .. Len(log)
  BY Numbers DEF MetaInv
<1>2. i \in 1 .. Len(log) /\ i \in stored /\ i <= commit /\ i - 1 = raftApplied
  BY <1>1 DEF ApplyEntry
<1>3. image[i] = ImageAfter(image[raftApplied], log[i])
  BY <1>2 DEF MetaInv, ImagesFollowLog
<1>4. log[i] \in Command
  BY <1>2 DEF MetaInv, TypeOK
<1> QED BY <1>2, <1>3, <1>4 DEF ImageAfter

LEMMA ApplyMeta ==
  ASSUME MetaInv, ApplyEntry
  PROVE  MetaInv'
<1> DEFINE i == raftApplied + 1
           c == log[i]
<1> USE DEF MetaInv
<1>1. /\ i \in 1 .. Len(log) /\ i \in stored /\ i <= commit /\ c \in Command
      /\ image[i].meta = MetaAfter(image[raftApplied].meta, c)
  BY NextEntry
<1>2. /\ pc = "applying" /\ conf' = ConfAfter(conf, c) /\ refresh' \in BOOLEAN
      /\ raftApplied' = i /\ locks' \in {locks, LocksAfter(locks, c)}
      /\ UNCHANGED <<log, image, first, stored, hsCommit, snap, commit, snapAt, pc>>
  BY DEF ApplyEntry, ApplyLock, ApplyMetadata, zoneVars, TypeOK
<1>3. /\ Len(log) \in Nat /\ raftApplied \in Nat /\ commit \in 0 .. Len(log)
      /\ lastApplied \in 0 .. Len(log) /\ applied \in 0 .. Len(log) /\ snap.index \in Nat
  BY Numbers
<1>4. /\ raftApplied <= lastApplied /\ snap.index <= lastApplied
      /\ meta = image[applied].meta /\ meta = image[lastApplied].meta /\ applied <= lastApplied
  BY <1>2 DEF CursorsInOrder, MetadataIsPrefix, Up
<1>5. /\ lastApplied' = IF i <= lastApplied THEN lastApplied ELSE i
      /\ i > lastApplied => raftApplied = lastApplied
      /\ \/ /\ meta' = meta /\ links' = links /\ applied' = applied
            /\ (i > lastApplied => MetaAfter(meta, c) = meta)
         \/ /\ meta' = MetaAfter(meta, c) /\ links' = LinksAfter(links, c) /\ applied' = i
            /\ i > lastApplied
  <2>1. i > lastApplied => raftApplied = lastApplied
    BY <1>3, <1>4
  <2>2. CASE IsLockCommand(c)
    <3>1. ApplyLock(i) /\ MetaAfter(meta, c) = meta
      BY <2>2, LockCommandOnly DEF ApplyEntry
    <3> QED BY <1>3, <2>1, <3>1 DEF ApplyLock, tableVars
  <2>3. CASE ~IsLockCommand(c)
    <3>1. ApplyMetadata(i)
      BY <2>3 DEF ApplyEntry
    <3> QED BY <1>3, <2>1, <3>1 DEF ApplyMetadata, tableVars
  <2> QED BY <2>2, <2>3
<1> HIDE DEF c
<1>6. MetaAfter(meta, c) \in [Keys -> Values \cup {NoValue}] /\ LinksAfter(links, c) \in Nat
  BY <1>1, MetaAfterType DEF TypeOK, LinksAfter
<1>7. IsLockState(locks') /\ conf' \subseteq Members
  BY <1>1, <1>2, LocksAfterTable, ConfAfterType DEF TypeOK
<1>8. TypeOK'
  <2>1. {hsCommit', applied', lastApplied', commit', raftApplied', snapAt', snap'.index}
          \subseteq 0 .. Len(log')
    BY <1>1, <1>2, <1>3, <1>5 DEF TypeOK
  <2>2. meta' \in [Keys -> Values \cup {NoValue}] /\ links' \in Nat
    BY <1>5, <1>6 DEF TypeOK
  <2> QED BY <1>2, <1>7, <2>1, <2>2 DEF TypeOK
<1>9. LogKept'
  <2>1. PICK n \in snap.index .. Len(log) :
          /\ applied <= n /\ lastApplied <= n /\ commit <= n
          /\ stored = first .. n
    BY <1>2 DEF LogKept
  <2>2. applied' <= n /\ lastApplied' <= n
    BY <1>1, <1>3, <1>5, <2>1
  <2> QED BY <1>2, <2>1, <2>2 DEF LogKept
<1>10. CursorsInOrder'
  BY <1>1, <1>2, <1>3, <1>4, <1>5 DEF CursorsInOrder, Up
<1>11. MetadataIsPrefix'
  <2>1. CASE i <= lastApplied
    <3>1. lastApplied' = lastApplied /\ applied' = applied /\ meta' = meta
      BY <1>3, <1>5, <2>1
    <3> QED BY <1>2, <1>4, <3>1 DEF MetadataIsPrefix
  <2>2. CASE i > lastApplied
    <3>1. lastApplied' = i /\ applied' <= i
      BY <1>3, <1>4, <1>5, <2>2
    <3>2. MetaAfter(meta, c) = image[i].meta
      BY <1>1, <1>4, <1>5, <2>2 DEF c
    <3> QED BY <1>2, <1>4, <1>5, <2>2, <3>1, <3>2 DEF MetadataIsPrefix
  <2> QED BY <1>3, <2>1, <2>2
<1>12. SnapshotRows' /\ ImagesFollowLog'
  BY <1>2 DEF SnapshotRows, ImagesFollowLog
<1> QED BY <1>8, <1>9, <1>10, <1>11, <1>12

LEMMA StoreMeta ==
  ASSUME MetaInv, StoreSnapshot
  PROVE  MetaInv'
<1> USE DEF MetaInv
<1>1. /\ pc = "applying" /\ pc' = "stored"
      /\ snap' = [index |-> lastApplied, meta |-> meta, locks |-> locks, conf |-> conf]
      /\ hsCommit' \in {hsCommit, lastApplied}
      /\ UNCHANGED <<log, image, first, stored, conf, meta, links, applied, locks,
                     lastApplied, commit, raftApplied, snapAt, refresh>>
  BY DEF StoreSnapshot, SnapshotIndex, CommitCovering, zoneVars, tableVars, memVars
<1>2. /\ snap'.index = lastApplied /\ snap'.meta = meta /\ snap'.locks = locks /\ snap'.conf = conf
  BY <1>1
<1>3. /\ LastIndex \in snap.index .. Len(log) /\ stored = first .. LastIndex
      /\ applied <= LastIndex /\ lastApplied <= LastIndex /\ commit <= LastIndex
  BY <1>1, LogEnd
<1>4. /\ Len(log) \in Nat /\ lastApplied \in 0 .. Len(log) /\ hsCommit \in 0 .. Len(log)
      /\ snap.index \in Nat /\ first \in Nat
  BY Numbers
<1>5. snap.index <= lastApplied /\ meta = image[lastApplied].meta
  BY <1>1 DEF CursorsInOrder, MetadataIsPrefix, Up
<1>6. TypeOK' /\ ImagesFollowLog'
  BY <1>1, <1>2, <1>4 DEF TypeOK, ImagesFollowLog, Phases
<1>7. LogKept'
  <2>1. first <= snap'.index + 1
    BY <1>2, <1>4, <1>5 DEF LogKept
  <2>2. LastIndex \in snap'.index .. Len(log')
    BY <1>1, <1>2, <1>3, <1>4
  <2> QED BY <1>1, <1>3, <2>1, <2>2 DEF LogKept
<1>8. CursorsInOrder' /\ MetadataIsPrefix' /\ SnapshotRows'
  BY <1>1, <1>2, <1>4, <1>5 DEF CursorsInOrder, MetadataIsPrefix, SnapshotRows, Up, TypeOK
<1> QED BY <1>6, <1>7, <1>8

LEMMA CompactMeta ==
  ASSUME MetaInv, CompactEntries \/ CompactFirst
  PROVE  MetaInv'
<1> USE DEF MetaInv
<1>1. /\ UNCHANGED <<log, image, hsCommit, conf, snap, meta, links, applied, locks,
                     lastApplied, commit, raftApplied>>
      /\ pc \in {"stored", "removed"} /\ pc' \in {"removed", "idle"}
      /\ refresh' \in BOOLEAN /\ snapAt' \in {snapAt, snap.index}
  BY DEF CompactEntries, CompactFirst, zoneVars, tableVars, memVars, TypeOK
<1>2. /\ Len(log) \in Nat /\ snap.index \in 0 .. Len(log) /\ first \in Nat /\ first >= 1
      /\ first <= snap.index + 1 /\ snapAt \in 0 .. Len(log)
  BY Numbers DEF LogKept
<1>3. LogKept' /\ first' \in 1 .. Len(log) + 1 /\ stored' \subseteq stored
  <2>1. CASE CompactEntries
    <3>1. PICK n \in snap.index .. Len(log) :
            applied <= n /\ lastApplied <= n /\ commit <= n /\ stored = first .. n
      BY <2>1 DEF LogKept, CompactEntries
    <3>2. stored' = snap.index + 1 .. n
      BY <1>2, <2>1, <3>1 DEF CompactEntries
    <3> QED BY <1>1, <1>2, <2>1, <3>1, <3>2 DEF LogKept, CompactEntries, TypeOK
  <2>2. CASE CompactFirst
    <3>1. PICK n \in snap.index .. Len(log) :
            applied <= n /\ lastApplied <= n /\ commit <= n /\ stored = snap.index + 1 .. n
      BY <2>2 DEF LogKept, CompactFirst
    <3>2. first' = snap.index + 1 /\ stored' = stored /\ pc' = "idle"
      BY <2>2 DEF CompactFirst
    <3> QED BY <1>1, <1>2, <3>1, <3>2 DEF LogKept
  <2> QED BY <2>1, <2>2
<1>4. TypeOK' /\ ImagesFollowLog'
  BY <1>1, <1>2, <1>3 DEF TypeOK, ImagesFollowLog, Phases
<1>5. CursorsInOrder' /\ MetadataIsPrefix' /\ SnapshotRows'
  BY <1>1 DEF CursorsInOrder, MetadataIsPrefix, SnapshotRows, Up
<1> QED BY <1>3, <1>4, <1>5

LEMMA InstallMeta ==
  ASSUME MetaInv, NEW i \in 1 .. Len(log), InstallSnapshot(i)
  PROVE  MetaInv'
<1> USE DEF MetaInv
<1>1. /\ pc = "idle" /\ i > LastIndex /\ pc' = "installing" /\ first' = i + 1 /\ stored' = {}
      /\ hsCommit' \in {hsCommit, i} /\ conf' = image[i].conf
      /\ snap' = [index |-> i, meta |-> image[i].meta, locks |-> image[i].locks,
                  conf |-> image[i].conf]
      /\ UNCHANGED <<log, image, meta, links, applied, locks, lastApplied, commit,
                     raftApplied, snapAt, refresh>>
  BY DEF InstallSnapshot, CommitCovering, zoneVars, tableVars, memVars
<1>2. /\ snap'.index = i /\ snap'.meta = image[i].meta /\ snap'.locks = image[i].locks
      /\ snap'.conf = image[i].conf
  BY <1>1
<1>3. /\ LastIndex \in snap.index .. Len(log)
      /\ applied <= LastIndex /\ lastApplied <= LastIndex /\ commit <= LastIndex
  BY <1>1, LogEnd
<1>4. /\ Len(log) \in Nat /\ lastApplied \in Nat /\ applied \in Nat /\ commit \in Nat
      /\ hsCommit \in 0 .. Len(log) /\ snap.index \in Nat /\ i \in 0 .. Len(log)
  BY Numbers
<1>5. IsLockState(image[i].locks) /\ image[i].conf \subseteq Members
  BY <1>4 DEF ImagesFollowLog
<1>6. TypeOK' /\ ImagesFollowLog'
  <2>1. /\ first' \in 1 .. Len(log) + 1 /\ hsCommit' \in 0 .. Len(log)
        /\ snap'.index \in 0 .. Len(log) /\ stored' \subseteq 1 .. Len(log)
    BY <1>1, <1>2, <1>4
  <2>2. ImagesFollowLog'
    BY <1>1 DEF ImagesFollowLog
  <2> HIDE DEF MetaInv
  <2>3. TypeOK
    BY DEF MetaInv
  <2> QED BY <1>1, <1>5, <2>1, <2>2, <2>3 DEF TypeOK, Phases
<1>7. LogKept'
  <2>1. i + 1 .. i = {} /\ i \in i .. Len(log) /\ applied <= i /\ lastApplied <= i /\ commit <= i
    BY <1>1, <1>3, <1>4
  <2>2. \E n \in snap'.index .. Len(log') :
          /\ applied' <= n /\ lastApplied' <= n /\ commit' <= n
          /\ stored' = (IF pc' = "removed" THEN snap'.index + 1 ELSE first') .. n
    BY <1>1, <1>2, <2>1
  <2>3. first' <= snap'.index + 1
    BY <1>1, <1>2, <1>4
  <2> QED BY <2>2, <2>3 DEF LogKept
<1>8. CursorsInOrder' /\ MetadataIsPrefix' /\ SnapshotRows'
  BY <1>1, <1>2, <1>3, <1>4, <1>5 DEF CursorsInOrder, MetadataIsPrefix, SnapshotRows, Up
<1> QED BY <1>6, <1>7, <1>8

LEMMA RestoreMeta ==
  ASSUME MetaInv, RestoreInstalled
  PROVE  MetaInv'
<1> USE DEF MetaInv
<1>1. /\ pc = "installing" /\ pc' = "applying" /\ meta' = snap.meta /\ links' = 0
      /\ applied' = snap.index /\ lastApplied' = snap.index /\ locks' = snap.locks
      /\ commit' = snap.index /\ raftApplied' = snap.index /\ snapAt' = snap.index
      /\ UNCHANGED <<log, image, first, stored, hsCommit, conf, snap, refresh>>
  BY DEF RestoreInstalled, restore_snapshot, RestoredIndex, zoneVars, diskVars
<1>2. snap.index \in 0 .. Len(log) /\ Len(log) \in Nat
  BY Numbers
<1>3. /\ snap.meta = image[snap.index].meta /\ snap.meta \in [Keys -> Values \cup {NoValue}]
      /\ IsLockState(snap.locks)
  BY <1>2 DEF SnapshotRows, ImagesFollowLog
<1>4. TypeOK' /\ ImagesFollowLog'
  BY <1>1, <1>2, <1>3 DEF TypeOK, ImagesFollowLog, Phases
<1>5. LogKept'
  BY <1>1, <1>2 DEF LogKept
<1>6. CursorsInOrder' /\ MetadataIsPrefix' /\ SnapshotRows'
  BY <1>1, <1>2, <1>3 DEF CursorsInOrder, MetadataIsPrefix, SnapshotRows, Up
<1> QED BY <1>4, <1>5, <1>6

LEMMA CrashMeta ==
  ASSUME MetaInv, "removed" \notin CrashPoints, Crash
  PROVE  MetaInv'
<1> USE DEF MetaInv
<1>1. /\ pc # "removed" /\ pc' = "down" /\ locks' = EmptyLockState
      /\ lastApplied' = 0 /\ commit' = 0 /\ raftApplied' = 0 /\ snapAt' = 0 /\ refresh' = FALSE
      /\ UNCHANGED <<log, image, first, stored, hsCommit, conf, snap, meta, links, applied>>
  BY DEF Crash, CrashPoint, zoneVars, diskVars, tableVars
<1>2. Len(log) \in Nat /\ snap.index \in Nat
  BY Numbers
<1>3. IsLockState(EmptyLockState)
  BY FS_EmptySet DEF EmptyLockState, IsLockState
<1>4. TypeOK' /\ ImagesFollowLog'
  <2>1. {hsCommit', applied', lastApplied', commit', raftApplied', snapAt', snap'.index}
          \subseteq 0 .. Len(log')
    BY <1>1, <1>2, Numbers
  <2>2. ImagesFollowLog'
    BY <1>1 DEF ImagesFollowLog
  <2>3. pc' \in Phases /\ refresh' \in BOOLEAN /\ IsLockState(locks')
    BY <1>1, <1>3 DEF Phases
  <2> HIDE DEF MetaInv
  <2>4. TypeOK
    BY DEF MetaInv
  <2> QED BY <1>1, <2>1, <2>2, <2>3, <2>4 DEF TypeOK
<1>5. LogKept'
  <2>1. PICK n \in snap.index .. Len(log) : applied <= n /\ stored = first .. n
    BY <1>1 DEF LogKept
  <2>2. 0 <= n
    BY <1>2
  <2> QED BY <1>1, <2>1, <2>2 DEF LogKept
<1>6. CursorsInOrder' /\ MetadataIsPrefix' /\ SnapshotRows'
  BY <1>1 DEF CursorsInOrder, MetadataIsPrefix, SnapshotRows, Up
<1> QED BY <1>4, <1>5, <1>6

\* What a restarted state machine holds.
LEMMA Rehydrated ==
  ASSUME MetaInv, Restart
  PROVE  /\ meta' \in [Keys -> Values \cup {NoValue}] /\ links' \in Nat /\ IsLockState(locks')
         /\ lastApplied' = applied' /\ meta' = image[applied'].meta
         /\ applied' \in {applied, snap.index} /\ snap.index <= applied'
         /\ snap.index # 0 => applied' = snap.index /\ locks' = snap.locks
         /\ snap.index = 0 => applied' = applied /\ locks' = EmptyLockState
<1> USE DEF MetaInv
<1>1. snap.index \in 0 .. Len(log) /\ applied \in Nat /\ Len(log) \in Nat
  BY Numbers
<1>2. CASE snap.index = 0
  <2>1. locks' = EmptyLockState /\ lastApplied' = applied /\ UNCHANGED <<meta, links, applied>>
    BY <1>2 DEF Restart, Rehydrate, tableVars
  <2>2. IsLockState(EmptyLockState)
    BY FS_EmptySet DEF EmptyLockState, IsLockState
  <2> QED BY <1>1, <1>2, <2>1, <2>2 DEF TypeOK, MetadataIsPrefix
<1>3. CASE snap.index # 0
  <2>1. /\ meta' = snap.meta /\ links' = 0 /\ applied' = snap.index /\ lastApplied' = snap.index
        /\ locks' = snap.locks
    BY <1>3 DEF Restart, Rehydrate, restore_snapshot, RestoredIndex
  <2>2. /\ snap.meta = image[snap.index].meta /\ snap.meta \in [Keys -> Values \cup {NoValue}]
        /\ IsLockState(snap.locks)
    BY <1>1 DEF SnapshotRows, ImagesFollowLog
  <2> QED BY <1>1, <1>3, <2>1, <2>2
<1> QED BY <1>2, <1>3

LEMMA RestartMeta ==
  ASSUME MetaInv, Restart
  PROVE  MetaInv'
<1>1. /\ meta' \in [Keys -> Values \cup {NoValue}] /\ links' \in Nat /\ IsLockState(locks')
      /\ lastApplied' = applied' /\ meta' = image[applied'].meta
      /\ applied' \in {applied, snap.index} /\ snap.index <= applied'
  BY Rehydrated
<1>2. /\ pc = "down" /\ UNCHANGED <<log, image, first, stored, hsCommit, conf, snap, refresh>>
      /\ \/ /\ LogReadable /\ commit' = hsCommit /\ raftApplied' = first - 1
            /\ snapAt' = first - 1 /\ pc' = "idle"
         \/ pc' = "failed" /\ UNCHANGED <<commit, raftApplied, snapAt>>
  BY DEF Restart, zoneVars, diskVars
<1>3. /\ LastIndex \in snap.index .. Len(log) /\ stored = first .. LastIndex
      /\ applied <= LastIndex /\ commit <= LastIndex
  BY <1>2, LogEnd
<1>4. /\ Len(log) \in Nat /\ first \in 1 .. Len(log) + 1 /\ snap.index \in 0 .. Len(log)
      /\ applied \in 0 .. Len(log) /\ hsCommit \in 0 .. Len(log) /\ raftApplied \in 0 .. Len(log)
      /\ commit \in 0 .. Len(log) /\ snapAt \in 0 .. Len(log) /\ first <= snap.index + 1
  BY Numbers DEF MetaInv, LogKept
<1>5. /\ commit' \in 0 .. Len(log) /\ raftApplied' \in 0 .. Len(log) /\ snapAt' \in 0 .. Len(log)
      /\ commit' <= LastIndex /\ applied' \in 0 .. Len(log) /\ applied' <= LastIndex
      /\ pc' = "idle" => raftApplied' <= commit' /\ raftApplied' <= applied'
  <2>1. applied' \in 0 .. Len(log) /\ applied' <= LastIndex
    BY <1>1, <1>3, <1>4
  <2>2. CASE pc' = "idle"
    <3>1. /\ first - 1 <= hsCommit /\ hsCommit <= LastIndex /\ commit' = hsCommit
          /\ raftApplied' = first - 1 /\ snapAt' = first - 1
      BY <1>2, <2>2 DEF LogReadable
    <3>2. first - 1 \in 0 .. Len(log) /\ first - 1 <= applied'
      BY <1>1, <1>4
    <3> QED BY <1>4, <2>1, <3>1, <3>2
  <2>3. CASE pc' # "idle"
    BY <1>2, <1>3, <1>4, <2>1, <2>3
  <2> QED BY <2>2, <2>3
<1>6. TypeOK'
  <2>1. {hsCommit', applied', lastApplied', commit', raftApplied', snapAt', snap'.index}
          \subseteq 0 .. Len(log')
    BY <1>1, <1>2, <1>4, <1>5
  <2> QED BY <1>1, <1>2, <2>1 DEF MetaInv, TypeOK, Phases
<1>7. LogKept'
  BY <1>1, <1>2, <1>3, <1>4, <1>5 DEF LogKept
<1>8. CursorsInOrder' /\ MetadataIsPrefix'
  <2>1. applied' \in Nat /\ pc' \in {"idle", "failed"}
    BY <1>2, <1>4, <1>5
  <2>2. MetadataIsPrefix'
    BY <1>1, <1>2, <2>1 DEF MetadataIsPrefix
  <2>3. CursorsInOrder'
    BY <1>1, <1>2, <1>5, <2>1 DEF CursorsInOrder, Up
  <2> QED BY <2>2, <2>3
<1>9. ImagesFollowLog' /\ SnapshotRows'
  BY <1>2 DEF MetaInv, ImagesFollowLog, SnapshotRows
<1> QED BY <1>6, <1>7, <1>8, <1>9 DEF MetaInv

\* Every step of a replica that does not die inside compact.
LEMMA StepMeta ==
  ASSUME MetaInv, "removed" \notin CrashPoints, [Next]_vars
  PROVE  MetaInv'
<1>1. CASE \E c \in Commands : Commit(c)
  BY <1>1, CommitMeta
<1>2. CASE EmptyReady \/ SkipSnapshot
  BY <1>2, QuietMeta DEF EmptyReady, SkipSnapshot
<1>3. CASE Deliver
  BY <1>3, PersistMeta, StartMeta, InstallMeta DEF Deliver
<1>4. CASE Loop
  <2>1. CASE ApplyEntry
    BY <2>1, ApplyMeta
  <2>2. CASE StoreSnapshot \/ CompactEntries \/ CompactFirst
    BY <2>2, StoreMeta, CompactMeta
  <2>3. CASE RestoreInstalled \/ Restart
    BY <2>3, RestoreMeta, RestartMeta
  <2> QED BY <1>2, <1>4, <2>1, <2>2, <2>3 DEF Loop
<1>5. CASE Crash
  BY <1>5, CrashMeta
<1>6. CASE UNCHANGED vars
  BY <1>6 DEF vars, zoneVars, diskVars, tableVars, memVars, MetaInv, TypeOK, ImagesFollowLog,
              LogKept, CursorsInOrder, MetadataIsPrefix, SnapshotRows, Up
<1> QED BY <1>1, <1>2, <1>3, <1>4, <1>5, <1>6 DEF Next

\* The invariant of the metadata: for every log and every crash outside
\* compact's two transactions.
THEOREM MetaTheorem ==
  ASSUME "removed" \notin CrashPoints
  PROVE  Spec => []MetaInv
<1>1. MetaInv /\ [Next]_vars => MetaInv'
  BY StepMeta
<1> QED BY <1>1, InitMeta, PTL DEF Spec

\* Types of the replica's tables, cursors and lock table.
THEOREM ReplicaTypes ==
  ASSUME "removed" \notin CrashPoints
  PROVE  Spec => []TypeOK
<1>1. MetaInv => TypeOK
  BY DEF MetaInv
<1> QED BY <1>1, MetaTheorem, PTL

\* FullStateMachine::apply, restore_snapshot: the metadata on disk is the state
\* after log[1..last_applied], through replays, installs and crashes.
THEOREM PrefixTheorem ==
  ASSUME "removed" \notin CrashPoints
  PROVE  Spec => []MetadataIsPrefix
<1>1. MetaInv => MetadataIsPrefix
  BY DEF MetaInv
<1> QED BY <1>1, MetaTheorem, PTL

----------------------------------------------------------------------------
(* Linearizable reads *)

\* The steps of the reads are steps of the replica or leave it alone.
LEMMA ReadStep == ReadNext => [Next]_vars
<1>1. Elsewhere \/ ApplyAndResolve \/ CrashReads => Next
  BY DEF Elsewhere, ApplyAndResolve, CrashReads, Next, Loop
<1>2. Answering => [Next]_vars
  <2>1. \A c : Confirm(c) => UNCHANGED vars
    BY DEF Confirm
  <2>2. \A a : promote_read_states(a) => EmptyReady
    BY DEF promote_read_states, EmptyReady
  <2> QED BY <2>1, <2>2 DEF Answering, Next
<1>3. \A r : ReadIndex(r) \/ Read(r) => UNCHANGED vars
  BY DEF ReadIndex, Read
<1> QED BY <1>1, <1>2, <1>3 DEF ReadNext

\* The zone's log only grows.
LEMMA LogGrows ==
  ASSUME MetaInv, [Next]_vars
  PROVE  /\ Len(log) \in Nat /\ Len(log') \in Nat /\ Len(log) <= Len(log')
         /\ \A i \in 0 .. Len(log) : image'[i] = image[i]
<1>1. CASE \E c \in Commands : Commit(c)
  <2>1. PICK c \in Commands : Commit(c)
    BY <1>1
  <2> QED BY <2>1, CommitImages, Numbers DEF MetaInv
<1>2. CASE ~\E c \in Commands : Commit(c)
  <2>1. UNCHANGED zoneVars
    BY <1>2 DEF Next, EmptyReady, Deliver, PersistEntries, StartApply, StartLightApply,
                InstallSnapshot, Loop, ApplyEntry, SkipSnapshot, StoreSnapshot, CompactEntries,
                CompactFirst, RestoreInstalled, Restart, Crash, vars
  <2> QED BY <2>1, Numbers DEF MetaInv, zoneVars
<1> QED BY <1>1, <1>2

\* So does last_applied, as long as the process runs.
LEMMA AppliedGrows ==
  ASSUME MetaInv, Up, [Next]_vars, pc' # "down"
  PROVE  Up' /\ lastApplied <= lastApplied'
<1>1. lastApplied \in Nat /\ raftApplied \in Nat /\ snap.index \in Nat
  BY Numbers DEF MetaInv
<1>2. CASE ApplyEntry
  <2>1. Up'
    BY <1>2 DEF ApplyEntry, Up
  <2> QED BY <1>1, <1>2, <2>1 DEF ApplyEntry, ApplyLock, ApplyMetadata
<1>3. CASE RestoreInstalled
  <2>1. lastApplied' = snap.index /\ lastApplied < snap.index /\ Up'
    BY <1>3 DEF RestoreInstalled, restore_snapshot, RestoredIndex, MetaInv, CursorsInOrder, Up
  <2> QED BY <1>1, <2>1
<1>4. CASE ~ApplyEntry /\ ~RestoreInstalled
  <2>1. ~Crash /\ ~Restart
    BY DEF Crash, Restart, Up
  <2>2. UNCHANGED lastApplied /\ Up'
    BY <1>4, <2>1 DEF Next, EmptyReady, Deliver, PersistEntries, StartApply, StartLightApply,
                InstallSnapshot, Loop, SkipSnapshot, StoreSnapshot, CompactEntries,
                CompactFirst, Commit, vars, memVars, Up
  <2> QED BY <1>1, <2>2
<1> QED BY <1>2, <1>3, <1>4

\* A read that is done stays explained.
LEMMA DoneStays ==
  ASSUME MetaInv, [Next]_vars, ReadsAreLinearizable, CallsCovered',
         \A r \in Readers : read'[r].pc = "done" =>
           \/ read'[r] = read[r]
           \/ \E i \in read'[r].floor .. Len(log) : read'[r].got = image[i].meta
  PROVE  ReadsAreLinearizable'
<1> SUFFICES ASSUME NEW r \in Readers, read'[r].pc = "done"
             PROVE  \E i \in read'[r].floor .. Len(log') : read'[r].got = image'[i].meta
  BY DEF ReadsAreLinearizable
<1>1. PICK i \in read'[r].floor .. Len(log) : read'[r].got = image[i].meta
  BY DEF ReadsAreLinearizable
<1>2. /\ Len(log) \in Nat /\ Len(log') \in Nat /\ Len(log) <= Len(log')
      /\ \A j \in 0 .. Len(log) : image'[j] = image[j]
  BY LogGrows
<1>3. read'[r].floor \in Nat
  BY DEF CallsCovered, ReadRecord
<1>4. i \in 0 .. Len(log) /\ i \in read'[r].floor .. Len(log')
  BY <1>2, <1>3
<1> QED BY <1>1, <1>2, <1>4

\* A step of the replica that leaves the reads alone keeps what they rest on.
LEMMA ElsewhereReads ==
  ASSUME ReadInv, MetaInv', [Next]_vars, UNCHANGED readVars, Up => pc' # "down"
  PROVE  CallsCovered' /\ RequestsCovered' /\ ReadsAreLinearizable'
<1> USE DEF ReadInv
<1>1. /\ Len(log) \in Nat /\ Len(log') \in Nat /\ Len(log) <= Len(log')
  BY LogGrows
<1>2. read' = read /\ counter' = counter /\ byCtx' = byCtx /\ byIndex' = byIndex
      /\ asked' = asked /\ answers' = answers
  BY DEF readVars
<1>3. lastApplied \in Nat /\ (Up => lastApplied' \in Nat /\ Up' /\ lastApplied <= lastApplied')
  <2>1. lastApplied \in Nat
    BY Numbers DEF MetaInv
  <2>2. Up => Up' /\ lastApplied <= lastApplied'
    BY AppliedGrows
  <2>3. lastApplied' \in Nat
    BY DEF MetaInv, TypeOK
  <2> QED BY <2>1, <2>2, <2>3
<1>4. CallsCovered'
  <2>1. \A r \in Readers : read[r].floor \in Nat
    BY DEF CallsCovered, ReadRecord
  <2> QED BY <1>1, <1>2, <1>3, <2>1 DEF CallsCovered
<1>5. RequestsCovered'
  BY <1>2 DEF RequestsCovered
<1>6. ReadsAreLinearizable'
  BY <1>2, <1>4, DoneStays
<1> QED BY <1>4, <1>5, <1>6

\* resolve_ready_reads wakes calls whose index is applied.
LEMMA ResolveReads ==
  ASSUME ReadInv, MetaInv', ApplyAndResolve
  PROVE  CallsCovered' /\ RequestsCovered' /\ ReadsAreLinearizable'
<1> USE DEF ReadInv
<1>1. Up /\ Up' /\ [Next]_vars
  BY DEF ApplyAndResolve, ApplyEntry, Up, Next, Loop
<1>2. log' = log /\ Len(log) \in Nat /\ lastApplied \in Nat /\ lastApplied' \in Nat
      /\ lastApplied <= lastApplied'
  <2>1. lastApplied <= lastApplied'
    BY <1>1, AppliedGrows DEF Up
  <2> QED BY <2>1, Numbers DEF MetaInv, TypeOK, ApplyAndResolve, ApplyEntry, zoneVars
<1>3. counter' = counter /\ byCtx' = byCtx /\ asked' = asked /\ answers' = answers
  BY DEF ApplyAndResolve
<1>4. \A r \in Readers : /\ read[r] \in ReadRecord /\ read[r].floor \in Nat
                         /\ read[r].floor <= Len(log)
                         /\ read[r].pc = "ready" => read[r].floor <= lastApplied
  BY DEF CallsCovered, ReadRecord
<1>5. CASE raftApplied' # commit
  <2>1. read' = read /\ byIndex' = byIndex
    BY <1>5 DEF ApplyAndResolve
  <2>2. CallsCovered'
    BY <1>1, <1>2, <1>4, <2>1 DEF CallsCovered
  <2>3. RequestsCovered'
    BY <1>3, <2>1 DEF RequestsCovered
  <2> QED BY <1>1, <2>1, <2>2, <2>3, DoneStays
<1>6. CASE raftApplied' = commit
  <2> DEFINE due == {q \in byIndex : q[1] <= lastApplied'}
             woken == {q[2] : q \in due}
  <2>1. read' = Wake(read, woken) /\ byIndex' = byIndex \ due
    BY <1>6 DEF ApplyAndResolve, resolve_ready_reads
  <2>2. \A r \in woken : r \in Readers /\ read[r].pc # "start" /\ read[r].floor <= lastApplied'
    <3> SUFFICES ASSUME NEW q \in due
                 PROVE  /\ q[2] \in Readers /\ read[q[2]].pc # "start"
                        /\ read[q[2]].floor <= lastApplied'
      OBVIOUS
    <3>1. /\ q \in byIndex /\ q[1] \in Nat /\ q[2] \in Readers /\ read[q[2]].pc # "start"
          /\ read[q[2]].floor <= q[1] /\ q[1] <= lastApplied'
      BY DEF RequestsCovered
    <3>2. read[q[2]].floor \in Nat
      BY <1>4, <3>1
    <3> HIDE DEF due
    <3> QED BY <1>2, <3>1, <3>2
  <2> HIDE DEF due, woken
  <2>3. /\ \A r \in Readers : r \notin woken => read'[r] = read[r]
        /\ \A r \in Readers : r \in woken => read'[r] = [read[r] EXCEPT !.pc = "ready"]
        /\ read' = [r \in Readers |-> read'[r]]
    BY <2>1 DEF Wake
  <2>4. \A r \in Readers : /\ read'[r] \in ReadRecord /\ read'[r].floor = read[r].floor
                           /\ r \in woken => read'[r].pc = "ready"
                           /\ read[r].pc # "start" => read'[r].pc # "start"
    BY <1>4, <2>3 DEF ReadRecord
  <2>5. CallsCovered'
    <3>1. read' \in [Readers -> ReadRecord]
      BY <2>3, <2>4
    <3>2. \A r \in Readers : /\ read'[r].floor <= Len(log')
                             /\ read'[r].pc = "ready" => Up' /\ read'[r].floor <= lastApplied'
      BY <1>1, <1>2, <1>4, <2>2, <2>3, <2>4
    <3> QED BY <3>1, <3>2 DEF CallsCovered
  <2>6. RequestsCovered'
    BY <1>3, <2>1, <2>4 DEF RequestsCovered
  <2>7. \A r \in Readers : read'[r].pc = "done" => read'[r] = read[r]
    BY <2>3, <2>4
  <2> QED BY <1>1, <2>5, <2>6, <2>7, DoneStays
<1> QED BY <1>5, <1>6

\* A crash fails the calls that were under way.
LEMMA CrashedReads ==
  ASSUME ReadInv, LateAnswers = FALSE, MetaInv', CrashReads
  PROVE  CallsCovered' /\ RequestsCovered' /\ ReadsAreLinearizable'
<1> USE DEF ReadInv
<1>1. log' = log /\ [Next]_vars
  BY DEF CrashReads, Crash, Next, zoneVars
<1>2. \A r \in Readers :
        /\ read[r] \in ReadRecord /\ read[r].floor <= Len(log)
        /\ read'[r] = IF read[r].pc \in {"waiting", "ready"}
                      THEN [read[r] EXCEPT !.pc = "failed"] ELSE read[r]
  BY DEF CallsCovered, CrashReads
<1>3. \A r \in Readers : /\ read'[r] \in ReadRecord /\ read'[r].floor = read[r].floor
                         /\ read'[r].pc # "ready"
                         /\ read'[r].pc = "done" => read'[r] = read[r]
  BY <1>2 DEF ReadRecord
<1>4. CallsCovered'
  <2>1. read' \in [Readers -> ReadRecord]
    BY <1>3 DEF CrashReads
  <2> QED BY <1>1, <1>2, <1>3, <2>1 DEF CallsCovered
<1>5. RequestsCovered'
  <2>1. counter' = 0 /\ DOMAIN byCtx' = {} /\ byIndex' = {} /\ asked' = {} /\ answers' = {}
    BY DEF CrashReads
  <2> QED BY <2>1 DEF RequestsCovered
<1> QED BY <1>1, <1>3, <1>4, <1>5, DoneStays

\* The index of an answer covers every call made before it.
LEMMA ConfirmedReads ==
  ASSUME ReadInv, NEW c \in asked, Confirm(c)
  PROVE  CallsCovered' /\ RequestsCovered' /\ ReadsAreLinearizable'
<1> USE DEF ReadInv
<1>1. /\ log' = log /\ image' = image /\ pc' = pc /\ lastApplied' = lastApplied
      /\ read' = read /\ counter' = counter /\ byCtx' = byCtx /\ byIndex' = byIndex
      /\ asked' = asked \ {c} /\ answers' = answers \cup {<<c, Len(log)>>}
  BY DEF Confirm, vars, zoneVars, memVars
<1>2. CallsCovered' /\ ReadsAreLinearizable'
  BY <1>1 DEF CallsCovered, ReadsAreLinearizable, Up
<1>3. Len(log) \in Nat
  BY Numbers DEF MetaInv
<1>4. \A a \in answers' :
        /\ a[1] \in 0 .. counter - 1 /\ a[2] \in Nat
        /\ a[1] \in DOMAIN byCtx => read[byCtx[a[1]]].floor <= a[2]
  BY <1>1, <1>3 DEF RequestsCovered, CallsCovered
<1>5. RequestsCovered'
  BY <1>1, <1>4 DEF RequestsCovered
<1> QED BY <1>2, <1>5

\* An answer wakes the call of its context, or parks it under an index that
\* covers its start.
LEMMA PromotedReads ==
  ASSUME ReadInv, MetaInv', NEW a \in answers, promote_read_states(a)
  PROVE  CallsCovered' /\ RequestsCovered' /\ ReadsAreLinearizable'
<1> USE DEF ReadInv
<1>1. /\ Up /\ Up' /\ log' = log /\ lastApplied' = lastApplied
      /\ counter' = counter /\ asked' = asked /\ answers' = answers \ {a}
  BY DEF promote_read_states, zoneVars, memVars, Up
<1>2. [Next]_vars
  BY DEF promote_read_states, EmptyReady, Next
<1>3. /\ Len(log) \in Nat /\ lastApplied \in Nat
      /\ a[2] \in Nat
  BY Numbers DEF MetaInv, RequestsCovered
<1>4. \A r \in Readers : read[r] \in ReadRecord /\ read[r].floor \in Nat
  BY DEF CallsCovered, ReadRecord
<1>5. CASE a[1] \notin DOMAIN byCtx
  <2>1. read' = read /\ byCtx' = byCtx /\ byIndex' = byIndex
    BY <1>5 DEF promote_read_states
  <2>2. CallsCovered'
    BY <1>1, <2>1 DEF CallsCovered
  <2>3. RequestsCovered'
    BY <1>1, <2>1 DEF RequestsCovered
  <2> QED BY <1>2, <2>1, <2>2, <2>3, DoneStays
<1>6. CASE a[1] \in DOMAIN byCtx
  <2> DEFINE r == byCtx[a[1]]
  <2>1. r \in Readers /\ read[r].pc # "start" /\ read[r].floor <= a[2]
    BY <1>6 DEF RequestsCovered
  <2>2. byCtx' = [c \in DOMAIN byCtx \ {a[1]} |-> byCtx[c]]
    BY <1>6 DEF promote_read_states
  <2>3. CASE Covered(a[2])
    <3>1. read' = Wake(read, {r}) /\ byIndex' = byIndex
      BY <1>6, <2>3 DEF promote_read_states
    <3>2. read[r].floor <= lastApplied
      BY <1>3, <1>4, <2>1, <2>3 DEF Covered
    <3> HIDE DEF r
    <3>3. \A x \in Readers :
            /\ read'[x] \in ReadRecord /\ read'[x].floor = read[x].floor
            /\ x # r => read'[x] = read[x]
            /\ x = r => read'[x].pc = "ready"
            /\ read[x].pc # "start" => read'[x].pc # "start"
      BY <1>4, <3>1 DEF Wake, ReadRecord
    <3>4. CallsCovered'
      <4>1. read' \in [Readers -> ReadRecord]
        BY <3>1, <3>3 DEF Wake
      <4> QED BY <1>1, <3>2, <3>3, <4>1 DEF CallsCovered
    <3>5. RequestsCovered'
      BY <1>1, <2>2, <3>1, <3>3 DEF RequestsCovered
    <3> QED BY <1>2, <3>3, <3>4, <3>5, DoneStays
  <2>4. CASE ~Covered(a[2])
    <3>1. read' = read /\ byIndex' = byIndex \cup {<<a[2], r>>}
      BY <1>6, <2>4 DEF promote_read_states
    <3>2. CallsCovered'
      BY <1>1, <3>1 DEF CallsCovered
    <3> HIDE DEF r
    <3>3. RequestsCovered'
      BY <1>1, <1>3, <2>1, <2>2, <3>1 DEF RequestsCovered
    <3> QED BY <1>2, <3>1, <3>2, <3>3, DoneStays
  <2> QED BY <2>3, <2>4
<1> QED BY <1>5, <1>6

\* A new call has a context of its own: no answer on its way is for it.
LEMMA RequestedReads ==
  ASSUME ReadInv, NEW r \in Readers, ReadIndex(r)
  PROVE  CallsCovered' /\ RequestsCovered' /\ ReadsAreLinearizable'
<1> USE DEF ReadInv
<1>1. /\ log' = log /\ image' = image /\ pc' = pc /\ lastApplied' = lastApplied
      /\ byIndex' = byIndex /\ answers' = answers
      /\ counter' = counter + 1 /\ asked' = asked \cup {counter}
      /\ byCtx' = [c \in DOMAIN byCtx \cup {counter} |-> IF c = counter THEN r ELSE byCtx[c]]
      /\ read[r].pc = "start"
  BY DEF ReadIndex, vars, zoneVars, memVars
<1>2. Len(log) \in Nat /\ counter \in Nat
  BY Numbers DEF MetaInv, RequestsCovered
<1>3. read \in [Readers -> ReadRecord]
  BY DEF CallsCovered
<1>4. /\ \A x \in Readers : x # r => read'[x] = read[x]
      /\ read'[r].pc = "waiting" /\ read'[r].floor = Len(log)
      /\ read' \in [Readers -> ReadRecord]
  BY <1>2, <1>3 DEF ReadIndex, ReadRecord
<1>5. CallsCovered'
  BY <1>1, <1>2, <1>4 DEF CallsCovered, Up
<1>6. ReadsAreLinearizable'
  BY <1>1, <1>4 DEF ReadsAreLinearizable
<1>7. RequestsCovered'
  <2>1. \A c \in asked' \cup DOMAIN byCtx' : c \in 0 .. counter' - 1
    BY <1>1, <1>2 DEF RequestsCovered
  <2>2. \A c \in DOMAIN byCtx' : byCtx'[c] \in Readers /\ read'[byCtx'[c]].pc # "start"
    BY <1>1, <1>4 DEF RequestsCovered
  <2>3. \A b \in answers' :
          /\ b[1] \in 0 .. counter' - 1 /\ b[2] \in Nat
          /\ b[1] \in DOMAIN byCtx' => read'[byCtx'[b[1]]].floor <= b[2]
    <3> SUFFICES ASSUME NEW b \in answers
                 PROVE  /\ b[1] \in 0 .. counter' - 1 /\ b[2] \in Nat
                        /\ b[1] \in DOMAIN byCtx' => read'[byCtx'[b[1]]].floor <= b[2]
      BY <1>1
    <3>1. b[1] \in 0 .. counter - 1 /\ b[2] \in Nat
      BY DEF RequestsCovered
    <3>2. b[1] # counter /\ b[1] \in 0 .. counter' - 1
      BY <1>1, <1>2, <3>1
    <3>3. ASSUME b[1] \in DOMAIN byCtx'
          PROVE  read'[byCtx'[b[1]]].floor <= b[2]
      <4>1. b[1] \in DOMAIN byCtx /\ byCtx'[b[1]] = byCtx[b[1]]
        BY <1>1, <3>2, <3>3
      <4>2. byCtx[b[1]] \in Readers /\ byCtx[b[1]] # r /\ read[byCtx[b[1]]].floor <= b[2]
        BY <1>1, <4>1 DEF RequestsCovered
      <4> QED BY <1>4, <4>1, <4>2
    <3> QED BY <3>1, <3>2, <3>3
  <2>4. \A q \in byIndex' : /\ q[1] \in Nat /\ q[2] \in Readers
                            /\ read'[q[2]].pc # "start" /\ read'[q[2]].floor <= q[1]
    BY <1>1, <1>4 DEF RequestsCovered
  <2>5. counter' \in Nat
    BY <1>1, <1>2
  <2> QED BY <2>1, <2>2, <2>3, <2>4, <2>5 DEF RequestsCovered
<1> QED BY <1>5, <1>6, <1>7

\* The caller's closure reads the state after last_applied entries.
LEMMA ReturnedReads ==
  ASSUME ReadInv, NEW r \in Readers, Read(r)
  PROVE  CallsCovered' /\ RequestsCovered' /\ ReadsAreLinearizable'
<1> USE DEF ReadInv
<1>1. /\ UNCHANGED vars /\ log' = log /\ pc' = pc /\ lastApplied' = lastApplied
      /\ byIndex' = byIndex /\ answers' = answers
      /\ counter' = counter /\ asked' = asked /\ byCtx' = byCtx
      /\ read[r].pc = "ready" /\ Up
  BY DEF Read, vars, zoneVars, memVars
<1>2. read \in [Readers -> ReadRecord]
  BY DEF CallsCovered
<1>3. meta = image[lastApplied].meta /\ meta \in [Keys -> Values \cup {NoValue}]
  BY <1>1 DEF MetaInv, MetadataIsPrefix, TypeOK
<1>4. /\ \A x \in Readers : x # r => read'[x] = read[x]
      /\ read'[r].pc = "done" /\ read'[r].floor = read[r].floor /\ read'[r].got = meta
      /\ read' \in [Readers -> ReadRecord]
  BY <1>2, <1>3 DEF Read, ReadRecord
<1>5. CallsCovered'
  BY <1>1, <1>4 DEF CallsCovered, Up
<1>6. RequestsCovered'
  BY <1>1, <1>4 DEF RequestsCovered
<1>7. ReadsAreLinearizable'
  <2>1. /\ lastApplied \in 0 .. Len(log) /\ Len(log) \in Nat
        /\ read[r].floor \in Nat /\ read[r].floor <= lastApplied
    BY <1>1, <1>2, Numbers DEF MetaInv, CallsCovered, ReadRecord
  <2>2. lastApplied \in read'[r].floor .. Len(log)
    BY <1>4, <2>1
  <2>3. \A x \in Readers : read'[x].pc = "done" =>
          \/ read'[x] = read[x]
          \/ \E i \in read'[x].floor .. Len(log) : read'[x].got = image[i].meta
    BY <1>3, <1>4, <2>2
  <2> QED BY <1>1, <1>5, <2>3, DoneStays
<1> QED BY <1>5, <1>6, <1>7

\* Every step of the reads and the replica keeps ReadInv.
LEMMA StepReads ==
  ASSUME ReadInv, "removed" \notin CrashPoints, LateAnswers = FALSE, [ReadNext]_allVars
  PROVE  ReadInv'
<1>1. [Next]_vars
  BY ReadStep DEF allVars
<1>2. MetaInv'
  BY <1>1, StepMeta DEF ReadInv
<1>3. CASE Elsewhere \/ UNCHANGED allVars
  <2>1. UNCHANGED readVars
    BY <1>3 DEF Elsewhere, allVars
  <2>2. Up => pc' # "down"
    BY <1>3 DEF Elsewhere, allVars, vars, Commit, EmptyReady, Deliver, PersistEntries, StartApply,
                StartLightApply, InstallSnapshot, SkipSnapshot, StoreSnapshot, CompactEntries,
                CompactFirst, RestoreInstalled, Restart, Up
  <2> QED BY <1>1, <1>2, <2>1, <2>2, ElsewhereReads DEF ReadInv
<1>4. CASE ApplyAndResolve \/ CrashReads
  BY <1>2, <1>4, ResolveReads, CrashedReads DEF ReadInv
<1>5. CASE Answering
  BY <1>2, <1>5, ConfirmedReads, PromotedReads DEF Answering, ReadInv
<1>6. CASE \E r \in Readers : ReadIndex(r) \/ Read(r)
  BY <1>2, <1>6, RequestedReads, ReturnedReads DEF ReadInv
<1> QED BY <1>3, <1>4, <1>5, <1>6 DEF ReadNext

\* read_linearizable: whatever the order of requests, answers, applies,
\* installs, crashes and restarts, a call reads the metadata of a prefix of
\* the log that holds every entry committed when it was made, provided no
\* answer outlives the process that asked.
THEOREM ReadsTheorem ==
  ASSUME "removed" \notin CrashPoints, LateAnswers = FALSE
  PROVE  ReadSpec => []ReadsAreLinearizable
<1>1. ReadInit => ReadInv
  <2>1. ReadInit => MetaInv
    BY InitMeta DEF ReadInit
  <2>2. ReadInit => CallsCovered /\ RequestsCovered /\ ReadsAreLinearizable
    BY DEF ReadInit, Init, CallsCovered, RequestsCovered, ReadsAreLinearizable, NotStarted, NoMeta,
           ReadRecord
  <2> QED BY <2>1, <2>2 DEF ReadInv
<1>2. ReadInv /\ [ReadNext]_allVars => ReadInv'
  BY StepReads
<1>3. ReadInv => ReadsAreLinearizable
  BY DEF ReadInv
<1> QED BY <1>1, <1>2, <1>3, PTL DEF ReadSpec

----------------------------------------------------------------------------
(* Snapshots, locks and restarts *)

\* What a step leaves alone stays as it was.
LEMMA SameFollows ==
  ASSUME UNCHANGED <<log, image, snap, conf, applied, lastApplied, raftApplied, locks, refresh>>
  PROVE  (RunningFollows' <=> RunningFollows) /\ (DownFollows' <=> DownFollows)
<1>1. Replaying' <=> Replaying
  BY DEF Replaying, FewEntries, Joined
<1> QED BY <1>1 DEF RunningFollows, DownFollows, FewEntries, Joined

LEMMA JoinedSame ==
  ASSUME log' = log
  PROVE  \A x, i : Joined(x, i)' <=> Joined(x, i)
BY DEF Joined

LEMMA InitCut == Init => CutInv
<1> SUFFICES ASSUME Init PROVE CutInv
  OBVIOUS
<1>1. /\ Len(log) = 0 /\ image[0] = EmptyImage /\ 0 .. 0 = {0}
      /\ EmptyImage.meta = NoMeta /\ EmptyImage.locks = EmptyLockState /\ EmptyImage.conf = {}
      /\ NoSnapshot.index = 0 /\ NoSnapshot.meta = NoMeta /\ NoSnapshot.locks = EmptyLockState
      /\ NoSnapshot.conf = {}
  BY DEF Init, EmptyImage, NoSnapshot
<1>2. MetaInv /\ RestartSucceeds
  BY InitMeta DEF RestartSucceeds, Init
<1>3. SnapshotIsCut
  BY <1>1 DEF Init, SnapshotIsCut
<1>4. LogMeetsSnapshot
  BY <1>1 DEF Init, LogMeetsSnapshot, Enough
<1>5. ConfFollowsLog
  BY <1>1 DEF Init, ConfFollowsLog, RunningFollows
<1> QED BY <1>2, <1>3, <1>4, <1>5 DEF CutInv

\* A new entry of the zone's log is past everything the replica follows.
LEMMA CommitCut ==
  ASSUME CutInv, MetaInv', NEW c \in Commands, Commit(c)
  PROVE  CutInv'
<1>1. /\ Len(log') = Len(log) + 1
      /\ \A i \in 1 .. Len(log) : log'[i] = log[i]
      /\ \A i \in 0 .. Len(log) : image'[i] = image[i]
      /\ image'[Len(log) + 1] = ImageAfter(image[Len(log)], log'[Len(log) + 1])
  BY CommitImages DEF CutInv, MetaInv
<1>2. UNCHANGED <<first, stored, hsCommit, conf, snap, meta, links, applied, locks,
                  lastApplied, commit, raftApplied, snapAt, refresh, pc>>
  BY DEF Commit, diskVars, tableVars, memVars
<1>3. /\ Len(log) \in Nat /\ applied \in 0 .. Len(log) /\ lastApplied \in 0 .. Len(log)
      /\ snap.index \in 0 .. Len(log) /\ raftApplied \in 0 .. Len(log)
  BY Numbers DEF CutInv, MetaInv
<1>4. \A i \in 0 .. Len(log) : \A x : Joined(x, i)' <=> Joined(x, i)
  <2> SUFFICES ASSUME NEW i \in 0 .. Len(log), NEW x
               PROVE  Joined(x, i)' <=> Joined(x, i)
    OBVIOUS
  <2>1. \A j \in 1 .. i : log'[j] = log[j]
    BY <1>1, <1>3
  <2> QED BY <2>1 DEF Joined
<1>5. RestartSucceeds' /\ SnapshotIsCut'
  BY <1>1, <1>2, <1>3 DEF CutInv, RestartSucceeds, SnapshotIsCut
<1>6. LogMeetsSnapshot'
  BY <1>2 DEF CutInv, LogMeetsSnapshot, Enough, Up
<1>7. \A i \in 0 .. Len(log') : \A x \in image'[i].conf : Joined(x, i)'
  <2> SUFFICES ASSUME NEW i \in 0 .. Len(log'), NEW x \in image'[i].conf
               PROVE  Joined(x, i)'
    OBVIOUS
  <2>1. CASE i \in 0 .. Len(log)
    BY <1>1, <1>4, <2>1 DEF CutInv, ConfFollowsLog
  <2>2. CASE i = Len(log) + 1
    <3>1. x \in ConfAfter(image[Len(log)].conf, log'[i])
      BY <1>1, <2>2 DEF ImageAfter
    <3>2. CASE x \in image[Len(log)].conf
      <4>1. Joined(x, Len(log))
        BY <1>3, <3>2 DEF CutInv, ConfFollowsLog
      <4>2. PICK j \in 1 .. Len(log) : IsConfChange(log[j]) /\ log[j].node = x
        BY <4>1 DEF Joined
      <4>3. j \in 1 .. i /\ log'[j] = log[j]
        BY <1>1, <1>3, <2>2
      <4> QED BY <4>2, <4>3 DEF Joined
    <3>3. CASE x \notin image[Len(log)].conf
      <4>1. IsConfChange(log'[i]) /\ log'[i].node = x
        BY <3>1, <3>3 DEF ConfAfter, IsConfChange
      <4>2. i \in 1 .. i
        BY <1>3, <2>2
      <4> QED BY <4>1, <4>2 DEF Joined
    <3> QED BY <3>2, <3>3
  <2> QED BY <1>1, <1>3, <2>1, <2>2
<1>8. Running => RunningFollows'
  <2> SUFFICES ASSUME RunningFollows PROVE RunningFollows'
    BY DEF CutInv, ConfFollowsLog
  <2>1. Replaying => Replaying'
    BY <1>1, <1>2, <1>3, <1>4 DEF Replaying, FewEntries
  <2>2. \A j \in applied + 1 .. lastApplied : log'[j] = log[j]
    BY <1>1, <1>3
  <2> QED BY <1>1, <1>2, <1>3, <2>1, <2>2 DEF RunningFollows
<1>9. pc = "down" => DownFollows'
  BY <1>1, <1>2, <1>3, <1>4 DEF CutInv, ConfFollowsLog, DownFollows, FewEntries
<1>10. ConfFollowsLog'
  <2>1. pc = "installing" => snap.index # 0 /\ conf = image'[snap.index].conf
    BY <1>1, <1>3 DEF CutInv, ConfFollowsLog
  <2> QED BY <1>2, <1>7, <1>8, <1>9, <2>1 DEF ConfFollowsLog, Running
<1> QED BY <1>5, <1>6, <1>10 DEF CutInv

\* A step that leaves the zone's log alone and ends where its cases are met.
LEMMA CutParts ==
  ASSUME CutInv, MetaInv', UNCHANGED zoneVars, RestartSucceeds', SnapshotIsCut', LogMeetsSnapshot',
         Running' => RunningFollows',
         pc' = "installing" => snap'.index # 0 /\ conf' = image[snap'.index].conf,
         pc' = "down" => DownFollows'
  PROVE  CutInv'
<1>1. log' = log /\ image' = image
  BY DEF zoneVars
<1>2. \A i \in 0 .. Len(log') : \A x \in image'[i].conf : Joined(x, i)'
  BY <1>1, JoinedSame DEF CutInv, ConfFollowsLog
<1> QED BY <1>1, <1>2 DEF CutInv, ConfFollowsLog

\* While a snapshot may be taken, raft has handed over what the state machine
\* has applied, and the log holds it.
LEMMA DueIsCut ==
  ASSUME CutInv, pc = "applying", Enough
  PROVE  /\ raftApplied = lastApplied /\ conf = image[lastApplied].conf
         /\ locks = image[lastApplied].locks /\ SnapshotDue
<1>1. /\ first = snap.index + 1 /\ snapAt = first - 1 /\ RunningFollows
  BY DEF CutInv, LogMeetsSnapshot, ConfFollowsLog, Running, Up
<1>2. /\ lastApplied \in Nat /\ first \in Nat /\ snap.index \in Nat /\ snapAt \in Nat
      /\ Len(log) \in Nat /\ Threshold \in Nat
  BY Numbers, ReplicaAssumption DEF CutInv, MetaInv
<1>3. ~Replaying
  BY <1>1, <1>2 DEF Enough, Replaying, FewEntries
<1>4. lastApplied >= first
  BY <1>2 DEF Enough
<1>5. stored = first .. LastIndex /\ lastApplied <= LastIndex /\ LastIndex \in Nat
  <2>1. MetaInv /\ pc # "removed"
    BY DEF CutInv
  <2> QED BY <1>2, <2>1, LogEnd
<1>6. lastApplied \in stored
  BY <1>2, <1>4, <1>5
<1>7. LastIndex - snapAt >= Threshold \/ refresh
  BY <1>1, <1>2, <1>5 DEF Enough
<1> QED BY <1>1, <1>3, <1>6, <1>7 DEF RunningFollows, SnapshotDue

\* Readys without entries, and the end of one without a snapshot.
LEMMA QuietCut ==
  ASSUME CutInv, MetaInv', EmptyReady \/ SkipSnapshot
  PROVE  CutInv'
<1>1. UNCHANGED <<log, image, first, stored, hsCommit, conf, snap, applied, locks, lastApplied,
                  commit, raftApplied, snapAt, refresh>>
      /\ UNCHANGED zoneVars
  BY DEF EmptyReady, SkipSnapshot, zoneVars, diskVars, tableVars, memVars
<1>2. Running /\ pc \in {"idle", "applying"} /\ pc' \in {"idle", "applying"}
  BY DEF EmptyReady, SkipSnapshot, Running
<1>3. pc' = "idle" => ~Enough
  BY DueIsCut DEF EmptyReady, SkipSnapshot
<1>4. LogMeetsSnapshot'
  BY <1>1, <1>2, <1>3 DEF CutInv, LogMeetsSnapshot, Enough, Up
<1>5. RestartSucceeds' /\ SnapshotIsCut'
  BY <1>1, <1>2 DEF CutInv, RestartSucceeds, SnapshotIsCut
<1>6. RunningFollows'
  BY <1>1, <1>2, SameFollows DEF CutInv, ConfFollowsLog
<1> QED BY <1>1, <1>2, <1>4, <1>5, <1>6, CutParts

\* Entries and commit indexes from the leader.
LEMMA DeliverCut ==
  ASSUME CutInv, MetaInv',
         \E k \in 1 .. Len(log) : PersistEntries(k) \/ StartApply(k) \/ StartLightApply(k)
  PROVE  CutInv'
<1>1. PICK k \in 1 .. Len(log) : PersistEntries(k) \/ StartApply(k) \/ StartLightApply(k)
  OBVIOUS
<1>2. UNCHANGED <<log, image, first, conf, snap, applied, locks, lastApplied,
                  raftApplied, snapAt, refresh>>
      /\ UNCHANGED zoneVars /\ pc = "idle" /\ pc' = "applying" /\ Running
  BY <1>1 DEF PersistEntries, StartApply, StartLightApply, zoneVars, diskVars, tableVars, memVars,
              Running
<1>3. /\ first = snap.index + 1 /\ snap.index <= raftApplied /\ RunningFollows
      /\ snap.index <= hsCommit /\ hsCommit \in stored \cup {snap.index} /\ snapAt = first - 1
  <2>1. /\ first = snap.index + 1 /\ RunningFollows /\ snap.index <= lastApplied
        /\ snap.index <= hsCommit /\ hsCommit \in stored \cup {snap.index} /\ snapAt = first - 1
    BY <1>2 DEF CutInv, LogMeetsSnapshot, ConfFollowsLog, MetaInv, CursorsInOrder, Up
  <2>2. snap.index \in Nat /\ raftApplied \in Nat
    BY Numbers DEF CutInv, MetaInv
  <2> QED BY <2>1, <2>2 DEF RunningFollows, Replaying
<1>4. /\ raftApplied \in Nat /\ snap.index \in Nat /\ k \in Nat /\ hsCommit \in Nat
      /\ LastIndex \in Nat /\ stored = first .. LastIndex /\ Len(log) \in Nat /\ commit \in Nat
      /\ raftApplied <= commit
  <2>1. MetaInv /\ pc # "removed" /\ TypeOK /\ raftApplied <= commit
    BY <1>2 DEF CutInv, MetaInv, CursorsInOrder, Up
  <2> QED BY <2>1, LogEnd, Numbers
<1>5. snap.index <= hsCommit' /\ hsCommit' \in stored' \cup {snap.index}
  <2>1. CASE PersistEntries(k) \/ StartLightApply(k)
    BY <1>3, <2>1 DEF PersistEntries, StartLightApply, diskVars
  <2>2. CASE StartApply(k)
    <3>1. stored' = stored /\ k <= LastIndex /\ raftApplied < k
          /\ hsCommit' = IF k > commit THEN k ELSE hsCommit
      BY <2>2 DEF StartApply
    <3>2. k \in stored /\ snap.index <= k
      BY <1>3, <1>4, <3>1
    <3> QED BY <1>3, <3>1, <3>2
  <2> QED BY <1>1, <2>1, <2>2
<1>6. LogMeetsSnapshot'
  BY <1>2, <1>3, <1>5 DEF LogMeetsSnapshot
<1>7. RestartSucceeds' /\ SnapshotIsCut'
  BY <1>2 DEF CutInv, RestartSucceeds, SnapshotIsCut
<1>8. RunningFollows'
  BY <1>2, <1>3, SameFollows
<1> QED BY <1>2, <1>6, <1>7, <1>8, CutParts

\* One more entry of a replay behind the tables: the members an entry of the
\* log has named are as in the log's state.
LEMMA ReplayEntry ==
  ASSUME CutInv, ApplyEntry, Replaying, raftApplied # lastApplied
  PROVE  /\ lastApplied' = lastApplied /\ Replaying'
         /\ raftApplied' = lastApplied' => conf' = image'[raftApplied'].conf
<1> DEFINE i == raftApplied + 1
           c == log[i]
<1>1. MetaInv /\ TypeOK
  BY DEF CutInv, MetaInv
<1>2. /\ i \in 1 .. Len(log) /\ c \in Command
      /\ image[i].conf = ConfAfter(image[raftApplied].conf, c)
  BY <1>1, NextEntry
<1>3. /\ Len(log) \in Nat /\ raftApplied \in Nat /\ lastApplied \in 0 .. Len(log)
  BY <1>1, Numbers
<1>4. raftApplied <= lastApplied
  BY DEF CutInv, MetaInv, CursorsInOrder, ApplyEntry, Up
<1>5. i <= lastApplied /\ i \in 1 .. lastApplied /\ i \in Nat
  BY <1>3, <1>4
<1>6. /\ conf' = ConfAfter(conf, c) /\ raftApplied' = i
      /\ UNCHANGED <<log, image, snap, applied, lastApplied>>
  BY <1>3, <1>5 DEF ApplyEntry, ApplyLock, ApplyMetadata, zoneVars, tableVars
<1>7. \A x : Joined(x, i) => Joined(x, raftApplied) \/ (IsConfChange(c) /\ c.node = x)
  <2> SUFFICES ASSUME NEW x, Joined(x, i)
               PROVE  Joined(x, raftApplied) \/ (IsConfChange(c) /\ c.node = x)
    OBVIOUS
  <2>1. PICK j \in 1 .. i : IsConfChange(log[j]) /\ log[j].node = x
    BY DEF Joined
  <2>2. j = i \/ j \in 1 .. raftApplied
    BY <1>3
  <2> QED BY <2>1, <2>2 DEF Joined
<1>8. IsConfChange(c) => Joined(c.node, lastApplied)
  BY <1>5 DEF Joined
<1>9. \A m : /\ IsConfChange(c) => (c.node \in ConfAfter(m, c) <=> c.op = "join")
             /\ \A x : ~(IsConfChange(c) /\ c.node = x) => (x \in ConfAfter(m, c) <=> x \in m)
  BY DEF ConfAfter, IsConfChange
<1>10. \A x : Joined(x, raftApplied)' <=> Joined(x, i)
  BY <1>6 DEF Joined
<1>11. \A x : Joined(x, lastApplied)' <=> Joined(x, lastApplied)
  BY <1>6, JoinedSame
<1> HIDE DEF c
<1>12. \A x \in conf' : Joined(x, lastApplied)
  BY <1>6, <1>8, <1>9 DEF Replaying
<1>13. \A x \in Members : Joined(x, i) => (x \in conf' <=> x \in image[i].conf)
  BY <1>2, <1>6, <1>7, <1>9 DEF Replaying
<1>14. Replaying'
  <2>1. \A x \in conf' : Joined(x, lastApplied)'
    BY <1>11, <1>12
  <2>2. \A x \in Members :
          Joined(x, raftApplied)' => (x \in conf' <=> x \in image'[raftApplied'].conf)
    BY <1>6, <1>10, <1>13
  <2> QED BY <1>6, <2>1, <2>2 DEF Replaying, FewEntries
<1>15. ASSUME i = lastApplied PROVE conf' = image[i].conf
  <2>1. conf' \subseteq Members /\ image[i].conf \subseteq Members
    BY <1>1, <1>2, <1>6, ConfAfterType DEF MetaInv, ImagesFollowLog, TypeOK
  <2>2. \A x \in image[i].conf : Joined(x, i)
    BY <1>2, <1>3 DEF CutInv, ConfFollowsLog
  <2> QED BY <1>12, <1>13, <1>15, <2>1, <2>2
<1> QED BY <1>6, <1>14, <1>15

\* A committed entry.
LEMMA ApplyCut ==
  ASSUME CutInv, MetaInv', ApplyEntry
  PROVE  CutInv'
<1> DEFINE i == raftApplied + 1
           c == log[i]
<1>1. MetaInv /\ TypeOK
  BY DEF CutInv, MetaInv
<1>2. /\ i \in 1 .. Len(log) /\ c \in Command
      /\ image[i].conf = ConfAfter(image[raftApplied].conf, c)
      /\ image[i].locks = LocksAfter(image[raftApplied].locks, c)
  BY <1>1, NextEntry
<1>3. /\ Len(log) \in Nat /\ raftApplied \in Nat /\ lastApplied \in 0 .. Len(log)
      /\ applied \in 0 .. Len(log)
  BY <1>1, Numbers
<1>4. raftApplied <= lastApplied /\ pc = "applying" /\ Running /\ applied <= lastApplied
  BY DEF CutInv, MetaInv, CursorsInOrder, MetadataIsPrefix, ApplyEntry, Up, Running
<1>5. RunningFollows
  BY <1>4 DEF CutInv, ConfFollowsLog
<1>6. /\ conf' = ConfAfter(conf, c) /\ raftApplied' = i /\ refresh' = (refresh \/ IsConfChange(c))
      /\ UNCHANGED <<log, image, first, stored, hsCommit, snap, snapAt, pc>> /\ UNCHANGED zoneVars
  BY DEF ApplyEntry, zoneVars
<1>7. locks' = image'[i].locks
  <2>1. locks' = LocksAfter(locks, c)
    BY LockCommandOnly DEF ApplyEntry, ApplyLock, ApplyMetadata
  <2> QED BY <1>2, <1>5, <1>6, <2>1 DEF RunningFollows
<1>8. snap'.index # 0 /\ ~refresh' => conf' = image'[snap'.index].conf
  BY <1>5, <1>6, LockCommandOnly DEF RunningFollows
<1>9. /\ IF raftApplied' = lastApplied' THEN conf' = image'[raftApplied'].conf ELSE Replaying'
      /\ \A j \in applied' + 1 .. lastApplied' : IsLockCommand(log'[j])
  <2>1. CASE raftApplied = lastApplied
    <3>1. conf = image[raftApplied].conf
      BY <1>5, <2>1 DEF RunningFollows
    <3>2. lastApplied' = i /\ (applied' = i \/ (applied' = applied /\ IsLockCommand(c)))
      BY <1>3, <2>1 DEF ApplyEntry, ApplyLock, ApplyMetadata, tableVars
    <3>3. ASSUME NEW j \in applied' + 1 .. i PROVE IsLockCommand(log[j])
      <4>1. CASE applied' = i
        BY <1>3, <4>1
      <4>2. CASE applied' = applied /\ IsLockCommand(c)
        <5>1. j = i \/ j \in applied + 1 .. lastApplied
          BY <1>3, <2>1, <4>2
        <5> QED BY <1>5, <4>2, <5>1 DEF RunningFollows
      <4> QED BY <3>2, <4>1, <4>2
    <3> QED BY <1>2, <1>6, <3>1, <3>2, <3>3
  <2>2. CASE raftApplied # lastApplied
    <3>1. Replaying
      BY <1>5, <2>2 DEF RunningFollows
    <3>2. /\ lastApplied' = lastApplied /\ Replaying'
          /\ raftApplied' = lastApplied' => conf' = image'[raftApplied'].conf
      BY <2>2, <3>1, ReplayEntry
    <3>3. applied' = lastApplied' /\ lastApplied' \in Nat
      BY <1>3, <3>2 DEF Replaying
    <3> QED BY <3>2, <3>3
  <2> QED BY <2>1, <2>2
<1>10. RunningFollows'
  BY <1>6, <1>7, <1>8, <1>9 DEF RunningFollows
<1>11. LogMeetsSnapshot'
  BY <1>4, <1>6 DEF CutInv, LogMeetsSnapshot, Up
<1>12. RestartSucceeds' /\ SnapshotIsCut'
  BY <1>4, <1>6 DEF CutInv, RestartSucceeds, SnapshotIsCut
<1> QED BY <1>4, <1>6, <1>10, <1>11, <1>12, CutParts

\* store_snapshot: a point of the log.
LEMMA StoreCut ==
  ASSUME CutInv, MetaInv', StoreSnapshot
  PROVE  CutInv'
<1>1. MetaInv /\ TypeOK /\ pc = "applying" /\ Enough /\ Running
  BY DEF CutInv, MetaInv, StoreSnapshot, SnapshotDue, Running
<1>2. /\ raftApplied = lastApplied /\ conf = image[lastApplied].conf
      /\ locks = image[lastApplied].locks /\ meta = image[lastApplied].meta
      /\ lastApplied \in stored
  BY <1>1, DueIsCut DEF MetaInv, MetadataIsPrefix, Up, SnapshotDue
<1>3. /\ snap' = [index |-> lastApplied, meta |-> meta, locks |-> locks, conf |-> conf]
      /\ hsCommit' = IF hsCommit < lastApplied THEN lastApplied ELSE hsCommit
      /\ pc' = "stored"
      /\ UNCHANGED <<log, image, first, stored, conf, applied, locks, lastApplied, commit,
                     raftApplied, snapAt, refresh>>
      /\ UNCHANGED zoneVars
  BY DEF StoreSnapshot, SnapshotIndex, CommitCovering, zoneVars, tableVars, memVars
<1>4. SnapshotIsCut' /\ RestartSucceeds'
  BY <1>2, <1>3 DEF SnapshotIsCut, RestartSucceeds
<1>5. LogMeetsSnapshot'
  <2>1. /\ hsCommit \in stored \cup {snap.index} /\ snapAt = first - 1 /\ snap.index <= lastApplied
    BY <1>1 DEF CutInv, MetaInv, CursorsInOrder, LogMeetsSnapshot, Up
  <2>2. lastApplied \in Nat /\ hsCommit \in Nat /\ snap.index \in Nat
    BY <1>1, Numbers
  <2>3. snap'.index = lastApplied
    BY <1>3
  <2>4. lastApplied <= hsCommit' /\ hsCommit' \in stored \cup {lastApplied}
    BY <1>3, <2>1, <2>2
  <2> QED BY <1>2, <1>3, <2>1, <2>3, <2>4 DEF LogMeetsSnapshot
<1>6. RunningFollows'
  <2>1. RunningFollows
    BY <1>1 DEF CutInv, ConfFollowsLog
  <2> QED BY <1>2, <1>3, <2>1 DEF RunningFollows
<1> QED BY <1>3, <1>4, <1>5, <1>6, CutParts

\* compact, both transactions.
LEMMA CompactCut ==
  ASSUME CutInv, MetaInv', CompactEntries \/ CompactFirst
  PROVE  CutInv'
<1>1. MetaInv /\ TypeOK /\ Running /\ RunningFollows /\ pc \in {"stored", "removed"}
  BY DEF CutInv, MetaInv, CompactEntries, CompactFirst, Running, ConfFollowsLog
<1>2. /\ snap.index = lastApplied /\ raftApplied = lastApplied
      /\ snap.index <= hsCommit /\ hsCommit \in stored \cup {snap.index}
      /\ snapAt = first - 1
  BY <1>1 DEF CutInv, LogMeetsSnapshot, Up
<1>3. UNCHANGED <<log, image, hsCommit, conf, snap, applied, locks, lastApplied, raftApplied>>
      /\ UNCHANGED zoneVars
  BY DEF CompactEntries, CompactFirst, zoneVars, tableVars, memVars
<1>4. hsCommit \in Nat /\ snap.index \in Nat /\ Threshold \in Nat
  BY <1>1, Numbers, ReplicaAssumption
<1>5. CASE CompactEntries
  <2>1. /\ stored' = {i \in stored : i > snap.index} /\ pc' = "removed"
        /\ UNCHANGED <<first, snapAt, refresh>>
    BY <1>5 DEF CompactEntries, memVars
  <2>2. hsCommit \in stored' \cup {snap.index}
    BY <1>2, <1>4, <2>1
  <2>3. LogMeetsSnapshot'
    BY <1>2, <1>3, <2>1, <2>2 DEF LogMeetsSnapshot
  <2>4. RunningFollows' /\ RestartSucceeds' /\ SnapshotIsCut'
    BY <1>1, <1>3, <2>1, SameFollows DEF CutInv, RestartSucceeds, SnapshotIsCut
  <2> QED BY <1>3, <2>1, <2>3, <2>4, CutParts
<1>6. CASE CompactFirst
  <2>1. /\ stored' = stored /\ first' = snap.index + 1 /\ snapAt' = snap.index
        /\ refresh' = FALSE /\ pc' = "idle"
    BY <1>6 DEF CompactFirst
  <2>2. ~Enough'
    BY <1>2, <1>3, <1>4, <2>1 DEF Enough
  <2>3. LogMeetsSnapshot'
    BY <1>2, <1>3, <1>4, <2>1, <2>2 DEF LogMeetsSnapshot
  <2>4. RestartSucceeds' /\ SnapshotIsCut'
    BY <1>3, <2>1 DEF CutInv, RestartSucceeds, SnapshotIsCut
  <2>5. RunningFollows'
    BY <1>1, <1>2, <1>3, <2>1 DEF RunningFollows
  <2> QED BY <1>3, <2>1, <2>3, <2>4, <2>5, CutParts
<1> QED BY <1>5, <1>6

\* Both halves of a snapshot install.
LEMMA InstallCut ==
  ASSUME CutInv, MetaInv', NEW i \in 1 .. Len(log), InstallSnapshot(i)
  PROVE  CutInv'
<1>1. MetaInv /\ TypeOK /\ pc = "idle"
  BY DEF CutInv, MetaInv, InstallSnapshot
<1>2. /\ Len(log) \in Nat /\ hsCommit \in Nat /\ snap.index \in Nat /\ i \in Nat
      /\ LastIndex \in Nat /\ snap.index <= LastIndex /\ stored = first .. LastIndex
  BY <1>1, Numbers, LogEnd
<1>3. /\ i > LastIndex /\ first' = i + 1 /\ stored' = {} /\ conf' = image[i].conf
      /\ hsCommit' = IF hsCommit < i THEN i ELSE hsCommit
      /\ snap' = [index |-> i, meta |-> image[i].meta, locks |-> image[i].locks,
                  conf |-> image[i].conf]
      /\ pc' = "installing" /\ image' = image /\ UNCHANGED zoneVars
  BY DEF InstallSnapshot, CommitCovering, zoneVars
<1>4. SnapshotIsCut' /\ RestartSucceeds'
  BY <1>3 DEF SnapshotIsCut, RestartSucceeds
<1>5. hsCommit' = i /\ snap'.index = i
  <2>1. hsCommit \in stored \cup {snap.index}
    BY DEF CutInv, LogMeetsSnapshot
  <2>2. hsCommit <= LastIndex
    BY <1>2, <2>1
  <2> QED BY <1>2, <1>3, <2>2
<1>6. LogMeetsSnapshot'
  BY <1>2, <1>3, <1>5 DEF LogMeetsSnapshot
<1>7. snap'.index # 0 /\ conf' = image[snap'.index].conf
  BY <1>2, <1>3, <1>5
<1> QED BY <1>3, <1>4, <1>6, <1>7, CutParts DEF Running

LEMMA RestoreCut ==
  ASSUME CutInv, MetaInv', RestoreInstalled
  PROVE  CutInv'
<1>1. /\ pc = "installing" /\ pc' = "applying" /\ UNCHANGED zoneVars
      /\ UNCHANGED <<log, image, first, stored, hsCommit, conf, snap, refresh>>
      /\ applied' = snap.index /\ lastApplied' = snap.index /\ locks' = snap.locks
      /\ raftApplied' = snap.index /\ snapAt' = snap.index
  BY DEF RestoreInstalled, restore_snapshot, RestoredIndex, zoneVars, diskVars
<1>2. /\ snap.index # 0 /\ conf = image[snap.index].conf /\ snap.locks = image[snap.index].locks
      /\ first = snap.index + 1 /\ snap.index \in Nat
  BY <1>1, Numbers DEF CutInv, MetaInv, ConfFollowsLog, SnapshotIsCut, LogMeetsSnapshot
<1>3. LogMeetsSnapshot'
  BY <1>1, <1>2 DEF CutInv, LogMeetsSnapshot
<1>4. RestartSucceeds' /\ SnapshotIsCut'
  BY <1>1 DEF CutInv, RestartSucceeds, SnapshotIsCut
<1>5. RunningFollows'
  BY <1>1, <1>2 DEF RunningFollows
<1> QED BY <1>1, <1>3, <1>4, <1>5, CutParts

\* A process that dies with no snapshot due leaves a ConfState that a restart
\* can begin from.
LEMMA CrashCut ==
  ASSUME CutInv, MetaInv', CleanCrashes, Crash
  PROVE  CutInv'
<1>1. /\ pc' = "down" /\ UNCHANGED zoneVars
      /\ UNCHANGED <<log, image, first, stored, hsCommit, conf, snap, applied>>
  BY DEF Crash, zoneVars, diskVars, tableVars
<1>2. /\ pc \in {"idle", "applying", "installing"}
      /\ pc \in {"idle", "applying"} => ~Enough
  BY DEF Crash, CrashPoint, CleanCrashes, CutInv, LogMeetsSnapshot
<1>3. first = snap.index + 1
  BY <1>2 DEF CutInv, LogMeetsSnapshot
<1>4. /\ snap.index \in Nat /\ lastApplied \in Nat /\ applied \in Nat /\ Threshold \in Nat
      /\ Len(log) \in Nat /\ lastApplied \in 0 .. Len(log)
  BY Numbers, ReplicaAssumption DEF CutInv, MetaInv
<1>5. DownFollows
  <2>1. CASE pc = "installing"
    BY <2>1 DEF CutInv, ConfFollowsLog, DownFollows
  <2>2. CASE pc \in {"idle", "applying"}
    <3>1. /\ ~Enough /\ RunningFollows /\ snap.index <= lastApplied /\ applied <= lastApplied
      BY <1>2, <2>2 DEF CutInv, ConfFollowsLog, Running, MetaInv, CursorsInOrder,
                        MetadataIsPrefix, Up
    <3>2. CASE snap.index # 0
      <4>1. raftApplied = lastApplied /\ conf = image[lastApplied].conf
        BY <3>1, <3>2 DEF RunningFollows, Replaying
      <4>2. refresh => snap.index = lastApplied
        BY <1>3, <1>4, <3>1, <3>2 DEF Enough
      <4> QED BY <3>1, <3>2, <4>1, <4>2 DEF RunningFollows, DownFollows
    <3>3. CASE snap.index = 0
      <4>1. FewEntries(lastApplied)
        BY <1>3, <1>4, <3>1, <3>3 DEF Enough, FewEntries
      <4>2. FewEntries(applied)
        BY <1>4, <3>1, <4>1 DEF FewEntries
      <4>3. \A x \in conf : Joined(x, lastApplied)
        <5>1. CASE raftApplied = lastApplied
          BY <1>4, <3>1, <5>1 DEF CutInv, ConfFollowsLog, RunningFollows
        <5>2. CASE raftApplied # lastApplied
          BY <3>1, <5>2 DEF RunningFollows, Replaying
        <5> QED BY <5>1, <5>2
      <4>4. ASSUME NEW x, Joined(x, lastApplied) PROVE Joined(x, applied)
        <5>1. PICK j \in 1 .. lastApplied : IsConfChange(log[j]) /\ log[j].node = x
          BY <4>4 DEF Joined
        <5>2. j \notin applied + 1 .. lastApplied
          BY <3>1, <5>1 DEF RunningFollows, IsConfChange, IsLockCommand
        <5>3. j \in 1 .. applied
          BY <1>4, <5>2
        <5> QED BY <5>1, <5>3 DEF Joined
      <4> QED BY <3>3, <4>2, <4>3, <4>4 DEF DownFollows
    <3> QED BY <3>2, <3>3
  <2> QED BY <1>2, <2>1, <2>2
<1>6. DownFollows'
  BY <1>1, <1>5 DEF DownFollows, FewEntries, Joined
<1>7. LogMeetsSnapshot'
  BY <1>1, <1>3 DEF CutInv, LogMeetsSnapshot, Up
<1>8. RestartSucceeds' /\ SnapshotIsCut'
  BY <1>1 DEF CutInv, RestartSucceeds, SnapshotIsCut
<1> QED BY <1>1, <1>6, <1>7, <1>8, CutParts DEF Running

\* A restart finds a log it can read and begins from the snapshot, or from
\* the beginning.
LEMMA RestartCut ==
  ASSUME CutInv, MetaInv', Restart
  PROVE  CutInv'
<1>1. MetaInv /\ TypeOK /\ pc = "down"
  BY DEF CutInv, MetaInv, Restart
<1>2. /\ first = snap.index + 1 /\ DownFollows /\ SnapshotIsCut
      /\ snap.index <= hsCommit /\ hsCommit \in stored \cup {snap.index}
  BY <1>1 DEF CutInv, LogMeetsSnapshot, ConfFollowsLog
<1>3. /\ Len(log) \in Nat /\ hsCommit \in Nat /\ snap.index \in Nat /\ applied \in Nat
      /\ LastIndex \in Nat /\ snap.index <= LastIndex /\ stored = first .. LastIndex
      /\ Threshold \in Nat
  BY <1>1, Numbers, LogEnd, ReplicaAssumption
<1>4. LogReadable
  BY <1>2, <1>3 DEF LogReadable
<1>5. /\ raftApplied' = snap.index /\ snapAt' = snap.index /\ pc' = "idle"
      /\ UNCHANGED zoneVars
      /\ UNCHANGED <<log, image, first, stored, hsCommit, conf, snap, refresh>>
  BY <1>2, <1>3, <1>4 DEF Restart, zoneVars, diskVars
<1>6. ASSUME snap.index # 0 PROVE ~Enough' /\ RunningFollows'
  <2>1. applied' = snap.index /\ lastApplied' = snap.index /\ locks' = snap.locks
    BY <1>6 DEF Restart, Rehydrate, restore_snapshot, RestoredIndex
  <2>2. ~Enough'
    BY <1>2, <1>3, <1>5, <2>1 DEF Enough
  <2>3. conf = image[snap.index].conf /\ snap.locks = image[snap.index].locks
    BY <1>2, <1>6 DEF DownFollows, SnapshotIsCut
  <2>4. RunningFollows'
    BY <1>3, <1>5, <2>1, <2>3 DEF RunningFollows
  <2> QED BY <2>2, <2>4
<1>7. ASSUME snap.index = 0 PROVE ~Enough' /\ RunningFollows'
  <2>1. applied' = applied /\ lastApplied' = applied /\ locks' = EmptyLockState
    BY <1>7 DEF Restart, Rehydrate, tableVars
  <2>2. FewEntries(applied) /\ \A x \in conf : Joined(x, applied)
    BY <1>2, <1>7 DEF DownFollows
  <2>3. ~Enough'
    BY <1>2, <1>3, <1>5, <1>7, <2>1, <2>2 DEF Enough, FewEntries
  <2>4. image[0].locks = EmptyLockState /\ image[0].conf = {}
    BY <1>1 DEF MetaInv, ImagesFollowLog, EmptyImage
  <2>5. \A x : ~Joined(x, 0)
    BY DEF Joined
  <2>6. applied = 0 => conf = image[0].conf
    BY <2>2, <2>4, <2>5
  <2>7. Replaying'
    <3>1. \A x \in conf' : Joined(x, lastApplied)'
      BY <1>5, <2>1, <2>2 DEF Joined
    <3>2. \A x : ~Joined(x, raftApplied)'
      BY <1>5, <1>7 DEF Joined
    <3>3. FewEntries(lastApplied)'
      BY <2>1, <2>2 DEF FewEntries
    <3> QED BY <1>5, <1>7, <2>1, <3>1, <3>2, <3>3 DEF Replaying
  <2>8. RunningFollows'
    BY <1>3, <1>5, <1>7, <2>1, <2>4, <2>6, <2>7 DEF RunningFollows
  <2> QED BY <2>3, <2>8
<1>8. LogMeetsSnapshot'
  BY <1>2, <1>3, <1>5, <1>6, <1>7 DEF LogMeetsSnapshot
<1>9. RestartSucceeds' /\ SnapshotIsCut'
  BY <1>2, <1>5 DEF RestartSucceeds, SnapshotIsCut
<1> QED BY <1>5, <1>6, <1>7, <1>8, <1>9, CutParts

\* Every step of the replica keeps CutInv.
LEMMA StepCut ==
  ASSUME CutInv, CleanCrashes, [Next]_vars
  PROVE  CutInv'
<1>1. MetaInv'
  <2>1. "removed" \notin CrashPoints
    BY DEF CleanCrashes
  <2> QED BY <2>1, StepMeta DEF CutInv
<1>2. CASE \E c \in Commands : Commit(c)
  BY <1>1, <1>2, CommitCut
<1>3. CASE EmptyReady \/ SkipSnapshot
  BY <1>1, <1>3, QuietCut
<1>4. CASE Deliver
  BY <1>1, <1>4, DeliverCut, InstallCut DEF Deliver
<1>5. CASE Loop
  <2>1. CASE ApplyEntry \/ StoreSnapshot
    BY <1>1, <2>1, ApplyCut, StoreCut
  <2>2. CASE CompactEntries \/ CompactFirst
    BY <1>1, <2>2, CompactCut
  <2>3. CASE RestoreInstalled \/ Restart
    BY <1>1, <2>3, RestoreCut, RestartCut
  <2> QED BY <1>3, <1>5, <2>1, <2>2, <2>3 DEF Loop
<1>6. CASE Crash
  BY <1>1, <1>6, CrashCut
<1>7. CASE UNCHANGED vars
  <2>1. UNCHANGED <<log, image, first, stored, hsCommit, conf, snap, applied, locks, lastApplied,
                    commit, raftApplied, snapAt, refresh, pc>> /\ UNCHANGED zoneVars
    BY <1>7 DEF vars, zoneVars, diskVars, tableVars, memVars
  <2>2. LogMeetsSnapshot' /\ RestartSucceeds' /\ SnapshotIsCut'
    BY <2>1 DEF CutInv, LogMeetsSnapshot, RestartSucceeds, SnapshotIsCut, Enough, Up
  <2>3. (Running' => RunningFollows') /\ (pc' = "down" => DownFollows')
    BY <2>1, SameFollows DEF CutInv, ConfFollowsLog, Running
  <2>4. pc' = "installing" => snap'.index # 0 /\ conf' = image[snap'.index].conf
    BY <2>1 DEF CutInv, ConfFollowsLog
  <2> QED BY <1>1, <2>1, <2>2, <2>3, <2>4, CutParts
<1> QED BY <1>2, <1>3, <1>4, <1>5, <1>6, <1>7 DEF Next

\* The invariant of snapshots and replays, for every log and threshold, when
\* the process dies only where no snapshot is due or half taken.
THEOREM CutTheorem ==
  ASSUME CleanCrashes
  PROVE  Spec => []CutInv
<1>1. CutInv /\ [Next]_vars => CutInv'
  BY StepCut
<1> QED BY <1>1, InitCut, PTL DEF Spec

\* maybe_snapshot_and_compact: index, rows, locks and ConfState of a stored
\* snapshot are those of one point of the log.
THEOREM SnapshotTheorem ==
  ASSUME CleanCrashes
  PROVE  Spec => []SnapshotIsCut
<1>1. CutInv => SnapshotIsCut
  BY DEF CutInv
<1> QED BY <1>1, CutTheorem, PTL

\* The lock table of a replica, restarted or not, is the one of the entries
\* raft has handed over.
THEOREM LocksTheorem ==
  ASSUME CleanCrashes
  PROVE  Spec => []LocksFollowLog
<1>1. CutInv => LocksFollowLog
  <2> SUFFICES ASSUME CutInv, Up, raftApplied >= snap.index
               PROVE  locks = image[raftApplied].locks
    BY DEF LocksFollowLog
  <2>1. pc \in Phases /\ raftApplied \in Nat /\ lastApplied \in Nat /\ snap.index \in Nat
    BY Numbers DEF CutInv, MetaInv, TypeOK
  <2>2. pc # "installing"
    BY <2>1 DEF CutInv, MetaInv, CursorsInOrder
  <2>3. Running
    BY <2>1, <2>2 DEF Phases, Up, Running
  <2> QED BY <2>3 DEF CutInv, ConfFollowsLog, RunningFollows
<1> QED BY <1>1, CutTheorem, PTL

\* setup_zone never finds a log that RawNode::new rejects.
THEOREM RestartTheorem ==
  ASSUME CleanCrashes
  PROVE  Spec => []RestartSucceeds
<1>1. CutInv => RestartSucceeds
  BY DEF CutInv
<1> QED BY <1>1, CutTheorem, PTL
=============================================================================
