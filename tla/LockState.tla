------------------------------ MODULE LockState ------------------------------
(***************************************************************************)
(* The advisory lock table of contracts/src/lock_state.rs as pure          *)
(* operators: LockState is a function from the paths that have an entry to *)
(* LockEntry records, and every apply_* method is an operator from a table *)
(* to the next table.  The same operators are used by AdvisoryLocks (the   *)
(* service the clients see) and by ZoneReplica (a replica that replays     *)
(* lock commands out of its raft log).                                     *)
(*                                                                         *)
(* Data abstraction: a holder keeps its lock_id and expires_at;            *)
(* holder_info and acquired_at are never read by a decision, and the order *)
(* of the holders Vec is only visible in listings, so holders is a set.    *)
(***************************************************************************)
EXTENDS Integers, FiniteSets

CONSTANTS
  Paths,       \* normalized lock keys of one zone
  RootPath,    \* the key "/"
  Ancestors,   \* Ancestors[p]: the strict ancestors of p
  LockIds      \* uuids handed out by sys_lock, one per acquire

ASSUME PathTreeAssumption ==
  /\ RootPath \in Paths
  /\ Ancestors \in [Paths -> SUBSET Paths]
  /\ \A p \in Paths : p \notin Ancestors[p]
  /\ \A p \in Paths \ {RootPath} : RootPath \in Ancestors[p]

Holder == [lock_id : LockIds, expires_at : Nat]

LockEntry == [max_holders : Nat, holders : SUBSET Holder]

EmptyLockState == [p \in {} |-> [max_holders |-> 0, holders |-> {}]]

IsLockState(ls) ==
  /\ DOMAIN ls \subseteq Paths
  /\ ls = [p \in DOMAIN ls |-> ls[p]]
  /\ \A p \in DOMAIN ls : ls[p] \in LockEntry /\ IsFiniteSet(ls[p].holders)

\* BTreeMap::insert / BTreeMap::remove of one key.
Put(ls, p, e) == [q \in DOMAIN ls \cup {p} |-> IF q = p THEN e ELSE ls[q]]

Drop(ls, p) == [q \in DOMAIN ls \ {p} |-> ls[q]]

\* LockEntry::default() for a key with no entry.
HoldersAt(ls, p) == IF p \in DOMAIN ls THEN ls[p].holders ELSE {}

----------------------------------------------------------------------------
(* Hierarchy *)

\* The key range [path + "/", path + "0") of descendant_range.  For "/" the
\* prefix is "/" itself, so the range also holds the root's own entry.
DescendantRange(p) ==
  {q \in Paths : p \in Ancestors[q]} \cup (IF p = RootPath THEN {p} ELSE {})

AncestorConflict(ls, p) == \E q \in Ancestors[p] : HoldersAt(ls, q) # {}

DescendantConflict(ls, p) == \E q \in DescendantRange(p) : HoldersAt(ls, q) # {}

\* Mutant: only ancestors are consulted.
HierarchyConflict_AncestorsOnly(ls, p) == AncestorConflict(ls, p)

HierarchyConflict(ls, p) == AncestorConflict(ls, p) \/ DescendantConflict(ls, p)

----------------------------------------------------------------------------
(* Transitions *)

\* Mutant: a lease is pruned one second early.
Unexpired_Early(ls, p, now) == {h \in HoldersAt(ls, p) : h.expires_at > now + 1}

Unexpired(ls, p, now) == {h \in HoldersAt(ls, p) : h.expires_at > now}

\* Mutant: every acquire reseeds the capacity.
SeededMax_Reseed(ls, p, max, now) == max

\* The first holder seeds max_holders, later ones find it set.
SeededMax(ls, p, max, now) ==
  IF Unexpired(ls, p, now) = {} THEN max ELSE ls[p].max_holders

Reacquires(ls, p, id, now) == \E h \in Unexpired(ls, p, now) : h.lock_id = id

\* Mutant: off by one at the capacity.
AcceptsNewHolder_OffByOne(ls, p, max, now) ==
  /\ SeededMax(ls, p, max, now) = max
  /\ Cardinality(Unexpired(ls, p, now)) <= max

AcceptsNewHolder(ls, p, max, now) ==
  /\ SeededMax(ls, p, max, now) = max
  /\ Cardinality(Unexpired(ls, p, now)) < max

\* LockAcquireResult.acquired
Acquired(ls, p, id, max, now) ==
  /\ ~HierarchyConflict(ls, p)
  /\ Reacquires(ls, p, id, now) \/ AcceptsNewHolder(ls, p, max, now)

\* Mutant: the ttl is subtracted.
apply_acquire_Past(ls, p, id, max, ttl, now) ==
  IF ~Acquired(ls, p, id, max, now) THEN ls
  ELSE Put(ls, p,
         [max_holders |-> SeededMax(ls, p, max, now),
          holders     |-> Unexpired(ls, p, now)
                            \cup {[lock_id |-> id, expires_at |-> now - ttl]}])

apply_acquire(ls, p, id, max, ttl, now) ==
  IF HierarchyConflict(ls, p)
  THEN ls
  ELSE LET kept == Unexpired(ls, p, now)
           mine == [lock_id |-> id, expires_at |-> now + ttl]
       IN  Put(ls, p,
             [max_holders |-> SeededMax(ls, p, max, now),
              holders     |-> IF Acquired(ls, p, id, max, now)
                              THEN {h \in kept : h.lock_id # id} \cup {mine}
                              ELSE kept])

apply_release(ls, p, id) ==
  LET kept == {h \in HoldersAt(ls, p) : h.lock_id # id}
  IN  IF p \notin DOMAIN ls THEN ls
      ELSE IF kept = {} THEN Drop(ls, p)
      ELSE Put(ls, p, [ls[p] EXCEPT !.holders = kept])

apply_force_release(ls, p) == Drop(ls, p)

\* The boolean apply_extend returns.
Extended(ls, p, id, now) == Reacquires(ls, p, id, now)

apply_extend(ls, p, id, ttl, now) ==
  LET kept == Unexpired(ls, p, now)
      mine == [lock_id |-> id, expires_at |-> now + ttl]
  IN  IF p \notin DOMAIN ls THEN ls
      ELSE IF Extended(ls, p, id, now)
           THEN Put(ls, p, [ls[p] EXCEPT
                  !.holders = {h \in kept : h.lock_id # id} \cup {mine}])
      ELSE IF kept = {} THEN Drop(ls, p)
      ELSE Put(ls, p, [ls[p] EXCEPT !.holders = kept])

----------------------------------------------------------------------------
(* What a well-formed table satisfies *)

\* No entry has more holders than its max_holders; a lock_id holds a path once.
WithinCapacity(ls) ==
  \A p \in DOMAIN ls :
    /\ Cardinality(ls[p].holders) <= ls[p].max_holders
    /\ \A g, h \in ls[p].holders : g.lock_id = h.lock_id => g = h

\* No path is held together with one of its ancestors.
SubtreesDisjoint(ls) ==
  \A p \in Paths : \A q \in Ancestors[p] :
    HoldersAt(ls, p) = {} \/ HoldersAt(ls, q) = {}
=============================================================================
