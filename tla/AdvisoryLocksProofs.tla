------------------------- MODULE AdvisoryLocksProofs -------------------------
(***************************************************************************)
(* Proofs about the advisory lock table and the service built on it, for   *)
(* any path tree, any set of lock ids, nodes, capacities and ttls.         *)
(***************************************************************************)
EXTENDS AdvisoryLocks, FiniteSetTheorems, TLAPS

(***************************************************************************)
(* Tables                                                                  *)
(***************************************************************************)

\* The holders of a path after one entry of the table is replaced.
LEMMA HoldersAfterWrite ==
  ASSUME NEW ls, NEW p, NEW e, NEW q
  PROVE  HoldersAt(Put(ls, p, e), q) =
           IF q = p THEN e.holders ELSE HoldersAt(ls, q)
  BY DEF HoldersAt, Put

\* The holders of a path after one entry of the table is removed.
LEMMA HoldersAfterDrop ==
  ASSUME NEW ls, NEW p, NEW q
  PROVE  HoldersAt(Drop(ls, p), q) =
           IF q = p THEN {} ELSE HoldersAt(ls, q)
  BY DEF HoldersAt, Drop

\* A table stays well formed when one of its entries is replaced by a
\* well-formed one.
LEMMA PutWellFormed ==
  ASSUME NEW ls, IsLockState(ls), NEW p \in Paths,
         NEW e \in LockEntry, IsFiniteSet(e.holders)
  PROVE  IsLockState(Put(ls, p, e))
  BY DEF IsLockState, Put

\* Removing an entry leaves a lock table.
LEMMA DropWellFormed ==
  ASSUME NEW ls, IsLockState(ls), NEW p
  PROVE  IsLockState(Drop(ls, p))
  BY DEF IsLockState, Drop

\* The holders of a path are a finite set of Holder records with distinct ids.
LEMMA HoldersType ==
  ASSUME NEW ls, IsLockState(ls), WithinCapacity(ls), NEW p \in Paths
  PROVE  /\ HoldersAt(ls, p) \in SUBSET Holder
         /\ IsFiniteSet(HoldersAt(ls, p))
         /\ \A g, h \in HoldersAt(ls, p) : g.lock_id = h.lock_id => g = h
         /\ p \in DOMAIN ls => Cardinality(HoldersAt(ls, p)) <= ls[p].max_holders
  BY FS_EmptySet DEF IsLockState, HoldersAt, LockEntry, WithinCapacity

\* Replacing an entry keeps the capacity rule if the new entry obeys it.
LEMMA PutWithinCapacity ==
  ASSUME NEW ls, WithinCapacity(ls), NEW p, NEW e,
         Cardinality(e.holders) <= e.max_holders,
         \A g, h \in e.holders : g.lock_id = h.lock_id => g = h
  PROVE  WithinCapacity(Put(ls, p, e))
  BY DEF WithinCapacity, Put

\* Removing an entry breaks no capacity.
LEMMA DropWithinCapacity ==
  ASSUME NEW ls, WithinCapacity(ls), NEW p
  PROVE  WithinCapacity(Drop(ls, p))
  BY DEF WithinCapacity, Drop

\* Shrinking the holder sets cannot make two related paths conflict.
LEMMA FewerHoldersDisjoint ==
  ASSUME NEW ls, NEW ls2, SubtreesDisjoint(ls),
         \A q \in Paths : HoldersAt(ls2, q) # {} => HoldersAt(ls, q) # {}
  PROVE  SubtreesDisjoint(ls2)
  BY PathTreeAssumption DEF SubtreesDisjoint

(***************************************************************************)
(* What each operation writes                                              *)
(***************************************************************************)

TableOK(ls) == IsLockState(ls) /\ WithinCapacity(ls) /\ SubtreesDisjoint(ls)

\* Pruning a path leaves a finite set of its holders, no larger than before.
LEMMA UnexpiredType ==
  ASSUME NEW ls, TableOK(ls), NEW p \in Paths, NEW now
  PROVE  /\ Unexpired(ls, p, now) \in SUBSET HoldersAt(ls, p)
         /\ Unexpired(ls, p, now) \in SUBSET Holder
         /\ IsFiniteSet(Unexpired(ls, p, now))
         /\ Cardinality(Unexpired(ls, p, now)) \in Nat
         /\ Unexpired(ls, p, now) # {} =>
              /\ p \in DOMAIN ls
              /\ Cardinality(Unexpired(ls, p, now)) <= ls[p].max_holders
         /\ \A g, h \in Unexpired(ls, p, now) : g.lock_id = h.lock_id => g = h
<1>1. Unexpired(ls, p, now) \in SUBSET HoldersAt(ls, p)
  BY DEF Unexpired
<1>2. /\ HoldersAt(ls, p) \in SUBSET Holder
      /\ IsFiniteSet(HoldersAt(ls, p))
      /\ \A g, h \in HoldersAt(ls, p) : g.lock_id = h.lock_id => g = h
      /\ p \in DOMAIN ls => Cardinality(HoldersAt(ls, p)) <= ls[p].max_holders
  BY HoldersType DEF TableOK
<1>3. /\ IsFiniteSet(Unexpired(ls, p, now))
      /\ Cardinality(Unexpired(ls, p, now)) <= Cardinality(HoldersAt(ls, p))
  BY <1>1, <1>2, FS_Subset
<1>4. /\ Cardinality(Unexpired(ls, p, now)) \in Nat
      /\ Cardinality(HoldersAt(ls, p)) \in Nat
  BY <1>2, <1>3, FS_CardinalityType
<1>5. p \in DOMAIN ls => ls[p].max_holders \in Nat
  BY DEF TableOK, IsLockState, LockEntry
<1>6. Unexpired(ls, p, now) # {} => p \in DOMAIN ls
  BY <1>1 DEF HoldersAt
<1> QED
  BY <1>1, <1>2, <1>3, <1>4, <1>5, <1>6

\* Replacing one holder row by another of the same id keeps the count.
LEMMA RenewedRows ==
  ASSUME NEW S \in SUBSET Holder, IsFiniteSet(S), NEW m \in Holder,
         \A g, h \in S : g.lock_id = h.lock_id => g = h
  PROVE  LET T == {h \in S : h.lock_id # m.lock_id} \cup {m}
         IN  /\ IsFiniteSet(T)
             /\ T \in SUBSET Holder
             /\ \A g, h \in T : g.lock_id = h.lock_id => g = h
             /\ (\E h \in S : h.lock_id = m.lock_id) => Cardinality(T) <= Cardinality(S)
             /\ Cardinality(T) <= Cardinality(S) + 1
<1> DEFINE R == {h \in S : h.lock_id # m.lock_id}
<1> DEFINE T == R \cup {m}
<1>1. /\ IsFiniteSet(R)
      /\ Cardinality(R) <= Cardinality(S)
      /\ Cardinality(S) = Cardinality(R) => S = R
  BY FS_Subset, R \in SUBSET S
<1>2. m \notin R
  OBVIOUS
<1>3. IsFiniteSet(T) /\ Cardinality(T) = Cardinality(R) + 1
  BY <1>1, <1>2, FS_AddElement
<1>4. Cardinality(R) \in Nat /\ Cardinality(S) \in Nat
  BY <1>1, FS_CardinalityType
<1>5. (\E h \in S : h.lock_id = m.lock_id) => S # R
  OBVIOUS
<1>6. T \in SUBSET Holder /\ \A g, h \in T : g.lock_id = h.lock_id => g = h
  OBVIOUS
<1> HIDE DEF R, T
<1>7. /\ IsFiniteSet(T)
      /\ T \in SUBSET Holder
      /\ \A g, h \in T : g.lock_id = h.lock_id => g = h
      /\ (\E h \in S : h.lock_id = m.lock_id) => Cardinality(T) <= Cardinality(S)
      /\ Cardinality(T) <= Cardinality(S) + 1
  BY <1>1, <1>3, <1>4, <1>5, <1>6
<1> QED
  BY <1>7 DEF T, R

\* Row h of path q, with its capacity, is in both tables.
Keeps(ls, ls2, q, h) ==
  h \in HoldersAt(ls, q) =>
    /\ h \in HoldersAt(ls2, q)
    /\ ls2[q].max_holders = ls[q].max_holders

\* apply_acquire keeps the table well formed, keeps every row of another id
\* that has not expired at its stamp, and gives a row to the id it grants.
LEMMA AcquireTable ==
  ASSUME NEW ls, TableOK(ls), NEW p \in Paths, NEW id \in LockIds,
         NEW max \in Nat, NEW ttl \in Nat, NEW now \in Nat
  PROVE  LET ls2 == apply_acquire(ls, p, id, max, ttl, now)
         IN  /\ TableOK(ls2)
             /\ \A q \in Paths : \A h \in HoldersAt(ls, q) :
                  (q # p \/ (h.lock_id # id /\ h.expires_at > now)) =>
                     Keeps(ls, ls2, q, h)
             /\ Acquired(ls, p, id, max, now) =>
                  /\ p \in DOMAIN ls2
                  /\ [lock_id |-> id, expires_at |-> now + ttl] \in HoldersAt(ls2, p)
                  /\ ls2[p].max_holders = SeededMax(ls, p, max, now)
<1> DEFINE kept == Unexpired(ls, p, now)
<1> DEFINE mine == [lock_id |-> id, expires_at |-> now + ttl]
<1> DEFINE rows == IF Acquired(ls, p, id, max, now)
                   THEN {h \in kept : h.lock_id # id} \cup {mine} ELSE kept
<1> DEFINE e == [max_holders |-> SeededMax(ls, p, max, now), holders |-> rows]
<1> DEFINE ls2 == apply_acquire(ls, p, id, max, ttl, now)
<1>1. CASE HierarchyConflict(ls, p)
  <2>1. ls2 = ls /\ ~Acquired(ls, p, id, max, now)
    BY <1>1 DEF apply_acquire, Acquired
  <2> QED
    BY <2>1 DEF Keeps
<1>2. CASE ~HierarchyConflict(ls, p)
  <2>1. ls2 = Put(ls, p, e)
    BY <1>2 DEF apply_acquire
  <2>2. /\ kept \in SUBSET HoldersAt(ls, p)
        /\ kept \in SUBSET Holder
        /\ IsFiniteSet(kept)
        /\ Cardinality(kept) \in Nat
        /\ kept # {} => p \in DOMAIN ls /\ Cardinality(kept) <= ls[p].max_holders
        /\ \A g, h \in kept : g.lock_id = h.lock_id => g = h
    BY UnexpiredType
  <2>3. SeededMax(ls, p, max, now) \in Nat
    BY <2>2 DEF SeededMax, TableOK, IsLockState, LockEntry
  <2>4. Cardinality(kept) <= SeededMax(ls, p, max, now)
    BY <2>2, FS_EmptySet DEF SeededMax
  <2>5. mine \in Holder
    BY DEF Holder
  <2>6. /\ IsFiniteSet(rows)
        /\ rows \in SUBSET Holder
        /\ \A g, h \in rows : g.lock_id = h.lock_id => g = h
        /\ Cardinality(rows) <= SeededMax(ls, p, max, now)
    <3>1. CASE ~Acquired(ls, p, id, max, now)
      <4>1. rows = kept
        BY <3>1
      <4> QED
        BY <4>1, <2>2, <2>4
    <3>2. CASE Acquired(ls, p, id, max, now)
      <4> DEFINE T == {h \in kept : h.lock_id # mine.lock_id} \cup {mine}
      <4>1. rows = T
        BY <3>2
      <4>2. /\ IsFiniteSet(T)
            /\ T \in SUBSET Holder
            /\ \A g, h \in T : g.lock_id = h.lock_id => g = h
            /\ (\E h \in kept : h.lock_id = mine.lock_id) => Cardinality(T) <= Cardinality(kept)
            /\ Cardinality(T) <= Cardinality(kept) + 1
        <5> HIDE DEF kept, mine
        <5> QED
          BY <2>2, <2>5, RenewedRows
      <4>3. \/ \E h \in kept : h.lock_id = id
            \/ Cardinality(kept) < SeededMax(ls, p, max, now)
        BY <3>2 DEF Acquired, Reacquires, AcceptsNewHolder
      <4>4. Cardinality(T) \in Nat
        BY <4>2, FS_CardinalityType
      <4>5. mine.lock_id = id
        OBVIOUS
      <4> HIDE DEF kept, mine, rows, T
      <4> QED
        BY <4>1, <4>2, <4>3, <4>4, <4>5, <2>2, <2>3, <2>4
    <3> QED
      BY <3>1, <3>2
  <2>7. e \in LockEntry /\ IsFiniteSet(e.holders) /\ e.holders = rows
    BY <2>3, <2>6 DEF LockEntry
  <2>8. IsLockState(ls2) /\ WithinCapacity(ls2)
    <3> HIDE DEF e
    <3>1. IsLockState(Put(ls, p, e))
      BY <2>7, PutWellFormed DEF TableOK
    <3>2. Cardinality(e.holders) <= e.max_holders
      BY <2>6, <2>7 DEF e
    <3>3. \A g, h \in e.holders : g.lock_id = h.lock_id => g = h
      BY <2>6, <2>7
    <3>4. WithinCapacity(Put(ls, p, e))
      BY <3>2, <3>3, PutWithinCapacity DEF TableOK
    <3> QED
      BY <2>1, <3>1, <3>4
  <2>9. \A q \in Paths : HoldersAt(ls2, q) = IF q = p THEN rows ELSE HoldersAt(ls, q)
    <3> HIDE DEF rows
    <3> QED
      BY <2>1, <2>7, HoldersAfterWrite
  <2>10. SubtreesDisjoint(ls2)
    <3>1. \A q \in Ancestors[p] : HoldersAt(ls, q) = {} /\ q # p
      BY <1>2, PathTreeAssumption DEF HierarchyConflict, AncestorConflict
    <3>2. \A q \in Paths : p \in Ancestors[q] => HoldersAt(ls, q) = {} /\ q # p
      BY <1>2, PathTreeAssumption DEF HierarchyConflict, DescendantConflict, DescendantRange
    <3>3. \A q \in Paths : Ancestors[q] \in SUBSET Paths
      BY PathTreeAssumption
    <3>4. \A q \in Paths : \A r \in Ancestors[q] :
             HoldersAt(ls, q) = {} \/ HoldersAt(ls, r) = {}
      BY DEF TableOK, SubtreesDisjoint
    <3> HIDE DEF rows, ls2
    <3> SUFFICES ASSUME NEW q \in Paths, NEW r \in Ancestors[q]
                 PROVE  HoldersAt(ls2, q) = {} \/ HoldersAt(ls2, r) = {}
      BY DEF SubtreesDisjoint
    <3>5. r \in Paths
      BY <3>3
    <3> QED
      BY <2>9, <3>1, <3>2, <3>4, <3>5
  <2>11. ASSUME NEW q \in Paths, NEW h \in HoldersAt(ls, q),
                q # p \/ (h.lock_id # id /\ h.expires_at > now)
         PROVE  Keeps(ls, ls2, q, h)
    <3>1. CASE q # p
      BY <3>1, <2>1, <2>9 DEF Keeps, Put, HoldersAt
    <3>2. CASE q = p
      <4>1. h \in kept /\ h.lock_id # id
        BY <2>11, <3>2 DEF Unexpired
      <4>2. h \in rows
        BY <4>1
      <4>3. SeededMax(ls, p, max, now) = ls[p].max_holders
        BY <4>1 DEF SeededMax
      <4>4. ls2[p].max_holders = SeededMax(ls, p, max, now)
        BY <2>1 DEF Put
      <4> QED
        BY <3>2, <4>2, <4>3, <4>4, <2>9 DEF Keeps
    <3> QED
      BY <3>1, <3>2
  <2>12. ASSUME Acquired(ls, p, id, max, now)
         PROVE  /\ p \in DOMAIN ls2
                /\ mine \in HoldersAt(ls2, p)
                /\ ls2[p].max_holders = SeededMax(ls, p, max, now)
    <3>1. mine \in rows
      BY <2>12
    <3>2. p \in DOMAIN ls2 /\ ls2[p] = e
      BY <2>1 DEF Put
    <3>3. HoldersAt(ls2, p) = rows
      BY <2>9
    <3> QED
      BY <3>1, <3>2, <3>3
  <2>13. TableOK(ls2)
    BY <2>8, <2>10 DEF TableOK
  <2> QED
    BY <2>11, <2>12, <2>13
<1> QED
  BY <1>1, <1>2

\* apply_extend keeps the table well formed, keeps every unexpired row of
\* another id, and renews the row of the id it extends.
LEMMA ExtendTable ==
  ASSUME NEW ls, TableOK(ls), NEW p \in Paths, NEW id \in LockIds,
         NEW ttl \in Nat, NEW now \in Nat
  PROVE  LET ls2 == apply_extend(ls, p, id, ttl, now)
         IN  /\ TableOK(ls2)
             /\ \A q \in Paths : \A h \in HoldersAt(ls, q) :
                  (q # p \/ (h.lock_id # id /\ h.expires_at > now)) =>
                     Keeps(ls, ls2, q, h)
             /\ Extended(ls, p, id, now) =>
                  /\ p \in DOMAIN ls2
                  /\ [lock_id |-> id, expires_at |-> now + ttl] \in HoldersAt(ls2, p)
                  /\ ls2[p].max_holders = ls[p].max_holders
<1> DEFINE kept == Unexpired(ls, p, now)
<1> DEFINE mine == [lock_id |-> id, expires_at |-> now + ttl]
<1> DEFINE T == {h \in kept : h.lock_id # mine.lock_id} \cup {mine}
<1> DEFINE ls2 == apply_extend(ls, p, id, ttl, now)
<1>1. /\ kept \in SUBSET HoldersAt(ls, p)
      /\ kept \in SUBSET Holder
      /\ IsFiniteSet(kept)
      /\ Cardinality(kept) \in Nat
      /\ kept # {} => p \in DOMAIN ls /\ Cardinality(kept) <= ls[p].max_holders
      /\ \A g, h \in kept : g.lock_id = h.lock_id => g = h
  BY UnexpiredType
<1>2. mine \in Holder /\ mine.lock_id = id
  BY DEF Holder
<1>3. IsLockState(ls) /\ WithinCapacity(ls) /\ SubtreesDisjoint(ls)
  BY DEF TableOK
<1>4. p \in DOMAIN ls => ls[p] \in LockEntry /\ ls[p].max_holders \in Nat
  BY <1>3 DEF IsLockState, LockEntry
<1>5. Extended(ls, p, id, now) <=> \E h \in kept : h.lock_id = id
  BY DEF Extended, Reacquires
<1>6. CASE p \notin DOMAIN ls
  <2>1. ls2 = ls /\ kept = {}
    BY <1>1, <1>6 DEF apply_extend
  <2> QED
    BY <2>1, <1>5 DEF Keeps
<1>7. CASE p \in DOMAIN ls /\ Extended(ls, p, id, now)
  <2> DEFINE e == [ls[p] EXCEPT !.holders = T]
  <2>1. ls2 = Put(ls, p, e)
    BY <1>7, <1>2 DEF apply_extend
  <2>2. /\ IsFiniteSet(T)
        /\ T \in SUBSET Holder
        /\ \A g, h \in T : g.lock_id = h.lock_id => g = h
        /\ (\E h \in kept : h.lock_id = mine.lock_id) => Cardinality(T) <= Cardinality(kept)
    <3> HIDE DEF kept, mine
    <3> QED
      BY <1>1, <1>2, RenewedRows
  <2>3. kept # {} /\ Cardinality(T) <= Cardinality(kept)
    BY <2>2, <1>7, <1>5, <1>2
  <2>4. Cardinality(T) \in Nat
    BY <2>2, FS_CardinalityType
  <2>5. /\ e \in LockEntry
        /\ e.holders = T
        /\ e.max_holders = ls[p].max_holders
    <3> HIDE DEF T
    <3> QED
      BY <1>4, <1>7, <2>2 DEF LockEntry
  <2>6. Cardinality(e.holders) <= e.max_holders
    <3> HIDE DEF T, e, kept
    <3> QED
      BY <2>3, <2>4, <2>5, <1>1, <1>4, <1>7
  <2>7. IsLockState(ls2) /\ WithinCapacity(ls2)
    <3> HIDE DEF e
    <3>1. IsLockState(Put(ls, p, e))
      BY <2>2, <2>5, <1>3, PutWellFormed
    <3>2. \A g, h \in e.holders : g.lock_id = h.lock_id => g = h
      BY <2>2, <2>5
    <3>3. WithinCapacity(Put(ls, p, e))
      BY <2>6, <3>2, <1>3, PutWithinCapacity
    <3> QED
      BY <2>1, <3>1, <3>3
  <2>8. \A q \in Paths : HoldersAt(ls2, q) = IF q = p THEN T ELSE HoldersAt(ls, q)
    <3> HIDE DEF T, e
    <3> QED
      BY <2>1, <2>5, HoldersAfterWrite
  <2>9. SubtreesDisjoint(ls2)
    <3>1. HoldersAt(ls, p) # {}
      BY <2>3, <1>1
    <3>2. \A q \in Paths : HoldersAt(ls2, q) # {} => HoldersAt(ls, q) # {}
      BY <3>1, <2>8
    <3> HIDE DEF ls2
    <3> QED
      BY <3>2, <1>3, FewerHoldersDisjoint
  <2>10. ASSUME NEW q \in Paths, NEW h \in HoldersAt(ls, q),
                q # p \/ (h.lock_id # id /\ h.expires_at > now)
         PROVE  Keeps(ls, ls2, q, h)
    <3>1. CASE q # p
      BY <3>1, <2>1, <2>8 DEF Keeps, Put, HoldersAt
    <3>2. CASE q = p
      <4>1. h \in T
        BY <2>10, <3>2 DEF Unexpired
      <4>2. ls2[p] = e
        BY <2>1 DEF Put
      <4> QED
        BY <3>2, <4>1, <4>2, <2>5, <2>8 DEF Keeps
    <3> QED
      BY <3>1, <3>2
  <2>11. /\ p \in DOMAIN ls2
         /\ mine \in HoldersAt(ls2, p)
         /\ ls2[p].max_holders = ls[p].max_holders
    <3>1. p \in DOMAIN ls2 /\ ls2[p] = e
      BY <2>1 DEF Put
    <3>2. mine \in T
      OBVIOUS
    <3> HIDE DEF T, e
    <3> QED
      BY <3>1, <3>2, <2>5, <2>8
  <2>12. TableOK(ls2)
    BY <2>7, <2>9 DEF TableOK
  <2> QED
    BY <2>10, <2>11, <2>12
<1>8. CASE p \in DOMAIN ls /\ ~Extended(ls, p, id, now) /\ kept = {}
  <2>1. ls2 = Drop(ls, p)
    BY <1>8 DEF apply_extend
  <2>2. \A q \in Paths : HoldersAt(ls2, q) = IF q = p THEN {} ELSE HoldersAt(ls, q)
    BY <2>1, HoldersAfterDrop
  <2>3. SubtreesDisjoint(ls2)
    <3> HIDE DEF ls2
    <3> QED
      BY <2>2, <1>3, FewerHoldersDisjoint
  <2>4. TableOK(ls2)
    BY <2>1, <2>3, <1>3, DropWellFormed, DropWithinCapacity DEF TableOK
  <2>5. ASSUME NEW q \in Paths, NEW h \in HoldersAt(ls, q),
               q # p \/ (h.lock_id # id /\ h.expires_at > now)
        PROVE  Keeps(ls, ls2, q, h)
    <3>1. q # p
      BY <2>5, <1>8 DEF Unexpired
    <3> QED
      BY <3>1, <2>1, <2>2 DEF Keeps, Drop, HoldersAt
  <2> QED
    BY <2>4, <2>5, <1>8
<1>9. CASE p \in DOMAIN ls /\ ~Extended(ls, p, id, now) /\ kept # {}
  <2> DEFINE e == [ls[p] EXCEPT !.holders = kept]
  <2>1. ls2 = Put(ls, p, e)
    BY <1>9 DEF apply_extend
  <2>2. /\ e \in LockEntry
        /\ e.holders = kept
        /\ e.max_holders = ls[p].max_holders
    <3> HIDE DEF kept
    <3> QED
      BY <1>1, <1>4, <1>9 DEF LockEntry
  <2>3. IsLockState(ls2) /\ WithinCapacity(ls2)
    <3> HIDE DEF e, kept
    <3>1. IsLockState(Put(ls, p, e))
      BY <2>2, <1>1, <1>3, PutWellFormed
    <3>2. /\ Cardinality(e.holders) <= e.max_holders
          /\ \A g, h \in e.holders : g.lock_id = h.lock_id => g = h
      BY <2>2, <1>1, <1>9
    <3>3. WithinCapacity(Put(ls, p, e))
      BY <3>2, <1>3, PutWithinCapacity
    <3> QED
      BY <2>1, <3>1, <3>3
  <2>4. \A q \in Paths : HoldersAt(ls2, q) = IF q = p THEN kept ELSE HoldersAt(ls, q)
    <3> HIDE DEF kept, e
    <3> QED
      BY <2>1, <2>2, HoldersAfterWrite
  <2>5. SubtreesDisjoint(ls2)
    <3>1. HoldersAt(ls, p) # {}
      BY <1>9, <1>1
    <3>2. \A q \in Paths : HoldersAt(ls2, q) # {} => HoldersAt(ls, q) # {}
      BY <3>1, <2>4
    <3> HIDE DEF ls2
    <3> QED
      BY <3>2, <1>3, FewerHoldersDisjoint
  <2>6. ASSUME NEW q \in Paths, NEW h \in HoldersAt(ls, q),
               q # p \/ (h.lock_id # id /\ h.expires_at > now)
        PROVE  Keeps(ls, ls2, q, h)
    <3>1. CASE q # p
      BY <3>1, <2>1, <2>4 DEF Keeps, Put, HoldersAt
    <3>2. CASE q = p
      <4>1. h \in kept
        BY <2>6, <3>2 DEF Unexpired
      <4>2. ls2[p] = e
        BY <2>1 DEF Put
      <4> QED
        BY <3>2, <4>1, <4>2, <2>2, <2>4 DEF Keeps
    <3> QED
      BY <3>1, <3>2
  <2> QED
    BY <2>3, <2>5, <2>6, <1>9 DEF TableOK
<1> QED
  BY <1>6, <1>7, <1>8, <1>9

\* Removing an entry keeps the table well formed and every row of the other
\* paths.
LEMMA DropTable ==
  ASSUME NEW ls, TableOK(ls), NEW p \in Paths
  PROVE  /\ TableOK(Drop(ls, p))
         /\ \A q \in Paths : \A h \in HoldersAt(ls, q) :
              q # p => Keeps(ls, Drop(ls, p), q, h)
<1>1. IsLockState(ls) /\ WithinCapacity(ls) /\ SubtreesDisjoint(ls)
  BY DEF TableOK
<1>2. \A q \in Paths :
        HoldersAt(Drop(ls, p), q) = IF q = p THEN {} ELSE HoldersAt(ls, q)
  BY HoldersAfterDrop
<1>3. SubtreesDisjoint(Drop(ls, p))
  BY <1>1, <1>2, FewerHoldersDisjoint
<1>4. TableOK(Drop(ls, p))
  BY <1>1, <1>3, DropWellFormed, DropWithinCapacity DEF TableOK
<1>5. ASSUME NEW q \in Paths, NEW h \in HoldersAt(ls, q), q # p
      PROVE  Keeps(ls, Drop(ls, p), q, h)
  BY <1>2, <1>5 DEF Keeps, Drop, HoldersAt
<1> QED
  BY <1>4, <1>5

\* apply_release keeps the table well formed and every row of another id or
\* another path.
LEMMA ReleaseTable ==
  ASSUME NEW ls, TableOK(ls), NEW p \in Paths, NEW id \in LockIds
  PROVE  LET ls2 == apply_release(ls, p, id)
         IN  /\ TableOK(ls2)
             /\ \A q \in Paths : \A h \in HoldersAt(ls, q) :
                  (q # p \/ h.lock_id # id) => Keeps(ls, ls2, q, h)
<1> DEFINE kept == {h \in HoldersAt(ls, p) : h.lock_id # id}
<1> DEFINE ls2 == apply_release(ls, p, id)
<1>1. IsLockState(ls) /\ WithinCapacity(ls) /\ SubtreesDisjoint(ls)
  BY DEF TableOK
<1>2. CASE p \notin DOMAIN ls
  <2>1. ls2 = ls
    BY <1>2 DEF apply_release
  <2> QED
    BY <2>1 DEF Keeps
<1>3. CASE p \in DOMAIN ls /\ kept = {}
  <2>1. ls2 = Drop(ls, p)
    BY <1>3 DEF apply_release
  <2>2. ASSUME NEW q \in Paths, NEW h \in HoldersAt(ls, q), q # p \/ h.lock_id # id
        PROVE  q # p
    BY <2>2, <1>3
  <2>3. TableOK(Drop(ls, p))
    BY DropTable
  <2>4. \A q \in Paths : \A h \in HoldersAt(ls, q) :
          q # p => Keeps(ls, Drop(ls, p), q, h)
    BY DropTable
  <2> QED
    BY <2>1, <2>2, <2>3, <2>4
<1>4. CASE p \in DOMAIN ls /\ kept # {}
  <2> DEFINE e == [ls[p] EXCEPT !.holders = kept]
  <2>1. ls2 = Put(ls, p, e)
    BY <1>4 DEF apply_release
  <2>2. /\ HoldersAt(ls, p) \in SUBSET Holder
        /\ IsFiniteSet(HoldersAt(ls, p))
        /\ \A g, h \in HoldersAt(ls, p) : g.lock_id = h.lock_id => g = h
        /\ Cardinality(HoldersAt(ls, p)) <= ls[p].max_holders
    BY <1>1, <1>4, HoldersType
  <2>3. kept \in SUBSET HoldersAt(ls, p)
    OBVIOUS
  <2>4. /\ IsFiniteSet(kept)
        /\ Cardinality(kept) <= Cardinality(HoldersAt(ls, p))
    <3> HIDE DEF kept
    <3> QED
      BY <2>2, <2>3, FS_Subset
  <2>5. Cardinality(kept) \in Nat /\ Cardinality(HoldersAt(ls, p)) \in Nat
    BY <2>2, <2>4, FS_CardinalityType
  <2>6. ls[p] \in LockEntry /\ ls[p].max_holders \in Nat
    BY <1>1, <1>4 DEF IsLockState, LockEntry
  <2>7. /\ e \in LockEntry
        /\ e.holders = kept
        /\ e.max_holders = ls[p].max_holders
    <3> HIDE DEF kept
    <3> QED
      BY <2>2, <2>3, <2>6 DEF LockEntry
  <2>8. IsLockState(ls2) /\ WithinCapacity(ls2)
    <3> HIDE DEF e, kept
    <3>1. IsLockState(Put(ls, p, e))
      BY <2>4, <2>7, <1>1, PutWellFormed
    <3>2. Cardinality(e.holders) <= e.max_holders
      BY <2>2, <2>4, <2>5, <2>6, <2>7
    <3>3. \A g, h \in e.holders : g.lock_id = h.lock_id => g = h
      BY <2>2, <2>3, <2>7
    <3>4. WithinCapacity(Put(ls, p, e))
      BY <3>2, <3>3, <1>1, PutWithinCapacity
    <3> QED
      BY <2>1, <3>1, <3>4
  <2>9. \A q \in Paths : HoldersAt(ls2, q) = IF q = p THEN kept ELSE HoldersAt(ls, q)
    <3> HIDE DEF kept, e
    <3> QED
      BY <2>1, <2>7, HoldersAfterWrite
  <2>10. SubtreesDisjoint(ls2)
    <3>1. HoldersAt(ls, p) # {}
      BY <1>4
    <3>2. \A q \in Paths : HoldersAt(ls2, q) # {} => HoldersAt(ls, q) # {}
      BY <3>1, <2>9
    <3> HIDE DEF ls2
    <3> QED
      BY <3>2, <1>1, FewerHoldersDisjoint
  <2>11. ASSUME NEW q \in Paths, NEW h \in HoldersAt(ls, q), q # p \/ h.lock_id # id
         PROVE  Keeps(ls, ls2, q, h)
    <3>1. CASE q # p
      BY <3>1, <2>1, <2>9 DEF Keeps, Put, HoldersAt
    <3>2. CASE q = p
      <4>1. h \in kept
        BY <2>11, <3>2
      <4>2. ls2[p] = e
        BY <2>1 DEF Put
      <4> QED
        BY <3>2, <4>1, <4>2, <2>7, <2>9 DEF Keeps
    <3> QED
      BY <3>1, <3>2
  <2> QED
    BY <2>8, <2>10, <2>11 DEF TableOK
<1> QED
  BY <1>2, <1>3, <1>4

(***************************************************************************)
(* Where the rows of the next table come from                              *)
(***************************************************************************)

\* Every row of ls2 renews or keeps a row of ls, under the same capacity.
OldRows(ls, ls2) ==
  \A q \in DOMAIN ls2 : \A h \in ls2[q].holders :
    /\ q \in DOMAIN ls
    /\ ls2[q].max_holders = ls[q].max_holders
    /\ \E g \in ls[q].holders : g.lock_id = h.lock_id

\* Apart from renewed or kept rows, apply_acquire adds only a row of the
\* caller, under the capacity the caller asked for.
LEMMA AcquireRows ==
  ASSUME NEW ls, NEW p, NEW id, NEW max, NEW ttl, NEW now,
         NEW ls2, ls2 = apply_acquire(ls, p, id, max, ttl, now),
         NEW q \in DOMAIN ls2, NEW h \in ls2[q].holders
  PROVE  \/ /\ q \in DOMAIN ls
            /\ ls2[q].max_holders = ls[q].max_holders
            /\ \E g \in ls[q].holders : g.lock_id = h.lock_id
         \/ /\ q = p
            /\ h.lock_id = id
            /\ ls2[q].max_holders = max
<1> DEFINE kept == Unexpired(ls, p, now)
<1> DEFINE mine == [lock_id |-> id, expires_at |-> now + ttl]
<1> DEFINE rows == IF Acquired(ls, p, id, max, now)
                   THEN {g \in kept : g.lock_id # id} \cup {mine}
                   ELSE kept
<1> DEFINE e == [max_holders |-> SeededMax(ls, p, max, now), holders |-> rows]
<1>1. CASE HierarchyConflict(ls, p)
  <2>1. ls2 = ls
    BY <1>1 DEF apply_acquire
  <2> QED
    BY <2>1
<1>2. CASE ~HierarchyConflict(ls, p)
  <2>1. ls2 = Put(ls, p, e)
    BY <1>2 DEF apply_acquire
  <2>2. CASE q # p
    BY <2>1, <2>2 DEF Put
  <2>3. CASE q = p
    <3>1. ls2[q] = e
      BY <2>1, <2>3 DEF Put
    <3>2. h \in rows /\ ls2[q].max_holders = SeededMax(ls, p, max, now)
      BY <3>1
    <3>3. ASSUME NEW g \in kept
          PROVE  p \in DOMAIN ls /\ g \in ls[p].holders
      BY DEF Unexpired, HoldersAt
    <3>4. ASSUME NEW g \in kept
          PROVE  SeededMax(ls, p, max, now) = ls[p].max_holders
      BY DEF SeededMax
    <3>5. CASE h \in kept
      BY <3>2, <3>3, <3>4, <3>5, <2>3
    <3>6. CASE h \notin kept
      <4>1. Acquired(ls, p, id, max, now) /\ h.lock_id = id
        BY <3>2, <3>6
      <4>2. CASE Reacquires(ls, p, id, now)
        BY <4>1, <4>2, <3>2, <3>3, <3>4, <2>3 DEF Reacquires
      <4>3. CASE AcceptsNewHolder(ls, p, max, now)
        BY <4>1, <4>3, <3>2, <2>3 DEF AcceptsNewHolder
      <4> QED
        BY <4>1, <4>2, <4>3 DEF Acquired
    <3> QED
      BY <3>5, <3>6
  <2> QED
    BY <2>2, <2>3
<1> QED
  BY <1>1, <1>2

\* Every row after apply_extend renews or keeps an old one.
LEMMA ExtendRows ==
  ASSUME NEW ls, NEW p, NEW id, NEW ttl, NEW now
  PROVE  OldRows(ls, apply_extend(ls, p, id, ttl, now))
<1> DEFINE kept == Unexpired(ls, p, now)
<1> DEFINE mine == [lock_id |-> id, expires_at |-> now + ttl]
<1> DEFINE ls2 == apply_extend(ls, p, id, ttl, now)
<1>1. \A g \in kept : p \in DOMAIN ls /\ g \in ls[p].holders
  BY DEF Unexpired, HoldersAt
<1>2. CASE p \notin DOMAIN ls
  <2>1. ls2 = ls
    BY <1>2 DEF apply_extend
  <2> QED
    BY <2>1 DEF OldRows
<1>3. CASE p \in DOMAIN ls /\ Extended(ls, p, id, now)
  <2>1. ls2 = Put(ls, p, [ls[p] EXCEPT
                    !.holders = {h \in kept : h.lock_id # id} \cup {mine}])
    BY <1>3 DEF apply_extend
  <2> HIDE DEF ls2, kept
  <2>2. \E g \in ls[p].holders : g.lock_id = id
    BY <1>1, <1>3 DEF Extended, Reacquires, kept
  <2> QED
    BY <2>1, <2>2, <1>1, <1>3 DEF OldRows, Put, ls2
<1>4. CASE p \in DOMAIN ls /\ ~Extended(ls, p, id, now) /\ kept = {}
  <2>1. ls2 = Drop(ls, p)
    BY <1>4 DEF apply_extend
  <2> QED
    BY <2>1 DEF OldRows, Drop
<1>5. CASE p \in DOMAIN ls /\ ~Extended(ls, p, id, now) /\ kept # {}
  <2>1. ls2 = Put(ls, p, [ls[p] EXCEPT !.holders = kept])
    BY <1>5 DEF apply_extend
  <2> HIDE DEF ls2, kept
  <2> QED
    BY <2>1, <1>1, <1>5 DEF OldRows, Put, ls2
<1> QED
  BY <1>2, <1>3, <1>4, <1>5

\* Every row after a release, forced or not, is an old one.
LEMMA ReleaseRows ==
  ASSUME NEW ls, NEW p, NEW id
  PROVE  OldRows(ls, apply_release(ls, p, id)) /\ OldRows(ls, Drop(ls, p))
  BY DEF OldRows, apply_release, Put, Drop, HoldersAt

(***************************************************************************)
(* Commands                                                                *)
(***************************************************************************)

\* The fields of an outstanding command have their types.
LEMMA CommandFields ==
  ASSUME NEW c \in Command
  PROVE  /\ c.path \in Paths
         /\ c.op \in {"acquire", "extend", "release", "force"}
         /\ c.op # "force" => c.id \in LockIds
         /\ c.op \in {"acquire", "extend"} => c.ttl \in Nat /\ c.now \in Nat
         /\ c.op = "acquire" => c.max \in Nat
  BY ServiceAssumption
     DEF Command, AcquireCmd, ExtendCmd, ReleaseCmd, ForceCmd

\* A lease that is running has its row in the table, unexpired at the stamp
\* of every command still to be applied.
LEMMA RunningRowUnexpired ==
  ASSUME IndInv, NEW c \in outstanding, c.op \in {"acquire", "extend"},
         NEW id \in LockIds, Running(id)
  PROVE  /\ session[id].path \in Paths
         /\ \E h \in HoldersAt(locks, session[id].path) :
              /\ h.lock_id = id
              /\ h.expires_at \in Nat
              /\ h.expires_at >= session[id].until
              /\ h.expires_at > c.now
<1>1. session[id].path \in Paths /\ session[id].until \in Nat
  BY DEF IndInv, TypeOK, Session
<1>2. PICK h \in HoldersAt(locks, session[id].path) :
         h.lock_id = id /\ h.expires_at >= session[id].until
  BY DEF IndInv, LeaseHonoured
<1>3. h.expires_at \in Nat
  BY <1>1, HoldersType DEF IndInv, TypeOK, CapacityRespected, Holder
<1>4. PICK n \in Nodes : c.now <= clock[n]
  BY DEF IndInv, StampsPast
<1>5. clock[n] < session[id].until /\ clock[n] \in Nat
  BY <1>4 DEF Running, IndInv, TypeOK
<1>6. c.now \in Nat
  BY CommandFields DEF IndInv, TypeOK
<1> QED
  BY <1>1, <1>2, <1>3, <1>4, <1>5, <1>6

\* What an applied command leaves alone.
LEMMA TableOfIndInv ==
  ASSUME IndInv
  PROVE  TableOK(locks)
  BY DEF IndInv, TypeOK, CapacityRespected, SubtreeExclusion, TableOK

(***************************************************************************)
(* Initial states                                                          *)
(***************************************************************************)

\* The empty table with no command in flight satisfies the invariant.
LEMMA InitInv == Init => IndInv
<1> SUFFICES ASSUME Init PROVE IndInv
  OBVIOUS
<1>1. DOMAIN locks = {} /\ locks = [p \in {} |-> [max_holders |-> 0, holders |-> {}]]
  BY DEF Init, EmptyLockState
<1>2. TypeOK
  <2>1. IsLockState(locks)
    BY <1>1 DEF IsLockState
  <2>2. session \in [LockIds -> Session]
    BY PathTreeAssumption DEF Init, Session
  <2>3. clock \in [Nodes -> Nat] /\ outstanding \in SUBSET Command
    BY DEF Init
  <2> QED
    BY <2>1, <2>2, <2>3 DEF TypeOK
<1>3. CapacityRespected /\ RowsMatchSessions
  BY <1>1 DEF CapacityRespected, WithinCapacity, RowsMatchSessions
<1>4. SubtreeExclusion
  BY <1>1 DEF SubtreeExclusion, SubtreesDisjoint, HoldersAt
<1>5. StampsPast /\ CommandsMatchSessions
  BY DEF Init, StampsPast, CommandsMatchSessions
<1>6. LeaseHonoured
  BY DEF Init, LeaseHonoured, Running
<1> QED
  BY <1>2, <1>3, <1>4, <1>5, <1>6 DEF IndInv

(***************************************************************************)
(* Applying a command                                                      *)
(***************************************************************************)

\* The invariant after an applied command, from what the command did to the
\* table and to the sessions.
LEMMA AppliedInv ==
  ASSUME IndInv, NEW c \in outstanding,
         outstanding' = outstanding \ {c}, clock' = clock,
         TableOK(locks'),
         session' \in [LockIds -> Session],
         \A id \in LockIds :
           /\ session'[id].path = session[id].path
           /\ session'[id].max = session[id].max
           /\ session[id].st # "fresh" => session'[id].st # "fresh"
           /\ session[id].st = "ended" => session'[id].st = "ended",
         \A q \in DOMAIN locks' : \A h \in locks'[q].holders :
           \/ /\ q \in DOMAIN locks
              /\ locks'[q].max_holders = locks[q].max_holders
              /\ \E g \in locks[q].holders : g.lock_id = h.lock_id
           \/ /\ c.op = "acquire"
              /\ q = c.path
              /\ h.lock_id = c.id
              /\ locks'[q].max_holders = c.max,
         LeaseHonoured'
  PROVE  IndInv'
<1>1. TypeOK' /\ CapacityRespected' /\ SubtreeExclusion'
  BY DEF IndInv, TypeOK, TableOK, CapacityRespected, SubtreeExclusion
<1>2. \A d \in outstanding : d.op # "force" => d.id \in LockIds
  BY CommandFields DEF IndInv, TypeOK
<1>3. StampsPast'
  BY DEF IndInv, StampsPast
<1>4. CommandsMatchSessions'
  BY <1>2 DEF IndInv, CommandsMatchSessions
<1>5. RowsMatchSessions'
  <2> SUFFICES ASSUME NEW q \in DOMAIN locks', NEW h \in locks'[q].holders
               PROVE  /\ session'[h.lock_id].st # "fresh"
                      /\ session'[h.lock_id].path = q
                      /\ session'[h.lock_id].max = locks'[q].max_holders
    BY DEF RowsMatchSessions
  <2>1. h.lock_id \in LockIds
    BY DEF TableOK, IsLockState, LockEntry, Holder
  <2>2. CASE /\ q \in DOMAIN locks
             /\ locks'[q].max_holders = locks[q].max_holders
             /\ \E g \in locks[q].holders : g.lock_id = h.lock_id
    BY <2>1, <2>2 DEF IndInv, RowsMatchSessions
  <2>3. CASE /\ c.op = "acquire"
             /\ q = c.path
             /\ h.lock_id = c.id
             /\ locks'[q].max_holders = c.max
    BY <2>1, <2>3 DEF IndInv, CommandsMatchSessions
  <2> QED
    BY <2>2, <2>3
<1> QED
  BY <1>1, <1>3, <1>4, <1>5 DEF IndInv

\* The two ways an acquire or an extend reaches its caller, and what they
\* leave of the sessions.
LEMMA AnsweredSessions ==
  ASSUME IndInv, NEW c \in outstanding, c.op \in {"acquire", "extend"},
         NEW granted \in BOOLEAN, Answer(c, granted) \/ NoAnswer(c)
  PROVE  /\ session' \in [LockIds -> Session]
         /\ \A id \in LockIds :
              /\ session'[id].path = session[id].path
              /\ session'[id].max = session[id].max
              /\ session[id].st # "fresh" => session'[id].st # "fresh"
              /\ session[id].st = "ended" => session'[id].st = "ended"
              /\ id # c.id => session'[id] = session[id]
         /\ session'[c.id].st = "held" =>
              /\ session'[c.id].until <= c.now + c.ttl
              /\ granted \/ (/\ session[c.id].st = "held"
                             /\ session'[c.id].until <= session[c.id].until)
<1>1. /\ c.id \in LockIds /\ c.now \in Nat /\ c.ttl \in Nat /\ c.now + c.ttl \in Nat
  BY CommandFields DEF IndInv, TypeOK
<1>2. session \in [LockIds -> Session]
  BY DEF IndInv, TypeOK
<1>3. session[c.id] \in Session /\ session[c.id].until \in Nat
  BY <1>1, <1>2 DEF Session
<1>4. CASE Answer(c, granted)
  <2>1. session' = [session EXCEPT ![c.id] =
           [session[c.id] EXCEPT !.st    = IF granted THEN "held" ELSE "ended",
                                 !.until = c.now + c.ttl]]
    BY <1>1, <1>2, <1>3, <1>4 DEF Answer
  <2>2. session[c.id].st \in {"acquiring", "held"}
    BY <1>4 DEF Answer
  <2>3. CASE granted
    <3>1. session' = [session EXCEPT ![c.id] =
             [session[c.id] EXCEPT !.st = "held", !.until = c.now + c.ttl]]
      BY <2>1, <2>3
    <3>2. /\ session' \in [LockIds -> Session]
          /\ \A id \in LockIds :
               /\ session'[id].path = session[id].path
               /\ session'[id].max = session[id].max
               /\ session[id].st # "fresh" => session'[id].st # "fresh"
               /\ session[id].st = "ended" => session'[id].st = "ended"
               /\ id # c.id => session'[id] = session[id]
      BY <1>1, <1>2, <1>3, <2>2, <3>1 DEF Session
    <3>3. session'[c.id].until = c.now + c.ttl
      BY <1>1, <1>2, <1>3, <3>1 DEF Session
    <3>4. session'[c.id].until <= c.now + c.ttl
      BY <1>1, <3>3
    <3> QED
      BY <3>2, <3>4, <2>3
  <2>4. CASE ~granted
    <3>1. session' = [session EXCEPT ![c.id] =
             [session[c.id] EXCEPT !.st = "ended", !.until = c.now + c.ttl]]
      BY <2>1, <2>4
    <3> QED
      BY <1>1, <1>2, <1>3, <2>2, <3>1 DEF Session
  <2> QED
    BY <2>3, <2>4
<1>5. CASE NoAnswer(c)
  <2>1. Least(session[c.id].until, c.now + c.ttl) \in Nat
    BY <1>1, <1>3 DEF Least
  <2>2. session' = [session EXCEPT ![c.id] =
           [session[c.id] EXCEPT !.until = Least(session[c.id].until, c.now + c.ttl)]]
    BY <1>5 DEF NoAnswer
  <2>3. /\ Least(session[c.id].until, c.now + c.ttl) <= session[c.id].until
        /\ Least(session[c.id].until, c.now + c.ttl) <= c.now + c.ttl
    BY <1>1, <1>3 DEF Least
  <2> QED
    BY <1>1, <1>2, <1>3, <2>1, <2>2, <2>3 DEF Session
<1> QED
  BY <1>4, <1>5

\* The lease promise survives an acquire or an extend: rows of other ids
\* that run are unexpired at the stamp and kept, and the caller's own row is
\* the one just written, or the one it had.
LEMMA LeaseAfterStampedCommand ==
  ASSUME IndInv, NEW c \in outstanding, c.op \in {"acquire", "extend"},
         clock' = clock, session' \in [LockIds -> Session],
         NEW granted \in BOOLEAN,
         \A id \in LockIds :
           /\ session'[id].path = session[id].path
           /\ id # c.id => session'[id] = session[id],
         session'[c.id].st = "held" =>
           /\ session'[c.id].until <= c.now + c.ttl
           /\ granted \/ (/\ session[c.id].st = "held"
                          /\ session'[c.id].until <= session[c.id].until),
         \A q \in Paths : \A h \in HoldersAt(locks, q) :
           (q # c.path \/ (h.lock_id # c.id /\ h.expires_at > c.now)) =>
             Keeps(locks, locks', q, h),
         granted => [lock_id |-> c.id, expires_at |-> c.now + c.ttl]
                      \in HoldersAt(locks', c.path),
         (~granted /\ \E h \in HoldersAt(locks, c.path) :
                        h.lock_id = c.id /\ h.expires_at > c.now) => locks' = locks
  PROVE  LeaseHonoured'
<1> SUFFICES ASSUME NEW id \in LockIds, Running(id)'
             PROVE  \E h \in HoldersAt(locks', session'[id].path) :
                      h.lock_id = id /\ h.expires_at >= session'[id].until
  BY DEF LeaseHonoured
<1>1. /\ c.id \in LockIds /\ c.now \in Nat /\ c.ttl \in Nat /\ c.path \in Paths
      /\ session[c.id].path = c.path
  BY CommandFields DEF IndInv, TypeOK, CommandsMatchSessions
<1>2. session'[id].until \in Nat /\ session[id].until \in Nat /\ clock \in [Nodes -> Nat]
  BY DEF IndInv, TypeOK, Session
<1>3. CASE id # c.id
  <2>1. session'[id] = session[id] /\ Running(id)
    BY <1>3 DEF Running
  <2>2. PICK h \in HoldersAt(locks, session[id].path) :
           /\ session[id].path \in Paths
           /\ h.lock_id = id
           /\ h.expires_at >= session[id].until
           /\ h.expires_at > c.now
    BY <2>1, RunningRowUnexpired
  <2>3. Keeps(locks, locks', session[id].path, h)
    BY <2>2, <1>3
  <2> QED
    BY <2>1, <2>2, <2>3 DEF Keeps
<1>4. CASE id = c.id /\ granted
  <2> DEFINE mine == [lock_id |-> c.id, expires_at |-> c.now + c.ttl]
  <2>1. mine \in HoldersAt(locks', session'[id].path)
    BY <1>1, <1>4
  <2>2. mine.lock_id = id /\ mine.expires_at >= session'[id].until
    BY <1>1, <1>2, <1>4 DEF Running
  <2> QED
    BY <2>1, <2>2
<1>5. CASE id = c.id /\ ~granted
  <2>1. session[id].st = "held" /\ session'[id].until <= session[id].until
    BY <1>5 DEF Running
  <2>2. Running(id)
    BY <2>1, <1>2 DEF Running
  <2>3. PICK h \in HoldersAt(locks, session[id].path) :
           /\ h.lock_id = id
           /\ h.expires_at \in Nat
           /\ h.expires_at >= session[id].until
           /\ h.expires_at > c.now
    BY <2>2, RunningRowUnexpired
  <2>4. locks' = locks
    BY <2>3, <1>1, <1>5
  <2> QED
    BY <2>1, <2>3, <2>4, <1>2, <1>5, <1>1
<1> QED
  BY <1>3, <1>4, <1>5

\* Applying an acquire keeps the invariant, granted or not, answered or not.
LEMMA ApplyAcquireInv ==
  ASSUME IndInv, NEW c \in outstanding, ApplyAcquire(c),
         outstanding' = outstanding \ {c}, clock' = clock
  PROVE  IndInv'
<1> DEFINE granted == Acquired(locks, c.path, c.id, c.max, c.now)
<1>1. /\ c.op = "acquire" /\ c.path \in Paths /\ c.id \in LockIds
      /\ c.max \in Nat /\ c.ttl \in Nat /\ c.now \in Nat
  BY CommandFields DEF IndInv, TypeOK, ApplyAcquire
<1>2. locks' = apply_acquire(locks, c.path, c.id, c.max, c.ttl, c.now)
  BY DEF ApplyAcquire
<1>3. granted \in BOOLEAN
  BY DEF Acquired, HierarchyConflict, AncestorConflict, DescendantConflict,
         Reacquires, AcceptsNewHolder
<1>4. Answer(c, granted) \/ NoAnswer(c)
  BY DEF ApplyAcquire
<1>5. TableOK(locks)
  BY TableOfIndInv
<1>6. /\ TableOK(locks')
      /\ \A q \in Paths : \A h \in HoldersAt(locks, q) :
           (q # c.path \/ (h.lock_id # c.id /\ h.expires_at > c.now)) =>
             Keeps(locks, locks', q, h)
      /\ granted => [lock_id |-> c.id, expires_at |-> c.now + c.ttl]
                       \in HoldersAt(locks', c.path)
  BY <1>1, <1>2, <1>5, AcquireTable
<1>7. (~granted /\ \E h \in HoldersAt(locks, c.path) :
                      h.lock_id = c.id /\ h.expires_at > c.now) => locks' = locks
  BY <1>2 DEF apply_acquire, Acquired, Reacquires, Unexpired
<1>8. \A q \in DOMAIN locks' : \A h \in locks'[q].holders :
        \/ /\ q \in DOMAIN locks
           /\ locks'[q].max_holders = locks[q].max_holders
           /\ \E g \in locks[q].holders : g.lock_id = h.lock_id
        \/ /\ q = c.path
           /\ h.lock_id = c.id
           /\ locks'[q].max_holders = c.max
  BY <1>2, AcquireRows
<1> HIDE DEF granted
<1>9. /\ session' \in [LockIds -> Session]
      /\ \A id \in LockIds :
           /\ session'[id].path = session[id].path
           /\ session'[id].max = session[id].max
           /\ session[id].st # "fresh" => session'[id].st # "fresh"
           /\ session[id].st = "ended" => session'[id].st = "ended"
           /\ id # c.id => session'[id] = session[id]
      /\ session'[c.id].st = "held" =>
           /\ session'[c.id].until <= c.now + c.ttl
           /\ granted \/ (/\ session[c.id].st = "held"
                          /\ session'[c.id].until <= session[c.id].until)
  BY <1>1, <1>3, <1>4, AnsweredSessions
<1>10. LeaseHonoured'
  BY <1>1, <1>3, <1>6, <1>7, <1>9, LeaseAfterStampedCommand
<1> QED
  BY <1>1, <1>6, <1>8, <1>9, <1>10, AppliedInv

\* Applying a renewal keeps the invariant.
LEMMA ApplyExtendInv ==
  ASSUME IndInv, NEW c \in outstanding, ApplyExtend(c),
         outstanding' = outstanding \ {c}, clock' = clock
  PROVE  IndInv'
<1> DEFINE granted == Extended(locks, c.path, c.id, c.now)
<1>1. /\ c.op = "extend" /\ c.path \in Paths /\ c.id \in LockIds
      /\ c.ttl \in Nat /\ c.now \in Nat
  BY CommandFields DEF IndInv, TypeOK, ApplyExtend
<1>2. locks' = apply_extend(locks, c.path, c.id, c.ttl, c.now)
  BY DEF ApplyExtend
<1>3. granted \in BOOLEAN
  BY DEF Extended, Reacquires
<1>4. Answer(c, granted) \/ NoAnswer(c)
  BY DEF ApplyExtend
<1>5. TableOK(locks)
  BY TableOfIndInv
<1>6. /\ TableOK(locks')
      /\ \A q \in Paths : \A h \in HoldersAt(locks, q) :
           (q # c.path \/ (h.lock_id # c.id /\ h.expires_at > c.now)) =>
             Keeps(locks, locks', q, h)
      /\ granted => [lock_id |-> c.id, expires_at |-> c.now + c.ttl]
                       \in HoldersAt(locks', c.path)
  BY <1>1, <1>2, <1>5, ExtendTable
<1>7. (~granted /\ \E h \in HoldersAt(locks, c.path) :
                      h.lock_id = c.id /\ h.expires_at > c.now) => locks' = locks
  BY DEF Extended, Reacquires, Unexpired
<1>8. OldRows(locks, locks')
  BY <1>2, ExtendRows
<1> HIDE DEF granted
<1>9. /\ session' \in [LockIds -> Session]
      /\ \A id \in LockIds :
           /\ session'[id].path = session[id].path
           /\ session'[id].max = session[id].max
           /\ session[id].st # "fresh" => session'[id].st # "fresh"
           /\ session[id].st = "ended" => session'[id].st = "ended"
           /\ id # c.id => session'[id] = session[id]
      /\ session'[c.id].st = "held" =>
           /\ session'[c.id].until <= c.now + c.ttl
           /\ granted \/ (/\ session[c.id].st = "held"
                          /\ session'[c.id].until <= session[c.id].until)
  BY <1>1, <1>3, <1>4, AnsweredSessions
<1>10. LeaseHonoured'
  BY <1>1, <1>3, <1>6, <1>7, <1>9, LeaseAfterStampedCommand
<1> QED
  BY <1>6, <1>8, <1>9, <1>10, AppliedInv DEF OldRows

\* Applying a release keeps the invariant: its owner has stopped using the lease.
LEMMA ApplyReleaseInv ==
  ASSUME IndInv, NEW c \in outstanding, ApplyRelease(c),
         outstanding' = outstanding \ {c}, clock' = clock
  PROVE  IndInv'
<1>1. c.op = "release" /\ c.path \in Paths /\ c.id \in LockIds
  BY CommandFields DEF IndInv, TypeOK, ApplyRelease
<1>2. locks' = apply_release(locks, c.path, c.id) /\ session' = session
  BY DEF ApplyRelease
<1>3. TableOK(locks)
  BY TableOfIndInv
<1>4. /\ TableOK(locks')
      /\ \A q \in Paths : \A h \in HoldersAt(locks, q) :
           (q # c.path \/ h.lock_id # c.id) => Keeps(locks, locks', q, h)
  BY <1>1, <1>2, <1>3, ReleaseTable
<1>5. OldRows(locks, locks')
  BY <1>2, ReleaseRows
<1>6. LeaseHonoured'
  <2> SUFFICES ASSUME NEW id \in LockIds, Running(id)
               PROVE  \E h \in HoldersAt(locks', session[id].path) :
                        h.lock_id = id /\ h.expires_at >= session[id].until
    BY <1>2 DEF LeaseHonoured, Running
  <2>1. PICK h \in HoldersAt(locks, session[id].path) :
           h.lock_id = id /\ h.expires_at >= session[id].until
    BY DEF IndInv, LeaseHonoured
  <2>2. id # c.id
    BY <1>1 DEF Running, IndInv, CommandsMatchSessions
  <2>3. session[id].path \in Paths
    BY DEF IndInv, TypeOK, Session
  <2> QED
    BY <1>4, <2>1, <2>2, <2>3 DEF Keeps
<1>7. session' \in [LockIds -> Session]
  BY <1>2 DEF IndInv, TypeOK
<1> QED
  BY <1>2, <1>4, <1>5, <1>6, <1>7, AppliedInv DEF OldRows

\* Applying a forced release keeps the invariant: the owners lose their sessions.
LEMMA ApplyForceInv ==
  ASSUME IndInv, NEW c \in outstanding, ApplyForce(c),
         outstanding' = outstanding \ {c}, clock' = clock
  PROVE  IndInv'
<1>1. c.op = "force" /\ c.path \in Paths
  BY CommandFields DEF IndInv, TypeOK, ApplyForce
<1>2. locks' = Drop(locks, c.path)
  BY DEF ApplyForce, apply_force_release
<1>3. session' = [id \in LockIds |->
        IF session[id].st = "held" /\ session[id].path = c.path
        THEN [session[id] EXCEPT !.st = "ended"] ELSE session[id]]
  BY DEF ApplyForce
<1>4. session \in [LockIds -> Session]
  BY DEF IndInv, TypeOK
<1>5. /\ session' \in [LockIds -> Session]
      /\ \A id \in LockIds :
           /\ session'[id].path = session[id].path
           /\ session'[id].max = session[id].max
           /\ session[id].st # "fresh" => session'[id].st # "fresh"
           /\ session[id].st = "ended" => session'[id].st = "ended"
           /\ session'[id].st = "held" =>
                session'[id] = session[id] /\ session[id].path # c.path
  BY <1>3, <1>4 DEF Session
<1>6. TableOK(locks)
  BY TableOfIndInv
<1>7. /\ TableOK(locks')
      /\ \A q \in Paths : \A h \in HoldersAt(locks, q) :
           q # c.path => Keeps(locks, locks', q, h)
  BY <1>1, <1>2, <1>6, DropTable
<1>8. OldRows(locks, locks')
  BY <1>2, ReleaseRows
<1>9. LeaseHonoured'
  <2> SUFFICES ASSUME NEW id \in LockIds, Running(id)'
               PROVE  \E h \in HoldersAt(locks', session'[id].path) :
                        h.lock_id = id /\ h.expires_at >= session'[id].until
    BY DEF LeaseHonoured
  <2>1. session'[id] = session[id] /\ session[id].path # c.path /\ Running(id)
    BY <1>5 DEF Running
  <2>2. PICK h \in HoldersAt(locks, session[id].path) :
           h.lock_id = id /\ h.expires_at >= session[id].until
    BY <2>1 DEF IndInv, LeaseHonoured
  <2>3. session[id].path \in Paths
    BY <1>4 DEF Session
  <2> QED
    BY <1>7, <2>1, <2>2, <2>3 DEF Keeps
<1> QED
  BY <1>5, <1>7, <1>8, <1>9, AppliedInv DEF OldRows

(***************************************************************************)
(* Callers                                                                 *)
(***************************************************************************)

\* A step of a caller that leaves the table and the clocks alone.
LEMMA CallerInv ==
  ASSUME IndInv, locks' = locks, clock' = clock,
         session' \in [LockIds -> Session],
         outstanding' \in SUBSET Command,
         \A id \in LockIds :
           /\ session[id].st # "fresh" =>
                /\ session'[id].path = session[id].path
                /\ session'[id].max = session[id].max
                /\ session'[id].st # "fresh"
           /\ session[id].st = "ended" => session'[id].st = "ended"
           /\ session'[id].st = "held" => session'[id] = session[id],
         \A c \in outstanding' \ outstanding :
           /\ c.op \in {"acquire", "extend"} => \E n \in Nodes : c.now <= clock[n]
           /\ c.op # "force" =>
                session'[c.id].path = c.path /\ session'[c.id].st # "fresh"
           /\ c.op = "acquire" => session'[c.id].max = c.max
           /\ c.op = "release" => session'[c.id].st = "ended"
  PROVE  IndInv'
<1>1. TypeOK' /\ CapacityRespected' /\ SubtreeExclusion'
  BY DEF IndInv, TypeOK, CapacityRespected, SubtreeExclusion
<1>2. \A c \in outstanding : c.op # "force" => c.id \in LockIds
  BY CommandFields DEF IndInv, TypeOK
<1>3. StampsPast'
  BY DEF IndInv, StampsPast
<1>4. CommandsMatchSessions'
  BY <1>2 DEF IndInv, CommandsMatchSessions
<1>5. RowsMatchSessions'
  <2>1. \A p \in DOMAIN locks : \A h \in locks[p].holders : h.lock_id \in LockIds
    BY DEF IndInv, TypeOK, IsLockState, LockEntry, Holder
  <2> QED
    BY <2>1 DEF IndInv, RowsMatchSessions
<1>6. LeaseHonoured'
  BY DEF IndInv, LeaseHonoured, Running
<1> QED
  BY <1>1, <1>3, <1>4, <1>5, <1>6 DEF IndInv

\* Proposing an acquire keeps the invariant.
LEMMA AcquireInv ==
  ASSUME IndInv, NEW n \in Nodes, NEW id \in LockIds, NEW p \in Paths,
         NEW max \in Capacities, NEW ttl \in Ttls, Acquire(n, id, p, max, ttl)
  PROVE  IndInv'
<1> DEFINE c == [op |-> "acquire", path |-> p, id |-> id,
                 max |-> max, ttl |-> ttl, now |-> clock[n]]
<1>1. /\ clock[n] \in Nat /\ session \in [LockIds -> Session]
      /\ outstanding \in SUBSET Command
  BY DEF IndInv, TypeOK
<1>2. /\ session' = [session EXCEPT ![id] =
            [st |-> "acquiring", path |-> p, max |-> max, until |-> 0]]
      /\ outstanding' = outstanding \cup {c}
      /\ locks' = locks /\ clock' = clock /\ session[id].st = "fresh"
  BY DEF Acquire, Propose
<1>3. c \in Command
  BY <1>1, ServiceAssumption DEF Command, AcquireCmd
<1>4. session' \in [LockIds -> Session]
  BY <1>1, <1>2, ServiceAssumption DEF Session
<1>5. outstanding' \in SUBSET Command
  BY <1>1, <1>2, <1>3
<1>6. \A i \in LockIds :
        /\ session[i].st # "fresh" =>
             /\ session'[i].path = session[i].path
             /\ session'[i].max = session[i].max
             /\ session'[i].st # "fresh"
        /\ session[i].st = "ended" => session'[i].st = "ended"
        /\ session'[i].st = "held" => session'[i] = session[i]
  BY <1>1, <1>2
<1>7. \A d \in outstanding' \ outstanding :
        /\ d.op \in {"acquire", "extend"} => \E m \in Nodes : d.now <= clock[m]
        /\ d.op # "force" =>
             session'[d.id].path = d.path /\ session'[d.id].st # "fresh"
        /\ d.op = "acquire" => session'[d.id].max = d.max
        /\ d.op = "release" => session'[d.id].st = "ended"
  BY <1>1, <1>2
<1> QED
  BY <1>2, <1>4, <1>5, <1>6, <1>7, CallerInv

\* Proposing an acquire again keeps the invariant.
LEMMA RetryAcquireInv ==
  ASSUME IndInv, NEW n \in Nodes, NEW id \in LockIds, NEW ttl \in Ttls,
         RetryAcquire(n, id, ttl)
  PROVE  IndInv'
<1> DEFINE c == [op |-> "acquire", path |-> session[id].path, id |-> id,
                 max |-> session[id].max, ttl |-> ttl, now |-> clock[n]]
<1>1. /\ clock[n] \in Nat /\ session \in [LockIds -> Session]
      /\ outstanding \in SUBSET Command
  BY DEF IndInv, TypeOK
<1>2. /\ session' = session /\ session[id].st = "acquiring"
      /\ outstanding' = outstanding \cup {c}
      /\ locks' = locks /\ clock' = clock
  BY DEF RetryAcquire, Propose
<1>3. c \in Command
  <2>1. session[id].path \in Paths /\ session[id].max \in Nat
    BY <1>1 DEF Session
  <2> QED
    BY <1>1, <2>1 DEF Command, AcquireCmd
<1>4. outstanding' \in SUBSET Command
  BY <1>1, <1>2, <1>3
<1>5. \A d \in outstanding' \ outstanding :
        /\ d.op \in {"acquire", "extend"} => \E m \in Nodes : d.now <= clock[m]
        /\ d.op # "force" =>
             session'[d.id].path = d.path /\ session'[d.id].st # "fresh"
        /\ d.op = "acquire" => session'[d.id].max = d.max
        /\ d.op = "release" => session'[d.id].st = "ended"
  BY <1>1, <1>2
<1> QED
  BY <1>1, <1>2, <1>4, <1>5, CallerInv

\* Proposing a renewal keeps the invariant.
LEMMA ExtendInv ==
  ASSUME IndInv, NEW n \in Nodes, NEW id \in LockIds, NEW ttl \in Ttls,
         Extend(n, id, ttl)
  PROVE  IndInv'
<1> DEFINE c == [op |-> "extend", path |-> session[id].path, id |-> id,
                 ttl |-> ttl, now |-> clock[n]]
<1>1. /\ clock[n] \in Nat /\ session \in [LockIds -> Session]
      /\ outstanding \in SUBSET Command
  BY DEF IndInv, TypeOK
<1>2. /\ session' = session /\ session[id].st = "held"
      /\ outstanding' = outstanding \cup {c}
      /\ locks' = locks /\ clock' = clock
  BY DEF Extend, Propose
<1>3. c \in Command
  <2>1. session[id].path \in Paths
    BY <1>1 DEF Session
  <2> QED
    BY <1>1, <2>1 DEF Command, ExtendCmd
<1>4. outstanding' \in SUBSET Command
  BY <1>1, <1>2, <1>3
<1>5. \A d \in outstanding' \ outstanding :
        /\ d.op \in {"acquire", "extend"} => \E m \in Nodes : d.now <= clock[m]
        /\ d.op # "force" =>
             session'[d.id].path = d.path /\ session'[d.id].st # "fresh"
        /\ d.op = "acquire" => session'[d.id].max = d.max
        /\ d.op = "release" => session'[d.id].st = "ended"
  BY <1>1, <1>2
<1> QED
  BY <1>1, <1>2, <1>4, <1>5, CallerInv

\* Proposing a release keeps the invariant.
LEMMA ReleaseInv ==
  ASSUME IndInv, NEW id \in LockIds, Release(id)
  PROVE  IndInv'
<1> DEFINE c == [op |-> "release", path |-> session[id].path, id |-> id]
<1>1. session \in [LockIds -> Session] /\ outstanding \in SUBSET Command
  BY DEF IndInv, TypeOK
<1>2. /\ session' = [session EXCEPT ![id] = [session[id] EXCEPT !.st = "ended"]]
      /\ session[id].st = "held"
      /\ outstanding' = outstanding \cup {c}
      /\ locks' = locks /\ clock' = clock
  BY DEF Release, Propose
<1>3. c \in Command
  <2>1. session[id].path \in Paths
    BY <1>1 DEF Session
  <2> QED
    BY <2>1 DEF Command, ReleaseCmd
<1>4. outstanding' \in SUBSET Command
  BY <1>1, <1>2, <1>3
<1>5. session' \in [LockIds -> Session]
  BY <1>1, <1>2 DEF Session
<1>6. \A i \in LockIds :
        /\ session[i].st # "fresh" =>
             /\ session'[i].path = session[i].path
             /\ session'[i].max = session[i].max
             /\ session'[i].st # "fresh"
        /\ session[i].st = "ended" => session'[i].st = "ended"
        /\ session'[i].st = "held" => session'[i] = session[i]
  BY <1>1, <1>2 DEF Session
<1>7. \A d \in outstanding' \ outstanding :
        /\ d.op \in {"acquire", "extend"} => \E m \in Nodes : d.now <= clock[m]
        /\ d.op # "force" =>
             session'[d.id].path = d.path /\ session'[d.id].st # "fresh"
        /\ d.op = "acquire" => session'[d.id].max = d.max
        /\ d.op = "release" => session'[d.id].st = "ended"
  BY <1>1, <1>2 DEF Session
<1> QED
  BY <1>2, <1>4, <1>5, <1>6, <1>7, CallerInv

\* Proposing a forced release keeps the invariant.
LEMMA ForceReleaseInv ==
  ASSUME IndInv, NEW p \in Paths, ForceRelease(p)
  PROVE  IndInv'
<1> DEFINE c == [op |-> "force", path |-> p]
<1>1. session \in [LockIds -> Session] /\ outstanding \in SUBSET Command
  BY DEF IndInv, TypeOK
<1>2. /\ outstanding' = outstanding \cup {c}
      /\ session' = session /\ locks' = locks /\ clock' = clock
  BY DEF ForceRelease, Propose
<1>3. c \in Command
  BY DEF Command, ForceCmd
<1>4. outstanding' \in SUBSET Command
  BY <1>1, <1>2, <1>3
<1>5. \A d \in outstanding' \ outstanding : d.op = "force"
  BY <1>2
<1> QED
  BY <1>1, <1>2, <1>4, <1>5, CallerInv

\* A caller that gives up keeps the invariant.
LEMMA GiveUpInv ==
  ASSUME IndInv, NEW id \in LockIds, GiveUp(id)
  PROVE  IndInv'
<1>1. session \in [LockIds -> Session] /\ outstanding \in SUBSET Command
  BY DEF IndInv, TypeOK
<1>2. /\ session' = [session EXCEPT ![id] = [session[id] EXCEPT !.st = "ended"]]
      /\ session[id].st = "acquiring" /\ outstanding' = outstanding
      /\ locks' = locks /\ clock' = clock
  BY DEF GiveUp
<1>3. session' \in [LockIds -> Session]
  BY <1>1, <1>2 DEF Session
<1>4. \A i \in LockIds :
        /\ session[i].st # "fresh" =>
             /\ session'[i].path = session[i].path
             /\ session'[i].max = session[i].max
             /\ session'[i].st # "fresh"
        /\ session[i].st = "ended" => session'[i].st = "ended"
        /\ session'[i].st = "held" => session'[i] = session[i]
  BY <1>1, <1>2 DEF Session
<1> QED
  BY <1>1, <1>2, <1>3, <1>4, CallerInv

\* A lost command keeps the invariant.
LEMMA LoseInv ==
  ASSUME IndInv, NEW c \in outstanding, Lose(c)
  PROVE  IndInv'
<1>1. session \in [LockIds -> Session] /\ outstanding \in SUBSET Command
  BY DEF IndInv, TypeOK
<1>2. /\ session' = session /\ outstanding' = outstanding \ {c}
      /\ locks' = locks /\ clock' = clock
  BY DEF Lose
<1> QED
  BY <1>1, <1>2, CallerInv

\* A clock that moves forward ends leases and never starts one.
LEMMA TickInv ==
  ASSUME IndInv, NEW n \in Nodes, Tick(n)
  PROVE  IndInv'
<1>1. /\ clock' = [clock EXCEPT ![n] = clock[n] + 1]
      /\ locks' = locks /\ session' = session /\ outstanding' = outstanding
      /\ clock \in [Nodes -> Nat]
  BY DEF Tick, IndInv, TypeOK
<1>2. clock' \in [Nodes -> Nat] /\ \A m \in Nodes : clock[m] <= clock'[m]
  BY <1>1
<1>3. TypeOK' /\ CapacityRespected' /\ SubtreeExclusion'
  BY <1>1, <1>2 DEF IndInv, TypeOK, CapacityRespected, SubtreeExclusion
<1>4. StampsPast'
  <2>1. \A c \in outstanding : c.op \in {"acquire", "extend"} => c.now \in Nat
    BY CommandFields DEF IndInv, TypeOK
  <2> SUFFICES ASSUME NEW c \in outstanding, c.op \in {"acquire", "extend"}
               PROVE  \E m \in Nodes : c.now <= clock'[m]
    BY <1>1 DEF StampsPast
  <2>2. PICK m \in Nodes : c.now <= clock[m]
    BY DEF IndInv, StampsPast
  <2>3. c.now \in Nat /\ clock[m] \in Nat /\ clock'[m] \in Nat /\ clock[m] <= clock'[m]
    BY <2>1, <1>1, <1>2
  <2> QED
    BY <2>2, <2>3
<1>5. CommandsMatchSessions' /\ RowsMatchSessions'
  BY <1>1 DEF IndInv, CommandsMatchSessions, RowsMatchSessions
<1>6. LeaseHonoured'
  <2> SUFFICES ASSUME NEW id \in LockIds, Running(id)'
               PROVE  Running(id)
    BY <1>1 DEF IndInv, LeaseHonoured
  <2>1. session[id].until \in Nat
    BY DEF IndInv, TypeOK, Session
  <2> QED
    BY <1>1, <1>2, <2>1 DEF Running
<1> QED
  BY <1>3, <1>4, <1>5, <1>6 DEF IndInv

(***************************************************************************)
(* The theorems                                                            *)
(***************************************************************************)

\* Every step of the service keeps the invariant.
LEMMA StepInv == IndInv /\ [Next]_vars => IndInv'
<1> SUFFICES ASSUME IndInv, [Next]_vars PROVE IndInv'
  OBVIOUS
<1>1. ASSUME NEW n \in Nodes, NEW id \in LockIds, NEW p \in Paths,
             NEW max \in Capacities, NEW ttl \in Ttls, Acquire(n, id, p, max, ttl)
      PROVE  IndInv'
  BY <1>1, AcquireInv
<1>2. ASSUME NEW n \in Nodes, NEW id \in LockIds, NEW ttl \in Ttls,
             RetryAcquire(n, id, ttl)
      PROVE  IndInv'
  BY <1>2, RetryAcquireInv
<1>3. ASSUME NEW n \in Nodes, NEW id \in LockIds, NEW ttl \in Ttls, Extend(n, id, ttl)
      PROVE  IndInv'
  BY <1>3, ExtendInv
<1>4. ASSUME NEW id \in LockIds, Release(id)
      PROVE  IndInv'
  BY <1>4, ReleaseInv
<1>5. ASSUME NEW p \in Paths, ForceRelease(p)
      PROVE  IndInv'
  BY <1>5, ForceReleaseInv
<1>6. ASSUME NEW id \in LockIds, GiveUp(id)
      PROVE  IndInv'
  BY <1>6, GiveUpInv
<1>7. ASSUME NEW c \in outstanding, Apply(c)
      PROVE  IndInv'
  BY <1>7, ApplyAcquireInv, ApplyExtendInv, ApplyReleaseInv, ApplyForceInv DEF Apply
<1>8. ASSUME NEW c \in outstanding, Lose(c)
      PROVE  IndInv'
  BY <1>8, LoseInv
<1>9. ASSUME NEW n \in Nodes, Tick(n)
      PROVE  IndInv'
  BY <1>9, TickInv
<1>10. CASE UNCHANGED vars
  BY <1>10 DEF vars, IndInv, TypeOK, CapacityRespected, SubtreeExclusion, StampsPast,
     CommandsMatchSessions, RowsMatchSessions, LeaseHonoured, Running
<1> QED
  BY <1>1, <1>2, <1>3, <1>4, <1>5, <1>6, <1>7, <1>8, <1>9, <1>10 DEF Next

\* The inductive invariant holds in every reachable state of the service.
THEOREM ServiceInvariant == Spec => []IndInv
  BY InitInv, StepInv, PTL DEF Spec

\* The table, the commands and the sessions keep their types.
THEOREM TypeCorrect == Spec => []TypeOK
<1>1. IndInv => TypeOK
  BY DEF IndInv
<1> QED
  BY <1>1, ServiceInvariant, PTL

\* No entry of the table ever exceeds its capacity, and no lock_id is in it
\* twice (apply_acquire).
THEOREM CapacityTheorem == Spec => []CapacityRespected
<1>1. IndInv => CapacityRespected
  BY DEF IndInv
<1> QED
  BY <1>1, ServiceInvariant, PTL

\* No path is ever held together with one of its ancestors
\* (ancestor_conflict, descendant_conflict).
THEOREM SubtreeTheorem == Spec => []SubtreeExclusion
<1>1. IndInv => SubtreeExclusion
  BY DEF IndInv
<1> QED
  BY <1>1, ServiceInvariant, PTL

\* A caller whose lease is running has its row in the table, however the
\* stamps of the other nodes' commands are ordered.
THEOREM LeaseTheorem == Spec => []LeaseHonoured
<1>1. IndInv => LeaseHonoured
  BY DEF IndInv
<1> QED
  BY <1>1, ServiceInvariant, PTL

\* Running leases exclude each other: at most max_holders on one path, none
\* on a path and its ancestor.
THEOREM ExclusionTheorem == Spec => []NoConflictingLeases
<1>1. ASSUME IndInv PROVE NoConflictingLeases
  <2>1. \A p \in Paths : \A id \in RunningLeases(p) :
          \E h \in HoldersAt(locks, p) : h.lock_id = id
    BY <1>1 DEF RunningLeases, IndInv, LeaseHonoured
  <2>2. ASSUME NEW p \in Paths, NEW id \in RunningLeases(p)
        PROVE  Cardinality(RunningLeases(p)) <= session[id].max
    <3> DEFINE row == [i \in RunningLeases(p) |->
                         CHOOSE h \in HoldersAt(locks, p) : h.lock_id = i]
    <3>1. \A i \in RunningLeases(p) :
            row[i] \in HoldersAt(locks, p) /\ row[i].lock_id = i
      BY <2>1
    <3>2. row \in [RunningLeases(p) -> HoldersAt(locks, p)]
      BY <3>1
    <3>3. \A i, j \in RunningLeases(p) : row[i] = row[j] => i = j
      BY <3>1
    <3> HIDE DEF row
    <3>4. row \in Injection(RunningLeases(p), HoldersAt(locks, p))
      BY <3>2, <3>3 DEF Injection, IsInjective
    <3>5. p \in DOMAIN locks /\ session[id].max = locks[p].max_holders
      BY <1>1, <3>1 DEF HoldersAt, IndInv, RowsMatchSessions
    <3>6. /\ IsFiniteSet(HoldersAt(locks, p))
          /\ Cardinality(HoldersAt(locks, p)) <= locks[p].max_holders
      BY <1>1, <3>5, HoldersType DEF IndInv, TypeOK, CapacityRespected
    <3>7. /\ IsFiniteSet(RunningLeases(p))
          /\ Cardinality(RunningLeases(p)) <= Cardinality(HoldersAt(locks, p))
      BY <3>4, <3>6, FS_Injection DEF ExistsInjection
    <3>8. /\ Cardinality(RunningLeases(p)) \in Nat
          /\ Cardinality(HoldersAt(locks, p)) \in Nat
          /\ locks[p].max_holders \in Nat
      BY <1>1, <3>5, <3>6, <3>7, FS_CardinalityType
         DEF IndInv, TypeOK, IsLockState, LockEntry
    <3> QED
      BY <3>5, <3>6, <3>7, <3>8
  <2>3. ASSUME NEW p \in Paths, NEW q \in Ancestors[p]
        PROVE  RunningLeases(p) = {} \/ RunningLeases(q) = {}
    <3>1. q \in Paths
      BY PathTreeAssumption
    <3>2. HoldersAt(locks, p) = {} \/ HoldersAt(locks, q) = {}
      BY <1>1 DEF IndInv, SubtreeExclusion, SubtreesDisjoint
    <3> QED
      BY <2>1, <3>1, <3>2
  <2> QED
    BY <2>2, <2>3 DEF NoConflictingLeases
<1> QED
  BY <1>1, ServiceInvariant, PTL
=============================================================================
