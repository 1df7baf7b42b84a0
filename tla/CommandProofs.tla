---------------------------- MODULE CommandProofs ----------------------------
(***************************************************************************)
(* Proofs about the commands of a zone, from the caller to the tables.     *)
(*                                                                         *)
(* ConditionalMetadata: for any paths, values and renames and any number   *)
(* of commands, at most one write commits of those that were computed from *)
(* one image, owners stand, retirement is final, handles fence, and the    *)
(* tables implement VersionedImages.                                       *)
(*                                                                         *)
(* Proposals: for any number of nodes, calls, elections and crashes, a     *)
(* call of ZoneConsensus::propose has at most one attempt under way or     *)
(* committed: commands are applied at most once and a refusal is definite. *)
(*                                                                         *)
(* The two parts use no fact of each other.                                *)
(***************************************************************************)
EXTENDS ConditionalMetadata, Proposals, TLAPS, FiniteSetTheorems, NaturalsInduction

----------------------------------------------------------------------------
(* Induction over data *)

\* A set of numbers with 0 and the successors of its elements has all numbers.
LEMMA NatSetInduction ==
  ASSUME NEW T \in SUBSET Nat, 0 \in T, \A n \in T : n + 1 \in T
  PROVE  T = Nat
<1> DEFINE R == OpToRel(<, Nat)
           D == Nat \ T
<1>1. IsWellFoundedOn(R, Nat)
  BY NatLessThanWellFounded
<1>2. SUFFICES ASSUME D # {} PROVE FALSE
  OBVIOUS
<1>3. PICK x \in D : \A y \in D : ~(<<y, x>> \in R)
  <2>1. D \subseteq Nat
    OBVIOUS
  <2> HIDE DEF R, D
  <2> QED BY <1>1, <1>2, <2>1, WFMin
<1>4. x # 0 /\ x - 1 \in Nat
  OBVIOUS
<1>5. <<x - 1, x>> \in R
  BY <1>4 DEF OpToRel
<1>6. x - 1 \in T
  BY <1>3, <1>4, <1>5
<1> QED BY <1>6, <1>4

\* A set of subsets that grows by one element, taken in the order of the fold,
\* has every subset of a finite set.
LEMMA SubsetInduction ==
  ASSUME NEW S, IsFiniteSet(S), NEW T \in SUBSET SUBSET S, {} \in T,
         \A s \in SUBSET S : s # {} /\ s \ {CHOOSE x \in s : TRUE} \in T => s \in T
  PROVE  T = SUBSET S
<1> DEFINE Any(s) == CHOOSE x \in s : TRUE
           N == {n \in Nat : \A s \in SUBSET S : Cardinality(s) <= n => s \in T}
<1>1. \A s \in SUBSET S : s # {} => Any(s) \in s /\ s \ {Any(s)} \in SUBSET S
  OBVIOUS
<1>2. \A s \in SUBSET S : IsFiniteSet(s) /\ Cardinality(s) \in Nat
  BY FS_Subset, FS_CardinalityType
<1>3. \A s \in SUBSET S : s # {} => Cardinality(s \ {Any(s)}) = Cardinality(s) - 1
  BY <1>1, <1>2, FS_RemoveElement
<1>4. \A s \in SUBSET S : Cardinality(s) = 0 <=> s = {}
  BY <1>2, FS_EmptySet
<1>5. \A s \in SUBSET S : s # {} /\ s \ {Any(s)} \in T => s \in T
  OBVIOUS
<1> HIDE DEF Any
<1>6. 0 \in N
  <2>1. \A s \in SUBSET S : Cardinality(s) <= 0 => s = {}
    BY <1>2, <1>4
  <2> QED BY <2>1
<1>7. ASSUME NEW n \in N PROVE n + 1 \in N
  <2>1. ASSUME NEW s \in SUBSET S, Cardinality(s) <= n + 1, s # {} PROVE s \in T
    <3>1. Cardinality(s \ {Any(s)}) <= n /\ s \ {Any(s)} \in SUBSET S
      BY <1>1, <1>2, <1>3, <2>1
    <3>2. s \ {Any(s)} \in T
      BY <3>1
    <3> QED BY <1>5, <2>1, <3>2
  <2> QED BY <2>1
<1>8. N = Nat
  <2>1. N \in SUBSET Nat
    OBVIOUS
  <2> HIDE DEF N
  <2> QED BY <1>6, <1>7, <2>1, NatSetInduction
<1> QED BY <1>2, <1>8

\* A fold over the finite set S with values in D: it starts from b, G are its
\* steps and A[s] is the element of s that it takes last.
FoldData(S, D, b, G, A) ==
  /\ IsFiniteSet(S) /\ b \in D /\ G \in [S -> [D -> D]]
  /\ \A s \in SUBSET S : s # {} => A[s] \in s

IsFold(it, S, b, G, A) ==
  \A s \in SUBSET S : it[s] = IF s = {} THEN b ELSE G[A[s]][it[s \ {A[s]}]]

\* A fold over a finite set is well defined.
LEMMA FoldExists ==
  ASSUME NEW S, NEW D, NEW b, NEW G, NEW A, FoldData(S, D, b, G, A)
  PROVE  \E it \in [SUBSET S -> D] : IsFold(it, S, b, G, A)
<1> USE DEF FoldData
<1> DEFINE Step(it, s) == IF s = {} THEN b ELSE G[A[s]][it[s \ {A[s]}]]
           T == {n \in Nat : \E it \in [SUBSET S -> D] :
                   \A s \in SUBSET S : Cardinality(s) <= n => it[s] = Step(it, s)}
<1>1. \A s \in SUBSET S : s # {} => A[s] \in s /\ s \ {A[s]} \in SUBSET S
  OBVIOUS
<1>2. \A s \in SUBSET S : IsFiniteSet(s) /\ Cardinality(s) \in Nat
  BY FS_Subset, FS_CardinalityType
<1>3. \A s \in SUBSET S : s # {} => Cardinality(s \ {A[s]}) = Cardinality(s) - 1
  BY <1>1, <1>2, FS_RemoveElement
<1>4. \A s \in SUBSET S : Cardinality(s) = 0 <=> s = {}
  BY <1>2, FS_EmptySet
<1>5. \A it \in [SUBSET S -> D] : \A s \in SUBSET S : Step(it, s) \in D
  BY <1>1
<1>6. 0 \in T
  <2> DEFINE it == [s \in SUBSET S |-> b]
  <2>1. it \in [SUBSET S -> D]
    OBVIOUS
  <2>2. \A s \in SUBSET S : Cardinality(s) <= 0 => it[s] = Step(it, s)
    BY <1>2, <1>4
  <2> QED BY <2>1, <2>2
<1>7. ASSUME NEW n \in T PROVE n + 1 \in T
  <2>1. PICK it \in [SUBSET S -> D] :
          \A s \in SUBSET S : Cardinality(s) <= n => it[s] = Step(it, s)
    OBVIOUS
  <2> DEFINE nxt == [s \in SUBSET S |-> Step(it, s)]
  <2>2. nxt \in [SUBSET S -> D]
    BY <1>5
  <2>3. ASSUME NEW s \in SUBSET S, Cardinality(s) <= n + 1
        PROVE  nxt[s] = Step(nxt, s)
    <3>1. CASE s = {}
      BY <3>1
    <3>2. CASE s # {}
      <4>1. Cardinality(s \ {A[s]}) <= n /\ s \ {A[s]} \in SUBSET S
        BY <1>1, <1>2, <1>3, <2>3, <3>2
      <4>2. nxt[s \ {A[s]}] = it[s \ {A[s]}]
        BY <2>1, <4>1
      <4> QED BY <3>2, <4>2
    <3> QED BY <3>1, <3>2
  <2>4. n + 1 \in Nat
    OBVIOUS
  <2> QED BY <2>2, <2>3, <2>4
<1>8. T = Nat
  <2>1. T \in SUBSET Nat
    OBVIOUS
  <2> HIDE DEF T
  <2> QED BY <1>6, <1>7, <2>1, NatSetInduction
<1>9. Cardinality(S) \in T /\ Cardinality(S) \in Nat
  BY <1>2, <1>8
<1>10. PICK it \in [SUBSET S -> D] :
         \A s \in SUBSET S : Cardinality(s) <= Cardinality(S) => it[s] = Step(it, s)
  BY <1>9
<1>11. \A s \in SUBSET S : Cardinality(s) <= Cardinality(S)
  BY FS_Subset
<1> QED BY <1>10, <1>11 DEF IsFold

----------------------------------------------------------------------------
(* The control records of a database *)

\* Revisions come from the allocator and none names two paths.
Sound(d) ==
  /\ d \in Database
  /\ \A k \in Keys : d.rev[k] <= d.alloc
  /\ \A j, k \in Keys : d.rev[j] = d.rev[k] /\ d.rev[j] # None => j = k

\* e is d after new revisions for some of the managed paths in S.
Revised(d, e, S) ==
  /\ Sound(e)
  /\ e.meta = d.meta /\ e.policy = d.policy /\ e.binding = d.binding
  /\ e.retired = d.retired /\ e.appends = d.appends
  /\ d.alloc <= e.alloc
  /\ \A k \in Keys : e.rev[k] = d.rev[k] \/ (k \in S /\ k \in Managed /\ e.rev[k] > d.alloc)

\* allocate_revision gives one path the next number.
LEMMA Allocated ==
  ASSUME NEW d \in Database, NEW k \in Keys
  PROVE  LET e == allocate_revision(d, k)
         IN  /\ e \in Database
             /\ e.alloc = d.alloc + 1 /\ e.rev = [d.rev EXCEPT ![k] = d.alloc + 1]
             /\ e.meta = d.meta /\ e.policy = d.policy /\ e.binding = d.binding
             /\ e.retired = d.retired /\ e.appends = d.appends
<1> DEFINE a == [d EXCEPT !.alloc = d.alloc + 1]
<1>1. /\ a \in Database /\ a.alloc = d.alloc + 1 /\ a.rev = d.rev
      /\ a.meta = d.meta /\ a.policy = d.policy /\ a.binding = d.binding
      /\ a.retired = d.retired /\ a.appends = d.appends
  BY DEF Database
<1>2. d.alloc + 1 \in Nat
  BY DEF Database
<1>3. allocate_revision(d, k) = [a EXCEPT !.rev[k] = d.alloc + 1]
  BY DEF allocate_revision, Database
<1> HIDE DEF a
<1> DEFINE e == [a EXCEPT !.rev[k] = d.alloc + 1]
<1>4. e \in Database
  BY <1>1, <1>2 DEF Database
<1>5. /\ e.alloc = a.alloc /\ e.rev = [a.rev EXCEPT ![k] = d.alloc + 1]
      /\ e.meta = a.meta /\ e.policy = a.policy /\ e.binding = a.binding
      /\ e.retired = a.retired /\ e.appends = a.appends
  BY <1>1 DEF Database
<1> HIDE DEF e
<1> QED BY <1>1, <1>3, <1>4, <1>5 DEF e

\* The number is new.
LEMMA AllocatedSound ==
  ASSUME NEW d, Sound(d), NEW k \in Keys
  PROVE  LET e == allocate_revision(d, k)
         IN  /\ Sound(e)
             /\ d.alloc <= e.alloc /\ e.rev[k] > d.alloc
             /\ \A j \in Keys \ {k} : e.rev[j] = d.rev[j]
<1> DEFINE e == allocate_revision(d, k)
<1>1. d \in Database
  BY DEF Sound
<1>2. /\ e \in Database
      /\ e.alloc = d.alloc + 1 /\ e.rev = [d.rev EXCEPT ![k] = d.alloc + 1]
      /\ e.meta = d.meta /\ e.policy = d.policy /\ e.binding = d.binding
      /\ e.retired = d.retired /\ e.appends = d.appends
  BY <1>1, Allocated
<1> HIDE DEF e
<1>3. d.rev \in [Keys -> Nat] /\ d.alloc \in Nat
  BY <1>1 DEF Database
<1>4. e.rev[k] = d.alloc + 1 /\ \A j \in Keys : j # k => e.rev[j] = d.rev[j]
  BY <1>1, <1>2, <1>3
<1>5. Sound(e)
  BY <1>1, <1>2, <1>3, <1>4 DEF Sound, None
<1>6. d.alloc <= e.alloc /\ e.rev[k] > d.alloc
  BY <1>2, <1>3, <1>4
<1> QED BY <1>4, <1>5, <1>6 DEF e

\* For a managed path that is a revision.
LEMMA AllocatedRevised ==
  ASSUME NEW d, Sound(d), NEW k \in Managed
  PROVE  /\ Revised(d, allocate_revision(d, k), {k})
         /\ allocate_revision(d, k).rev[k] > d.alloc
<1>1. k \in Keys /\ d \in Database
  BY CmAssumption DEF Sound
<1> DEFINE e == allocate_revision(d, k)
<1>2. /\ e.meta = d.meta /\ e.policy = d.policy /\ e.binding = d.binding
      /\ e.retired = d.retired /\ e.appends = d.appends
  BY <1>1, Allocated
<1>3. /\ Sound(e) /\ d.alloc <= e.alloc /\ e.rev[k] > d.alloc
      /\ \A j \in Keys \ {k} : e.rev[j] = d.rev[j]
  BY <1>1, AllocatedSound
<1> HIDE DEF e
<1>4. Revised(d, e, {k}) /\ e.rev[k] > d.alloc
  BY <1>2, <1>3 DEF Revised
<1> QED BY <1>4 DEF e

\* Doing nothing is a revision.
LEMMA NothingRevised ==
  ASSUME NEW d, Sound(d), NEW S
  PROVE  Revised(d, d, S)
<1>1. d.alloc \in Nat
  BY DEF Sound, Database
<1> QED BY <1>1 DEF Revised

\* Revisions add up.
LEMMA RevisedTwice ==
  ASSUME NEW d, NEW e, NEW f, NEW S, NEW T, Sound(d), Revised(d, e, S), Revised(e, f, T)
  PROVE  Revised(d, f, S \cup T)
<1>1. /\ d.alloc \in Nat /\ e.alloc \in Nat /\ f.alloc \in Nat
      /\ f.rev \in [Keys -> Nat]
  BY DEF Revised, Sound, Database
<1> QED BY <1>1 DEF Revised

\* refresh_tracked_version leaves a path with no revision or with a new one.
LEMMA RefreshedRevised ==
  ASSUME NEW d, Sound(d), NEW k \in Keys
  PROVE  LET e == refresh_tracked_version(d, k)
         IN  /\ Revised(d, e, {k})
             /\ k \in Managed /\ d.rev[k] # None => e.rev[k] > d.alloc
             /\ ~(k \in Managed /\ d.rev[k] # None) => e = d
<1>1. CASE k \in Managed /\ d.rev[k] # None
  BY <1>1, AllocatedRevised DEF refresh_tracked_version
<1>2. CASE ~(k \in Managed /\ d.rev[k] # None)
  BY <1>2, NothingRevised DEF refresh_tracked_version
<1> QED BY <1>1, <1>2

\* One pair of a rename revises its two paths and leaves the target without a
\* revision or with a new one.
LEMMA MovedRevised ==
  ASSUME NEW d, Sound(d), NEW f, NEW k \in Keys, f[k] \in Keys
  PROVE  LET e == MoveRevision(f, d, k)
         IN  /\ Revised(d, e, {k, f[k]})
             /\ f[k] \in Managed \/ d.rev[f[k]] = None =>
                  e.rev[f[k]] = None \/ e.rev[f[k]] > d.alloc
<1> DEFINE d1 == refresh_tracked_version(d, k)
           t  == f[k]
           e  == MoveRevision(f, d, k)
<1>1. Revised(d, d1, {k}) /\ Sound(d1)
  BY RefreshedRevised DEF Revised
<1>2. d.alloc \in Nat /\ d1.alloc \in Nat /\ d.alloc <= d1.alloc
  BY <1>1 DEF Revised, Sound, Database
<1>3. e = IF d1 # d /\ t \in Managed THEN allocate_revision(d1, t)
          ELSE refresh_tracked_version(d1, t)
  BY DEF MoveRevision
<1> HIDE DEF d1, e
<1>4. /\ Revised(d1, e, {t})
      /\ t \in Managed => e.rev[t] = None \/ e.rev[t] > d1.alloc
  <2>1. CASE d1 # d /\ t \in Managed
    BY <1>1, <1>3, <2>1, AllocatedRevised
  <2>2. CASE ~(d1 # d /\ t \in Managed)
    <3>1. e = refresh_tracked_version(d1, t) /\ t \in Keys
      BY <1>3, <2>2
    <3> HIDE DEF t
    <3> QED BY <1>1, <3>1, RefreshedRevised
  <2> QED BY <2>1, <2>2
<1>5. Revised(d, e, {k} \cup {t})
  BY <1>1, <1>4, RevisedTwice
<1>6. e.rev[t] \in Nat /\ d.rev[t] \in Nat /\ d1.rev[t] \in Nat
  BY <1>1, <1>4 DEF Revised, Sound, Database
<1>7. t \in Managed \/ d.rev[t] = None => e.rev[t] = None \/ e.rev[t] > d.alloc
  BY <1>2, <1>4, <1>5, <1>6 DEF Revised
<1>8. {k} \cup {t} = {k, t}
  OBVIOUS
<1> QED BY <1>5, <1>7, <1>8 DEF e

\* A whole rename, one pair after the other in the order of the fold.
LEMMA RenamedRevised ==
  ASSUME NEW f \in Renames, NEW b, Sound(b), NEW rows \in SUBSET DOMAIN f,
         \A k \in rows : f[k] \in Managed \/ b.rev[f[k]] = None
  PROVE  LET d == FoldSet(LAMBDA k, acc : MoveRevision(f, acc, k), b, rows)
         IN  /\ Revised(b, d, rows \cup {f[k] : k \in rows})
             /\ \A k \in rows : d.rev[f[k]] = None \/ d.rev[f[k]] > b.alloc
<1> DEFINE D == {d \in Database : Sound(d)}
           G == [k \in rows |-> [d \in D |-> MoveRevision(f, d, k)]]
           Any(s) == CHOOSE x \in s : TRUE
           Tree(it) == [s \in SUBSET rows |-> IF s = {} THEN b
                          ELSE MoveRevision(f, it[s \ {Any(s)}], Any(s))]
           A == [s \in SUBSET rows |-> Any(s)]
           fold == CHOOSE it : it = Tree(it)
           Q(s) == /\ Revised(b, fold[s], s \cup {f[k] : k \in s})
                   /\ \A k \in s : fold[s].rev[f[k]] = None \/ fold[s].rev[f[k]] > b.alloc
           T == {s \in SUBSET rows : Q(s)}
<1>1. IsFiniteSet(rows) /\ \A k \in rows : k \in Keys /\ f[k] \in Keys
  BY CmAssumption, FS_Subset
<1>2. G \in [rows -> [D -> D]] /\ b \in D
  <2>1. \A k \in rows, d \in D : MoveRevision(f, d, k) \in D
    BY <1>1, MovedRevised DEF Revised, Sound
  <2>2. b \in D
    BY DEF Sound
  <2> QED BY <2>1, <2>2
<1>3. \E it : it = Tree(it)
  <2>0. \A s \in SUBSET rows : s # {} => A[s] \in s
    OBVIOUS
  <2> HIDE DEF D, G, A
  <2>1. PICK it \in [SUBSET rows -> D] : IsFold(it, rows, b, G, A)
    <3>1. FoldData(rows, D, b, G, A)
      BY <1>1, <1>2, <2>0 DEF FoldData
    <3> QED BY <3>1, FoldExists
  <2>2. \A s \in SUBSET rows : s # {} => Any(s) \in rows /\ s \ {Any(s)} \in SUBSET rows
    OBVIOUS
  <2> HIDE DEF Any
  <2>3. \A s \in SUBSET rows : s # {} =>
          G[Any(s)][it[s \ {Any(s)}]] = MoveRevision(f, it[s \ {Any(s)}], Any(s))
    BY <2>2 DEF G
  <2>4. it = Tree(it)
    BY <2>1, <2>3 DEF A, IsFold
  <2> QED BY <2>4
<1>4. fold = Tree(fold)
  BY <1>3
<1>5. FoldSet(LAMBDA k, acc : MoveRevision(f, acc, k), b, rows) = fold[rows]
  BY DEF FoldSet, MapThenFoldSet
<1>6. \A s \in SUBSET rows : s # {} => Any(s) \in s /\ s \ {Any(s)} \in SUBSET rows
  OBVIOUS
<1> HIDE DEF fold, Any
<1>7. {} \in T
  <2>1. fold[{}] = b
    BY <1>4
  <2>2. Revised(b, fold[{}], {} \cup {f[k] : k \in {}})
    BY <2>1, NothingRevised
  <2> QED BY <2>2
<1>8. ASSUME NEW s \in SUBSET rows, s # {}, s \ {Any(s)} \in T PROVE s \in T
  <2> DEFINE r == s \ {Any(s)}
             k == Any(s)
             d == fold[r]
             e == fold[s]
  <2>1. e = MoveRevision(f, d, k)
    BY <1>4, <1>8
  <2>2. k \in rows /\ k \in s /\ k \in Keys /\ f[k] \in Keys /\ s = r \cup {k}
    BY <1>1, <1>6, <1>8
  <2>3. Q(r)
    BY <1>8
  <2>4. Sound(d)
    BY <2>3 DEF Revised
  <2>5. b.rev[f[k]] \in Nat /\ d.rev[f[k]] \in Nat /\ b.alloc \in Nat /\ d.alloc \in Nat
    BY <2>2, <2>4 DEF Sound, Database
  <2>6. /\ Revised(d, e, {k, f[k]})
        /\ f[k] \in Managed \/ d.rev[f[k]] = None => e.rev[f[k]] = None \/ e.rev[f[k]] > d.alloc
    <3> HIDE DEF k, d, e
    <3> QED BY <2>1, <2>2, <2>4, MovedRevised
  <2>7. Revised(b, e, (r \cup {f[j] : j \in r}) \cup {k, f[k]})
    <3> HIDE DEF r, k, d, e
    <3>1. Revised(b, d, r \cup {f[j] : j \in r})
      BY <2>3 DEF d
    <3> QED BY <2>6, <3>1, RevisedTwice
  <2>8. (r \cup {f[j] : j \in r}) \cup {k, f[k]} = s \cup {f[j] : j \in s}
    <3> HIDE DEF r, k
    <3> QED BY <2>2
  <2>9. ASSUME NEW j \in s PROVE e.rev[f[j]] = None \/ e.rev[f[j]] > b.alloc
    <3>1. f[j] \in Keys /\ e.rev[f[j]] \in Nat /\ d.rev[f[j]] \in Nat /\ b.alloc <= d.alloc
      BY <1>1, <2>3, <2>4, <2>6 DEF Revised, Sound, Database
    <3>2. CASE j = k
      <4>1. f[k] \in Managed \/ d.rev[f[k]] = None
        BY <2>2, <2>3 DEF Revised
      <4> HIDE DEF r, k, d, e
      <4> QED BY <2>5, <2>6, <3>1, <3>2, <4>1
    <3>3. CASE j # k
      <4>1. d.rev[f[j]] = None \/ d.rev[f[j]] > b.alloc
        BY <2>2, <2>3, <3>3
      <4> HIDE DEF r, k, d, e
      <4> QED BY <2>5, <2>6, <3>1, <4>1 DEF Revised
    <3> QED BY <3>2, <3>3
  <2>10. Q(s)
    BY <2>7, <2>8, <2>9
  <2> QED BY <2>10
<1>9. T = SUBSET rows
  <2>1. T \in SUBSET SUBSET rows
    OBVIOUS
  <2>2. \A s \in SUBSET rows : s # {} /\ s \ {CHOOSE x \in s : TRUE} \in T => s \in T
    BY <1>8 DEF Any
  <2> HIDE DEF T
  <2> QED BY <1>1, <1>7, <2>1, <2>2, SubsetInduction
<1>10. Q(rows)
  BY <1>9
<1> QED BY <1>5, <1>10

----------------------------------------------------------------------------
(* What every command keeps to *)

\* k may be written: it is not retired and neither is its owner.
Free(k) ==
  db.retired[k] = None /\ (db.binding[k] # None => db.retired[db.binding[k]] = None)

\* A key keeps its row, or it has no policy and loses its row, gets a new
\* revision or goes on without one, or it is written under a new revision.
RowLaw(d, k) ==
  /\ \/ d.rev[k] = db.rev[k]
     \/ d.rev[k] > db.alloc /\ (k \in Managed \/ d.policy[k] # Plain)
  /\ \/ d.meta[k] = db.meta[k] /\ d.rev[k] = db.rev[k]
     \/ /\ ~Protected(k)
        /\ \/ d.meta[k] = None
           \/ d.rev[k] > db.alloc
           \/ d.rev[k] = None /\ db.rev[k] = None
     \/ Free(k) /\ d.meta[k] # None /\ d.rev[k] > db.alloc

\* Policies only get stronger, and a protected row has a revision.
PolicyLaw(d, k) ==
  /\ d.policy[k] # Plain /\ d.meta[k] # None => d.rev[k] # None
  /\ Protected(k) => d.policy[k] # Plain
  /\ db.policy[k] \in Owners => d.policy[k] \in Owners

\* A record is bound once and to an owner, and an owner is retired once.
GuardLaw(d, k) ==
  /\ \/ d.binding[k] = db.binding[k]
     \/ /\ Bindable(k) /\ d.policy[k] # Plain /\ d.retired[k] = None
        /\ LET g == d.binding[k]
           IN  /\ g # None /\ d.binding[g] = None
               /\ d.policy[g] \in Owners /\ d.meta[g] # None
  /\ \/ d.retired[k] = db.retired[k]
     \/ /\ db.retired[k] = None /\ db.binding[k] = None
        /\ d.binding[k] = None /\ d.policy[k] \in Owners
        /\ d.meta[k] # None /\ d.retired[k] = d.rev[k]
  /\ d.appends[k] = db.appends[k] \/ db.binding[k] = None \/ Free(k)

Lawful(d) ==
  /\ Sound(d) /\ db.alloc <= d.alloc /\ d.alloc <= MaxRevisions
  /\ \A k \in Keys : RowLaw(d, k) /\ PolicyLaw(d, k) /\ GuardLaw(d, k)

\* The histories: what a committed write was computed from is replaced, and a
\* guarded mutation carries the owner's revision.
Recorded ==
  /\ \/ won' = won
     \/ \E k \in Keys, e \in Nat :
          /\ e = None \/ e = db.rev[k]
          /\ db'.rev[k] > db.alloc
          /\ won' = won \cup {[key |-> k, expected |-> e, version |-> db'.rev[k]]}
  /\ \/ handle' = handle
     \/ \E k \in Keys : /\ db.binding[k] # None
                       /\ handle' = [handle EXCEPT ![k] = db.rev[db.binding[k]]]

LEMMA IndInvSound == IndInv => Sound(db)
BY DEF IndInv, TypeOK, Sound, RevisionsNameImages

\* The fields of a database.
LEMMA Fields ==
  ASSUME NEW d \in Database
  PROVE  /\ d.meta \in [Keys -> Values \cup {None}] /\ d.rev \in [Keys -> Nat]
         /\ d.alloc \in Nat /\ d.policy \in [Keys -> Policies]
         /\ d.binding \in [Keys -> Keys \cup {None}] /\ d.retired \in [Keys -> Nat]
         /\ d.appends \in [Keys -> 0 .. MaxAppends]
BY DEF Database

\* A lawful step keeps retired owners and their records as they are.
LEMMA LawfulFinal ==
  ASSUME IndInv, NEW d, Lawful(d), NEW k \in Keys, ~Free(k)
  PROVE  /\ d.meta[k] = db.meta[k] /\ d.rev[k] = db.rev[k]
         /\ d.binding[k] = db.binding[k] /\ d.retired[k] = db.retired[k]
         /\ (db.binding[k] # None => d.appends[k] = db.appends[k])
<1>1. Protected(k)
  BY DEF IndInv, GuardsHold, Free, Owners, Protected, Plain
<1>2. d.meta[k] = db.meta[k] /\ d.rev[k] = db.rev[k]
  BY <1>1 DEF Lawful, RowLaw
<1>3. db.retired[k] # None \/ db.binding[k] # None
  BY DEF Free
<1>4. d.binding[k] = db.binding[k] /\ d.retired[k] = db.retired[k]
  BY <1>3 DEF Lawful, GuardLaw, Bindable
<1> QED BY <1>2, <1>4 DEF Lawful, GuardLaw

\* It keeps the invariant of the tables and control records.
LEMMA LawfulTables ==
  ASSUME IndInv, Lawful(db')
  PROVE  TypeOK' /\ TrackedPaths' /\ OwnersStand'
<1> USE DEF IndInv
<1>1. db \in Database /\ db' \in Database
  BY DEF TypeOK, Lawful, Sound
<1>2. TypeOK'
  <2>1. ASSUME NEW k \in Keys PROVE db'.retired[k] <= db'.alloc
    <3>1. db'.retired[k] = db.retired[k] \/ db'.retired[k] = db'.rev[k]
      BY DEF Lawful, GuardLaw
    <3>2. db.retired[k] <= db.alloc /\ db.alloc <= db'.alloc /\ db'.rev[k] <= db'.alloc
      BY DEF TypeOK, Lawful, Sound
    <3>3. db.retired[k] \in Nat /\ db.alloc \in Nat /\ db'.alloc \in Nat
      BY <1>1, Fields
    <3> QED BY <3>1, <3>2, <3>3
  <2> QED BY <1>1, <2>1 DEF TypeOK, Lawful, Sound
<1>3. TrackedPaths'
  <2> SUFFICES ASSUME NEW k \in Keys
               PROVE  /\ db'.rev[k] # None => k \in Managed \/ db'.policy[k] # Plain
                      /\ db'.policy[k] # Plain /\ db'.meta[k] # None => db'.rev[k] # None
    BY DEF TrackedPaths, Protected
  <2> QED BY DEF Lawful, RowLaw, PolicyLaw, TrackedPaths, Protected
<1>4. ASSUME NEW k \in Keys, db'.binding[k] # None
      PROVE  LET g == db'.binding[k]
             IN  db'.policy[g] \in Owners /\ db'.meta[g] # None /\ db'.binding[g] = None
  <2> DEFINE g == db'.binding[k]
  <2>1. g \in Keys
    BY <1>1, <1>4, Fields
  <2>2. CASE db'.binding[k] = db.binding[k]
    <3>1. db.policy[g] \in Owners /\ db.meta[g] # None /\ db.binding[g] = None
      BY <1>4, <2>2 DEF OwnersStand
    <3>2. Protected(g) /\ ~Bindable(g)
      BY <3>1 DEF Protected, Bindable, Owners, Plain
    <3> HIDE DEF g
    <3>3. db'.policy[g] \in Owners /\ db'.meta[g] # None
      BY <2>1, <3>1, <3>2 DEF Lawful, PolicyLaw, RowLaw
    <3>4. db'.binding[g] = None
      BY <2>1, <3>1, <3>2 DEF Lawful, GuardLaw
    <3> QED BY <3>3, <3>4 DEF g
  <2>3. CASE db'.binding[k] # db.binding[k]
    BY <2>3 DEF Lawful, GuardLaw
  <2> QED BY <2>2, <2>3
<1>5. ASSUME NEW k \in Keys, db'.retired[k] # None
      PROVE  db'.meta[k] # None /\ db'.rev[k] = db'.retired[k]
  <2>1. CASE db.retired[k] # None
    <3>1. ~Free(k)
      BY <2>1 DEF Free
    <3>2. /\ db'.meta[k] = db.meta[k] /\ db'.rev[k] = db.rev[k]
          /\ db'.retired[k] = db.retired[k]
      BY <3>1, LawfulFinal
    <3> QED BY <2>1, <3>2 DEF OwnersStand
  <2>2. CASE db.retired[k] = None
    BY <1>5, <2>2 DEF Lawful, GuardLaw
  <2> QED BY <2>1, <2>2
<1> QED BY <1>2, <1>3, <1>4, <1>5 DEF OwnersStand

\* A guarded mutation of a record is under the latest handle.
LEMMA RecordedHandles ==
  ASSUME IndInv, Lawful(db'), Recorded
  PROVE  /\ handle' \in [Keys -> Nat]
         /\ \A k \in Keys : handle'[k] >= handle[k]
         /\ GuardsHold'
<1> USE DEF IndInv
<1>1. db \in Database /\ db' \in Database /\ handle \in [Keys -> Nat]
  BY DEF TypeOK, Lawful, Sound, HistoryOK
<1>2. /\ db.rev \in [Keys -> Nat] /\ db'.rev \in [Keys -> Nat]
      /\ db.binding \in [Keys -> Keys \cup {None}] /\ db.alloc \in Nat
      /\ db'.binding \in [Keys -> Keys \cup {None}]
  BY <1>1, Fields
<1>3. /\ handle' \in [Keys -> Nat]
      /\ \A k \in Keys : \/ handle'[k] = handle[k]
                         \/ db.binding[k] # None /\ handle'[k] = db.rev[db.binding[k]]
  <2>1. CASE handle' = handle
    BY <1>1, <2>1
  <2>2. CASE handle' # handle
    <3>1. PICK j \in Keys : /\ db.binding[j] # None
                           /\ handle' = [handle EXCEPT ![j] = db.rev[db.binding[j]]]
      BY <2>2 DEF Recorded
    <3>2. db.rev[db.binding[j]] \in Nat
      BY <1>2, <3>1
    <3> QED BY <1>1, <3>1, <3>2
  <2> QED BY <2>1, <2>2
<1>4. ASSUME NEW k \in Keys PROVE handle'[k] >= handle[k]
  BY <1>1, <1>2, <1>3 DEF GuardsHold
<1>5. ASSUME NEW k \in Keys
      PROVE  handle'[k] <= IF db'.binding[k] = None THEN 0 ELSE db'.rev[db'.binding[k]]
  <2>1. CASE db.binding[k] # None
    <3> DEFINE g == db.binding[k]
    <3>1. db'.binding[k] = g /\ g \in Keys
      BY <1>2, <2>1 DEF Lawful, GuardLaw, Bindable
    <3>2. handle'[k] <= db.rev[g]
      BY <1>1, <1>2, <1>3, <2>1, <3>1 DEF GuardsHold
    <3>3. db.rev[g] <= db'.rev[g]
      <4> HIDE DEF g
      <4>1. db'.rev[g] = db.rev[g] \/ db'.rev[g] > db.alloc
        BY <3>1 DEF Lawful, RowLaw
      <4>2. db.rev[g] <= db.alloc
        BY <3>1 DEF TypeOK
      <4> QED BY <1>2, <3>1, <4>1, <4>2
    <3>4. db'.rev[g] \in Nat /\ db.rev[g] \in Nat /\ handle'[k] \in Nat
      BY <1>2, <1>3, <3>1
    <3> QED BY <2>1, <3>1, <3>2, <3>3, <3>4
  <2>2. CASE db.binding[k] = None
    <3>1. handle'[k] = 0
      BY <1>1, <1>3, <2>2 DEF GuardsHold
    <3>2. db'.binding[k] # None => db'.rev[db'.binding[k]] \in Nat
      BY <1>2
    <3> QED BY <3>1, <3>2
  <2> QED BY <2>1, <2>2
<1>6. ASSUME NEW k \in Keys
      PROVE  /\ db'.binding[k] # None => db'.policy[k] # Plain /\ db'.retired[k] = None
             /\ db'.retired[k] # None => db'.policy[k] \in Owners
  <2>1. db'.retired[k] # None => db'.policy[k] \in Owners
    BY DEF Lawful, GuardLaw, PolicyLaw, GuardsHold
  <2>2. db'.binding[k] # None => db'.policy[k] # Plain /\ db'.retired[k] = None
    BY DEF Lawful, GuardLaw, PolicyLaw, GuardsHold
  <2> QED BY <2>1, <2>2
<1> QED BY <1>3, <1>4, <1>5, <1>6 DEF GuardsHold, Protected

\* A revision that a write was computed from is used up.
LEMMA RecordedWinners ==
  ASSUME IndInv, Lawful(db'), Recorded
  PROVE  /\ won' \subseteq [key : Keys, expected : Nat, version : Nat]
         /\ RevisionsNameImages' /\ OneWinner'
<1> USE DEF IndInv
<1>1. db \in Database /\ db' \in Database
  BY DEF TypeOK, Lawful, Sound
<1>2. /\ db.rev \in [Keys -> Nat] /\ db'.rev \in [Keys -> Nat]
      /\ db.alloc \in Nat /\ db'.alloc \in Nat /\ db.alloc <= db'.alloc
  BY <1>1, Fields DEF Lawful
<1>3. \A j, k \in Keys : db'.rev[j] = db'.rev[k] /\ db'.rev[j] # None => j = k
  BY DEF Lawful, Sound
<1>4. \A k \in Keys : /\ db.rev[k] <= db.alloc
                      /\ db'.rev[k] = db.rev[k] \/ db'.rev[k] > db.alloc
  BY DEF TypeOK, Lawful, RowLaw
<1>5. won \subseteq [key : Keys, expected : Nat, version : Nat]
  BY DEF HistoryOK
<1>6. ASSUME NEW w \in won, w.expected # None
      PROVE  w.expected <= db'.alloc /\ \A k \in Keys : db'.rev[k] # w.expected
  <2>1. w.expected \in Nat
    BY <1>5
  <2>2. w.expected <= db.alloc /\ \A k \in Keys : db.rev[k] # w.expected
    BY <1>6 DEF RevisionsNameImages
  <2> QED BY <1>2, <1>4, <2>1, <2>2
<1>7. CASE won' = won
  BY <1>3, <1>5, <1>6, <1>7 DEF RevisionsNameImages, OneWinner
<1>8. CASE won' # won
  <2>1. PICK k \in Keys, e \in Nat :
          /\ e = None \/ e = db.rev[k]
          /\ db'.rev[k] > db.alloc
          /\ won' = won \cup {[key |-> k, expected |-> e, version |-> db'.rev[k]]}
    BY <1>8 DEF Recorded
  <2> DEFINE n == [key |-> k, expected |-> e, version |-> db'.rev[k]]
  <2>2. n \in [key : Keys, expected : Nat, version : Nat] /\ n.expected = e
    BY <1>2
  <2> HIDE DEF n
  <2>3. won' = won \cup {n}
    BY <2>1 DEF n
  <2>4. e # None => e <= db'.alloc /\ \A j \in Keys : db'.rev[j] # e
    <3>1. ASSUME e # None, NEW j \in Keys PROVE db'.rev[j] # e
      <4>1. CASE j = k
        BY <1>2, <1>4, <2>1, <3>1, <4>1
      <4>2. CASE j # k
        <5>1. db.rev[j] # e
          BY <2>1, <3>1, <4>2 DEF RevisionsNameImages
        <5> QED BY <1>2, <1>4, <2>1, <3>1, <5>1
      <4> QED BY <4>1, <4>2
    <3> QED BY <1>2, <1>4, <2>1, <3>1
  <2>5. e # None => \A w \in won : w.expected # e
    BY <2>1 DEF RevisionsNameImages
  <2>6. RevisionsNameImages'
    BY <1>3, <1>6, <2>2, <2>3, <2>4 DEF RevisionsNameImages
  <2>7. OneWinner'
    BY <2>2, <2>3, <2>5 DEF OneWinner
  <2> QED BY <1>5, <2>2, <2>3, <2>6, <2>7
<1> QED BY <1>7, <1>8

\* Lawful and recorded steps keep the inductive invariant.
LEMMA LawfulInvariant ==
  ASSUME IndInv, Lawful(db'), Recorded
  PROVE  IndInv'
<1>1. db'.alloc <= MaxRevisions
  BY DEF Lawful
<1> QED BY <1>1, LawfulTables, RecordedHandles, RecordedWinners DEF IndInv, HistoryOK

----------------------------------------------------------------------------
(* Every command is lawful *)

\* A database with other rows.
LEMMA WithRows ==
  ASSUME NEW e \in Database, NEW m \in [Keys -> Values \cup {None}]
  PROVE  LET d == [e EXCEPT !.meta = m]
         IN  /\ d \in Database
             /\ d.meta = m /\ d.rev = e.rev /\ d.alloc = e.alloc /\ d.policy = e.policy
             /\ d.binding = e.binding /\ d.retired = e.retired /\ d.appends = e.appends
BY DEF Database

LEMMA WithRow ==
  ASSUME NEW e \in Database, NEW k \in Keys, NEW v \in Values \cup {None}
  PROVE  [e EXCEPT !.meta[k] = v] = [e EXCEPT !.meta = [e.meta EXCEPT ![k] = v]]
BY DEF Database

\* Ordinary writes of the unprotected paths in S.
LEMMA OrdinaryLawful ==
  ASSUME IndInv, NEW e, NEW S, Revised(db, e, S), e.alloc <= MaxRevisions,
         NEW m \in [Keys -> Values \cup {None}],
         \A k \in S : ~Protected(k),
         \A k \in Keys : \/ m[k] = db.meta[k] /\ e.rev[k] = db.rev[k]
                         \/ /\ k \in S
                            /\ \/ m[k] = None
                               \/ e.rev[k] > db.alloc
                               \/ e.rev[k] = None /\ db.rev[k] = None
  PROVE  Lawful([e EXCEPT !.meta = m])
<1> DEFINE d == [e EXCEPT !.meta = m]
<1>1. e \in Database /\ db \in Database
  BY DEF Revised, Sound, IndInv, TypeOK
<1>2. /\ d \in Database
      /\ d.meta = m /\ d.rev = e.rev /\ d.alloc = e.alloc /\ d.policy = db.policy
      /\ d.binding = db.binding /\ d.retired = db.retired /\ d.appends = db.appends
  BY <1>1, WithRows DEF Revised
<1> HIDE DEF d
<1>3. Sound(d) /\ db.alloc <= d.alloc /\ d.alloc <= MaxRevisions
  BY <1>2 DEF Revised, Sound
<1>4. ASSUME NEW k \in Keys PROVE RowLaw(d, k) /\ PolicyLaw(d, k) /\ GuardLaw(d, k)
  <2>1. RowLaw(d, k)
    BY <1>2 DEF RowLaw, Revised
  <2>2. PolicyLaw(d, k)
    BY <1>2 DEF PolicyLaw, Protected, IndInv, TrackedPaths
  <2>3. GuardLaw(d, k)
    BY <1>2 DEF GuardLaw
  <2> QED BY <2>1, <2>2, <2>3
<1>5. Lawful(d)
  BY <1>3, <1>4 DEF Lawful
<1> QED BY <1>5 DEF d

\* The writes of one row that SetMetadata, CasSetMetadata and DeleteMetadata
\* share.
LEMMA SetLawful ==
  ASSUME IndInv, NEW k \in Keys, NEW v \in Values \cup {None}, ~Protected(k),
         Becomes([refresh_tracked_version(db, k) EXCEPT !.meta[k] = v])
  PROVE  Lawful(db') /\ Recorded /\ answer' = NoAnswer
<1> DEFINE e == refresh_tracked_version(db, k)
           m == [e.meta EXCEPT ![k] = v]
<1>1. Sound(db)
  BY IndInvSound
<1>2. /\ Revised(db, e, {k})
      /\ k \in Managed /\ db.rev[k] # None => e.rev[k] > db.alloc
      /\ ~(k \in Managed /\ db.rev[k] # None) => e = db
  BY <1>1, RefreshedRevised
<1>3. db.rev[k] # None => k \in Managed
  BY DEF IndInv, TrackedPaths
<1> HIDE DEF e
<1>4. e \in Database /\ e.meta = db.meta
  BY <1>2 DEF Revised, Sound
<1>5. m \in [Keys -> Values \cup {None}] /\ m[k] = v /\ \A j \in Keys \ {k} : m[j] = db.meta[j]
  BY <1>4, Fields
<1>6. [e EXCEPT !.meta[k] = v] = [e EXCEPT !.meta = m]
  BY <1>4, WithRow
<1> HIDE DEF m
<1>7. db' = [e EXCEPT !.meta = m] /\ e.alloc <= MaxRevisions
  BY <1>4, <1>5, <1>6, WithRows DEF Becomes, e
<1>8. \A j \in Keys : \/ m[j] = db.meta[j] /\ e.rev[j] = db.rev[j]
                      \/ /\ j \in {k}
                         /\ e.rev[j] > db.alloc \/ (e.rev[j] = None /\ db.rev[j] = None)
  BY <1>2, <1>3, <1>5 DEF Revised
<1>9. Lawful([e EXCEPT !.meta = m])
  BY <1>2, <1>5, <1>7, <1>8, OrdinaryLawful
<1> QED BY <1>7, <1>9 DEF Becomes, Recorded

LEMMA AdjustLawful ==
  ASSUME IndInv, NEW k \in Keys, NEW v \in Values, AdjustCounter(k, v)
  PROVE  Lawful(db') /\ Recorded /\ answer' = NoAnswer
<1>1. refresh_tracked_version(db, k) = db
  BY DEF AdjustCounter, refresh_tracked_version
<1> QED BY <1>1, SetLawful DEF AdjustCounter

LEMMA RenameLawful ==
  ASSUME IndInv, NEW f \in Renames, RenameMetadata(f)
  PROVE  Lawful(db') /\ Recorded /\ answer' = NoAnswer
<1> DEFINE rows    == {k \in DOMAIN f : db.meta[k] # None}
           targets == {f[k] : k \in rows}
           e       == FoldSet(LAMBDA k, acc : MoveRevision(f, acc, k), db, rows)
           src(k)  == CHOOSE s \in rows : f[s] = k
           m       == [k \in Keys |->
             IF k \in targets THEN db.meta[src(k)]
             ELSE IF k \in rows THEN None ELSE e.meta[k]]
<1>1. /\ \A k \in rows \cup targets : ~Protected(k)
      /\ Becomes([e EXCEPT !.meta = m])
  BY DEF RenameMetadata
<1>2. Sound(db) /\ db \in Database
  BY IndInvSound DEF Sound
<1>3. rows \in SUBSET DOMAIN f /\ \A k \in rows : k \in Keys /\ f[k] \in Keys
  BY CmAssumption
<1>4. \A k \in rows : f[k] \in Managed \/ db.rev[f[k]] = None
  BY <1>1, <1>3 DEF IndInv, TrackedPaths
<1>5. /\ Revised(db, e, rows \cup {f[k] : k \in rows})
      /\ \A k \in rows : e.rev[f[k]] = None \/ e.rev[f[k]] > db.alloc
  <2> HIDE DEF rows
  <2> QED BY <1>2, <1>3, <1>4, RenamedRevised
<1> HIDE DEF e
<1>6. e.meta = db.meta /\ e \in Database
  BY <1>5 DEF Revised, Sound
<1>7. m \in [Keys -> Values \cup {None}]
  <2>1. \A k \in targets : src(k) \in Keys
    BY <1>3
  <2> HIDE DEF src, targets, rows
  <2>2. db.meta \in [Keys -> Values \cup {None}]
    BY <1>2, Fields
  <2>3. \A k \in Keys : m[k] \in Values \cup {None}
    BY <1>6, <2>1, <2>2
  <2> QED BY <2>3
<1>8. ASSUME NEW k \in Keys
      PROVE  \/ m[k] = db.meta[k] /\ e.rev[k] = db.rev[k]
             \/ /\ k \in rows \cup targets
                /\ \/ m[k] = None
                   \/ e.rev[k] > db.alloc
                   \/ e.rev[k] = None /\ db.rev[k] = None
  <2>1. CASE k \in targets
    <3>1. e.rev[k] = None \/ e.rev[k] > db.alloc
      BY <1>5, <2>1
    <3>2. e.rev[k] = db.rev[k] \/ e.rev[k] > db.alloc
      BY <1>5 DEF Revised
    <3> QED BY <2>1, <3>1, <3>2
  <2>2. CASE k \notin targets /\ k \in rows
    BY <2>2
  <2>3. CASE k \notin targets /\ k \notin rows
    BY <1>5, <1>6, <2>3 DEF Revised
  <2> QED BY <2>1, <2>2, <2>3
<1> HIDE DEF m
<1>9. db' = [e EXCEPT !.meta = m] /\ e.alloc <= MaxRevisions
  BY <1>1, <1>6, <1>7, WithRows DEF Becomes
<1>10. Lawful([e EXCEPT !.meta = m])
  <2> HIDE DEF rows, targets
  <2>1. Revised(db, e, rows \cup targets)
    BY <1>5 DEF targets
  <2> QED BY <1>1, <1>7, <1>8, <1>9, <2>1, OrdinaryLawful
<1> QED BY <1>1, <1>9, <1>10 DEF Becomes, Recorded

\* A command that changes no table, such as a refused one, is lawful.
LEMMA NothingLawful ==
  ASSUME IndInv
  PROVE  Lawful(db)
<1>1. Sound(db) /\ db.alloc \in Nat /\ db.alloc <= MaxRevisions
  BY IndInvSound, Fields DEF Sound, IndInv, HistoryOK
<1>2. ASSUME NEW k \in Keys PROVE RowLaw(db, k) /\ PolicyLaw(db, k) /\ GuardLaw(db, k)
  BY DEF RowLaw, PolicyLaw, GuardLaw, IndInv, TrackedPaths, Protected
<1> QED BY <1>1, <1>2 DEF Lawful

\* The database that a conditional write commits.
LEMMA WrittenFields ==
  ASSUME IndInv, NEW k \in Keys, NEW v \in Values
  PROVE  LET d == [allocate_revision(db, k) EXCEPT !.meta[k] = v]
         IN  /\ d \in Database /\ Sound(d) /\ d.alloc = db.alloc + 1
             /\ d.rev[k] = db.alloc + 1 /\ d.rev = [db.rev EXCEPT ![k] = db.alloc + 1]
             /\ d.meta = [db.meta EXCEPT ![k] = v] /\ d.policy = db.policy
             /\ d.binding = db.binding /\ d.retired = db.retired /\ d.appends = db.appends
<1> DEFINE e == allocate_revision(db, k)
           m == [e.meta EXCEPT ![k] = v]
           d == [e EXCEPT !.meta = m]
<1>1. Sound(db) /\ db \in Database
  BY IndInvSound DEF Sound
<1>2. /\ e \in Database /\ Sound(e)
      /\ e.alloc = db.alloc + 1 /\ e.rev = [db.rev EXCEPT ![k] = db.alloc + 1]
      /\ e.meta = db.meta /\ e.policy = db.policy /\ e.binding = db.binding
      /\ e.retired = db.retired /\ e.appends = db.appends
  BY <1>1, Allocated, AllocatedSound
<1> HIDE DEF e
<1>3. m \in [Keys -> Values \cup {None}]
  BY <1>2, Fields
<1>4. [e EXCEPT !.meta[k] = v] = d
  BY <1>2, WithRow
<1> HIDE DEF m
<1>5. /\ d \in Database /\ d.meta = m /\ d.rev = e.rev /\ d.alloc = e.alloc
      /\ d.policy = e.policy /\ d.binding = e.binding /\ d.retired = e.retired
      /\ d.appends = e.appends
  BY <1>2, <1>3, WithRows
<1> HIDE DEF d
<1>6. Sound(d)
  BY <1>2, <1>5 DEF Sound
<1>7. d.rev[k] = db.alloc + 1
  BY <1>1, <1>2, <1>5, Fields
<1> QED BY <1>2, <1>4, <1>5, <1>6, <1>7 DEF e, m

\* A conditional write is lawful where the path is free; it commits from the
\* current image or changes nothing.
LEMMA WriteLawful ==
  ASSUME IndInv, NEW k \in Keys, NEW v \in Values, NEW e \in Read,
         Free(k), write_versioned(k, v, e)
  PROVE  /\ Lawful(db')
         /\ \/ won' = won /\ db' = db
            \/ /\ Version(k) = e /\ (e = None \/ e = db.rev[k]) /\ e \in Nat
               /\ db'.rev[k] > db.alloc
               /\ won' = won \cup {[key |-> k, expected |-> e, version |-> db'.rev[k]]}
<1> DEFINE d == [allocate_revision(db, k) EXCEPT !.meta[k] = v]
<1>1. CASE Version(k) # e
  <2>1. db' = db /\ won' = won
    BY <1>1 DEF write_versioned
  <2> QED BY <2>1, NothingLawful
<1>2. CASE Version(k) = e
  <2>1. /\ db' = d /\ d.alloc <= MaxRevisions
        /\ won' = won \cup {[key |-> k, expected |-> e, version |-> d.rev[k]]}
        /\ k \in Managed \/ Protected(k)
    BY <1>2 DEF write_versioned, Eligible
  <2>2. /\ d \in Database /\ Sound(d) /\ d.alloc = db.alloc + 1
        /\ d.rev[k] = db.alloc + 1 /\ d.rev = [db.rev EXCEPT ![k] = db.alloc + 1]
        /\ d.meta = [db.meta EXCEPT ![k] = v] /\ d.policy = db.policy
        /\ d.binding = db.binding /\ d.retired = db.retired /\ d.appends = db.appends
    BY WrittenFields
  <2> HIDE DEF d
  <2>3. /\ db.rev \in [Keys -> Nat] /\ db.meta \in [Keys -> Values \cup {None}]
        /\ db.alloc \in Nat /\ v # None
    BY Fields, CmAssumption DEF IndInv, TypeOK
  <2>4. ASSUME NEW j \in Keys PROVE RowLaw(d, j) /\ PolicyLaw(d, j) /\ GuardLaw(d, j)
    <3>1. RowLaw(d, j)
      BY <2>1, <2>2, <2>3 DEF RowLaw, Protected
    <3>2. PolicyLaw(d, j)
      BY <2>1, <2>2, <2>3 DEF PolicyLaw, Protected, IndInv, TrackedPaths, None
    <3>3. GuardLaw(d, j)
      BY <2>2 DEF GuardLaw
    <3> QED BY <3>1, <3>2, <3>3
  <2>5. Lawful(d)
    BY <2>1, <2>2, <2>3, <2>4 DEF Lawful
  <2>6. (e = None \/ e = db.rev[k]) /\ e \in Nat
    BY <1>2, <2>3 DEF Version, Read
  <2> QED BY <1>2, <2>1, <2>2, <2>3, <2>5, <2>6
<1> QED BY <1>1, <1>2

\* A live handle names a path that is not retired at its revision.
LEMMA GuardedFree ==
  ASSUME IndInv, NEW k \in Keys, NEW h, ~guarded_record_refusal(k, h)
  PROVE  db.binding[k] # None /\ Free(k) /\ h = db.rev[db.binding[k]]
BY DEF guarded_record_refusal, live_record_guard, Free, IndInv, GuardsHold

LEMMA VersionedLawful ==
  ASSUME IndInv, NEW k \in Keys, NEW v \in Values, NEW e \in Read,
         WriteVersionedMetadata(k, v, e)
  PROVE  Lawful(db') /\ Recorded
<1>1. Free(k) /\ write_versioned(k, v, e) /\ handle' = handle
  BY DEF WriteVersionedMetadata, record_guard_refusal, Free
<1> QED BY <1>1, WriteLawful DEF Recorded

LEMMA GuardedReplaceLawful ==
  ASSUME IndInv, NEW k \in Keys, NEW v \in Values, NEW e \in Read, NEW h \in Read,
         GuardedReplace(k, v, e, h)
  PROVE  Lawful(db') /\ Recorded
<1>1. db.binding[k] # None /\ Free(k) /\ h = db.rev[db.binding[k]]
  BY GuardedFree DEF GuardedReplace
<1>2. write_versioned(k, v, e)
  BY DEF GuardedReplace
<1>3. handle' = handle \/ handle' = [handle EXCEPT ![k] = db.rev[db.binding[k]]]
  BY <1>1 DEF GuardedReplace
<1> QED BY <1>1, <1>2, <1>3, WriteLawful DEF Recorded

\* A database with another tail of one stream.
LEMMA WithAppend ==
  ASSUME NEW d \in Database, NEW k \in Keys, d.appends[k] < MaxAppends
  PROVE  LET e == [d EXCEPT !.appends[k] = @ + 1]
         IN  /\ e \in Database
             /\ e.meta = d.meta /\ e.rev = d.rev /\ e.alloc = d.alloc /\ e.policy = d.policy
             /\ e.binding = d.binding /\ e.retired = d.retired
             /\ \A j \in Keys \ {k} : e.appends[j] = d.appends[j]
<1>1. d.appends[k] \in 0 .. MaxAppends /\ MaxAppends \in Nat
  BY Fields, CmAssumption
<1>2. d.appends[k] + 1 \in 0 .. MaxAppends
  BY <1>1
<1> QED BY <1>2 DEF Database

\* Appends come with the owner's handle or to a stream without an owner.
LEMMA AppendLawful ==
  ASSUME IndInv, NEW k \in Keys, db.binding[k] = None \/ Free(k),
         db.appends[k] < MaxAppends, db' = [db EXCEPT !.appends[k] = @ + 1]
  PROVE  Lawful(db')
<1>1. db \in Database /\ Lawful(db)
  BY NothingLawful DEF IndInv, TypeOK
<1>2. /\ db' \in Database
      /\ db'.meta = db.meta /\ db'.rev = db.rev /\ db'.alloc = db.alloc
      /\ db'.policy = db.policy /\ db'.binding = db.binding /\ db'.retired = db.retired
      /\ \A j \in Keys \ {k} : db'.appends[j] = db.appends[j]
  BY <1>1, WithAppend
<1>3. ASSUME NEW j \in Keys PROVE RowLaw(db', j) /\ PolicyLaw(db', j) /\ GuardLaw(db', j)
  <2>1. RowLaw(db', j) /\ PolicyLaw(db', j)
    BY <1>1, <1>2 DEF Lawful, RowLaw, PolicyLaw
  <2>2. GuardLaw(db', j)
    BY <1>2 DEF GuardLaw
  <2> QED BY <2>1, <2>2
<1> QED BY <1>1, <1>2, <1>3 DEF Lawful, Sound

LEMMA AppendsLawful ==
  ASSUME IndInv, NEW k \in Keys,
         AppendStreamEntry(k) \/ \E h \in Read : GuardedAppend(k, h)
  PROVE  Lawful(db') /\ Recorded /\ answer' = NoAnswer
<1>1. CASE AppendStreamEntry(k)
  BY <1>1, AppendLawful DEF AppendStreamEntry, record_guard_refusal, Becomes, Recorded
<1>2. CASE \E h \in Read : GuardedAppend(k, h)
  <2>1. PICK h \in Read : GuardedAppend(k, h)
    BY <1>2
  <2>2. db.binding[k] # None /\ Free(k) /\ h = db.rev[db.binding[k]]
    BY <2>1, GuardedFree DEF GuardedAppend
  <2> QED BY <2>1, <2>2, AppendLawful DEF GuardedAppend, Recorded
<1> QED BY <1>1, <1>2

----------------------------------------------------------------------------
(* Policies, bindings and retirement *)

\* A database with another policy of one path.
LEMMA WithPolicy ==
  ASSUME NEW d \in Database, NEW k \in Keys, NEW p \in Policies
  PROVE  LET e == [d EXCEPT !.policy[k] = p]
         IN  /\ e \in Database
             /\ e.meta = d.meta /\ e.rev = d.rev /\ e.alloc = d.alloc
             /\ e.policy = [d.policy EXCEPT ![k] = p]
             /\ e.binding = d.binding /\ e.retired = d.retired /\ e.appends = d.appends
BY DEF Database

\* mark_record_owner makes an owner of k and changes nothing else.
LEMMA Marked ==
  ASSUME NEW d \in Database, NEW k \in Keys
  PROVE  LET e == mark_record_owner(d, k)
         IN  /\ e \in Database
             /\ e.meta = d.meta /\ e.rev = d.rev /\ e.alloc = d.alloc
             /\ e.policy[k] \in Owners /\ \A j \in Keys \ {k} : e.policy[j] = d.policy[j]
             /\ e.binding = d.binding /\ e.retired = d.retired /\ e.appends = d.appends
<1> DEFINE p == IF d.policy[k] = "record-owner-io" THEN d.policy[k] ELSE "record-owner"
           e == [d EXCEPT !.policy[k] = p]
<1>1. p \in Policies /\ p \in Owners
  BY DEF Policies, Owners
<1>2. mark_record_owner(d, k) = e
  BY DEF mark_record_owner, Database
<1> HIDE DEF p
<1>3. /\ e \in Database
      /\ e.meta = d.meta /\ e.rev = d.rev /\ e.alloc = d.alloc
      /\ e.policy = [d.policy EXCEPT ![k] = p]
      /\ e.binding = d.binding /\ e.retired = d.retired /\ e.appends = d.appends
  BY <1>1, WithPolicy
<1> HIDE DEF e
<1>4. e.policy[k] = p /\ \A j \in Keys \ {k} : e.policy[j] = d.policy[j]
  BY <1>3, Fields
<1> QED BY <1>1, <1>2, <1>3, <1>4

\* A path that is adopted gets a policy and, if it has a row, a new revision.
LEMMA AdoptedFields ==
  ASSUME IndInv, NEW k \in Keys
  PROVE  LET d == Adopted(db, k)
         IN  /\ Sound(d) /\ db.alloc <= d.alloc
             /\ d.policy[k] = "conditional-only"
             /\ \A j \in Keys \ {k} : d.policy[j] = db.policy[j] /\ d.rev[j] = db.rev[j]
             /\ db.meta[k] # None => d.rev[k] > db.alloc
             /\ db.meta[k] = None => d.rev[k] = db.rev[k]
             /\ d.meta = db.meta /\ d.binding = db.binding
             /\ d.retired = db.retired /\ d.appends = db.appends
<1> DEFINE e == IF db.meta[k] = None THEN db ELSE allocate_revision(db, k)
           d == [e EXCEPT !.policy[k] = "conditional-only"]
<1>1. Sound(db) /\ db \in Database /\ db.alloc \in Nat
  BY IndInvSound, Fields DEF Sound
<1>2. /\ Sound(e) /\ db.alloc <= e.alloc /\ e.policy = db.policy
      /\ \A j \in Keys \ {k} : e.rev[j] = db.rev[j]
      /\ db.meta[k] # None => e.rev[k] > db.alloc
      /\ db.meta[k] = None => e.rev[k] = db.rev[k]
      /\ e.meta = db.meta /\ e.binding = db.binding
      /\ e.retired = db.retired /\ e.appends = db.appends
  <2>1. CASE db.meta[k] = None
    BY <1>1, <2>1
  <2>2. CASE db.meta[k] # None
    <3>1. e = allocate_revision(db, k)
      BY <2>2
    <3> HIDE DEF e
    <3>2. /\ e.policy = db.policy /\ e.meta = db.meta /\ e.binding = db.binding
          /\ e.retired = db.retired /\ e.appends = db.appends
      BY <1>1, <3>1, Allocated
    <3>3. /\ Sound(e) /\ db.alloc <= e.alloc /\ e.rev[k] > db.alloc
          /\ \A j \in Keys \ {k} : e.rev[j] = db.rev[j]
      BY <1>1, <3>1, AllocatedSound
    <3> QED BY <2>2, <3>2, <3>3
  <2> QED BY <2>1, <2>2
<1> HIDE DEF e
<1>3. /\ d \in Database
      /\ d.meta = e.meta /\ d.rev = e.rev /\ d.alloc = e.alloc
      /\ d.policy = [e.policy EXCEPT ![k] = "conditional-only"]
      /\ d.binding = e.binding /\ d.retired = e.retired /\ d.appends = e.appends
  BY <1>2, WithPolicy DEF Sound, Policies
<1> HIDE DEF d
<1>4. /\ d.policy[k] = "conditional-only"
      /\ \A j \in Keys \ {k} : d.policy[j] = db.policy[j]
  BY <1>1, <1>2, <1>3, Fields
<1>5. Sound(d)
  BY <1>2, <1>3 DEF Sound
<1>6. d = Adopted(db, k)
  BY DEF Adopted, d, e
<1> QED BY <1>2, <1>3, <1>4, <1>5, <1>6

LEMMA AdoptLawful ==
  ASSUME IndInv, NEW k \in Keys, NEW image, AdoptProtectedMetadata(k, image)
  PROVE  Lawful(db') /\ Recorded /\ answer' = NoAnswer
<1>1. /\ ~Protected(k) /\ db' = Adopted(db, k) /\ db'.alloc <= MaxRevisions
      /\ won' = won /\ handle' = handle /\ answer' = NoAnswer
  BY DEF AdoptProtectedMetadata, Becomes
<1>2. /\ Sound(db') /\ db.alloc <= db'.alloc
      /\ db'.policy[k] = "conditional-only"
      /\ \A j \in Keys \ {k} : db'.policy[j] = db.policy[j] /\ db'.rev[j] = db.rev[j]
      /\ db.meta[k] # None => db'.rev[k] > db.alloc
      /\ db.meta[k] = None => db'.rev[k] = db.rev[k]
      /\ db'.meta = db.meta /\ db'.binding = db.binding
      /\ db'.retired = db.retired /\ db'.appends = db.appends
  BY <1>1, AdoptedFields
<1>3. db.alloc \in Nat
  BY Fields DEF IndInv, TypeOK
<1>4. ASSUME NEW j \in Keys PROVE RowLaw(db', j) /\ PolicyLaw(db', j) /\ GuardLaw(db', j)
  <2>1. RowLaw(db', j)
    BY <1>1, <1>2 DEF RowLaw, Plain
  <2>2. PolicyLaw(db', j)
    BY <1>1, <1>2, <1>3 DEF PolicyLaw, Protected, IndInv, TrackedPaths, None, Plain, Owners
  <2>3. GuardLaw(db', j)
    BY <1>2 DEF GuardLaw
  <2> QED BY <2>1, <2>2, <2>3
<1> QED BY <1>1, <1>2, <1>4 DEF Lawful, Recorded

LEMMA AdmitLawful ==
  ASSUME IndInv, NEW k \in Keys, NEW h, AdmitRecordIoOwner(k, h)
  PROVE  Lawful(db') /\ Recorded /\ answer' = NoAnswer
<1>1. /\ Protected(k) /\ db' = [db EXCEPT !.policy[k] = "record-owner-io"]
      /\ won' = won /\ handle' = handle /\ answer' = NoAnswer
  BY DEF AdmitRecordIoOwner, Becomes, live_record_guard
<1>2. db \in Database /\ Lawful(db)
  BY NothingLawful DEF IndInv, TypeOK
<1>3. /\ db' \in Database
      /\ db'.meta = db.meta /\ db'.rev = db.rev /\ db'.alloc = db.alloc
      /\ db'.policy = [db.policy EXCEPT ![k] = "record-owner-io"]
      /\ db'.binding = db.binding /\ db'.retired = db.retired /\ db'.appends = db.appends
  BY <1>1, <1>2, WithPolicy DEF Policies
<1>4. db'.policy[k] = "record-owner-io" /\ \A j \in Keys \ {k} : db'.policy[j] = db.policy[j]
  BY <1>2, <1>3, Fields
<1>5. ASSUME NEW j \in Keys PROVE RowLaw(db', j) /\ PolicyLaw(db', j) /\ GuardLaw(db', j)
  <2>1. RowLaw(db', j)
    BY <1>3 DEF RowLaw
  <2>2. PolicyLaw(db', j)
    BY <1>1, <1>3, <1>4 DEF PolicyLaw, Protected, IndInv, TrackedPaths, Plain, Owners
  <2>3. GuardLaw(db', j)
    BY <1>3 DEF GuardLaw
  <2> QED BY <2>1, <2>2, <2>3
<1> QED BY <1>1, <1>2, <1>3, <1>5 DEF Lawful, Sound, Recorded

LEMMA BindLawful ==
  ASSUME IndInv, NEW k \in Keys, NEW g \in Keys, NEW image, NEW h,
         BindRecordGuard(k, image, g, h)
  PROVE  Lawful(db') /\ Recorded /\ answer' = NoAnswer
<1> DEFINE d == IF Protected(k) THEN db ELSE Adopted(db, k)
           e == mark_record_owner(d, g)
           b == [e EXCEPT !.binding[k] = g]
<1>1. /\ k # g /\ db.binding[g] = None /\ Protected(g) /\ db.meta[g] # None
      /\ Bindable(k) /\ b.alloc <= MaxRevisions /\ db' = b
      /\ won' = won /\ handle' = handle /\ answer' = NoAnswer
  BY DEF BindRecordGuard, Becomes, live_record_guard
<1>2. Sound(db) /\ db \in Database /\ db.alloc \in Nat
  BY IndInvSound, Fields DEF Sound
<1>3. /\ Sound(d) /\ db.alloc <= d.alloc /\ d.policy[k] # Plain
      /\ d.policy[k] = db.policy[k] \/ ~Protected(k)
      /\ \A j \in Keys \ {k} : d.policy[j] = db.policy[j] /\ d.rev[j] = db.rev[j]
      /\ d.rev[k] = db.rev[k] \/ (d.rev[k] > db.alloc /\ ~Protected(k))
      /\ db.meta[k] # None => d.rev[k] # None
      /\ d.meta = db.meta /\ d.binding = db.binding
      /\ d.retired = db.retired /\ d.appends = db.appends
  <2>1. CASE Protected(k)
    BY <1>2, <2>1 DEF Protected, IndInv, TrackedPaths
  <2>2. CASE ~Protected(k)
    <3>1. d = Adopted(db, k)
      BY <2>2
    <3> HIDE DEF d
    <3> QED BY <1>2, <2>2, <3>1, AdoptedFields DEF Plain, None
  <2> QED BY <2>1, <2>2
<1> HIDE DEF d
<1>4. /\ e \in Database
      /\ e.meta = db.meta /\ e.rev = d.rev /\ e.alloc = d.alloc
      /\ e.policy[g] \in Owners /\ \A j \in Keys \ {g} : e.policy[j] = d.policy[j]
      /\ e.binding = db.binding /\ e.retired = db.retired /\ e.appends = db.appends
  BY <1>3, Marked DEF Sound
<1> HIDE DEF e
<1>5. /\ b \in Database
      /\ b.meta = e.meta /\ b.rev = e.rev /\ b.alloc = e.alloc /\ b.policy = e.policy
      /\ b.binding = [e.binding EXCEPT ![k] = g]
      /\ b.retired = e.retired /\ b.appends = e.appends
  BY <1>4 DEF Database
<1> HIDE DEF b
<1>6. b.binding[k] = g /\ b.binding[g] = None /\ \A j \in Keys \ {k} : b.binding[j] = db.binding[j]
  BY <1>1, <1>2, <1>4, <1>5, Fields
<1>7. Sound(b)
  BY <1>3, <1>4, <1>5 DEF Sound
<1>8. g # None /\ db.retired[k] = None
  BY <1>1, CmAssumption DEF Bindable
<1>9. ASSUME NEW j \in Keys PROVE RowLaw(b, j) /\ PolicyLaw(b, j) /\ GuardLaw(b, j)
  <2>1. RowLaw(b, j)
    BY <1>1, <1>3, <1>4, <1>5 DEF RowLaw
  <2>2. PolicyLaw(b, j)
    <3>1. CASE j = k
      BY <1>1, <1>3, <1>4, <1>5, <3>1 DEF PolicyLaw, Protected, Bindable
    <3>2. CASE j # k
      BY <1>1, <1>3, <1>4, <1>5, <3>2
        DEF PolicyLaw, Protected, IndInv, TrackedPaths, Owners, Plain
    <3> QED BY <3>1, <3>2
  <2>3. GuardLaw(b, j)
    <3>1. CASE j = k
      BY <1>1, <1>3, <1>4, <1>5, <1>6, <1>8, <3>1 DEF GuardLaw
    <3>2. CASE j # k
      BY <1>4, <1>5, <1>6, <3>2 DEF GuardLaw
    <3> QED BY <3>1, <3>2
  <2> QED BY <2>1, <2>2, <2>3
<1> QED BY <1>1, <1>3, <1>4, <1>5, <1>7, <1>9 DEF Lawful, Recorded

LEMMA RetireLawful ==
  ASSUME IndInv, NEW k \in Keys, NEW h, NEW v \in Values, RetireRecordGuard(k, h, v)
  PROVE  /\ Lawful(db') /\ Recorded
         /\ h = db.rev[k] /\ h # None /\ db.meta[k] # None
         /\ db'.alloc = db.alloc + 1 /\ db'.rev = [db.rev EXCEPT ![k] = db.alloc + 1]
         /\ db'.meta = [db.meta EXCEPT ![k] = v]
         /\ answer' = [kind |-> "committed", key |-> k,
                       image |-> [value |-> v, version |-> db.alloc + 1]]
<1> DEFINE a == allocate_revision(db, k)
           e == mark_record_owner(a, k)
           m == [e.meta EXCEPT ![k] = v]
           d == [e EXCEPT !.meta[k] = v]
           b == [d EXCEPT !.retired[k] = d.rev[k]]
<1>1. /\ db.binding[k] = None /\ Protected(k) /\ db.retired[k] = None /\ db.meta[k] # None
      /\ db.rev[k] = h /\ d.alloc <= MaxRevisions /\ db' = b
      /\ answer' = [kind |-> "committed", key |-> k,
                    image |-> [value |-> v, version |-> d.rev[k]]]
      /\ won' = won \cup {[key |-> k, expected |-> h, version |-> d.rev[k]]}
      /\ handle' = handle
  BY DEF RetireRecordGuard, live_record_guard
<1>2. Sound(db) /\ db \in Database /\ db.alloc \in Nat
  BY IndInvSound, Fields DEF Sound
<1>3. /\ a \in Database /\ Sound(a)
      /\ a.alloc = db.alloc + 1 /\ a.rev = [db.rev EXCEPT ![k] = db.alloc + 1]
      /\ a.meta = db.meta /\ a.policy = db.policy /\ a.binding = db.binding
      /\ a.retired = db.retired /\ a.appends = db.appends
  BY <1>2, Allocated, AllocatedSound
<1> HIDE DEF a
<1>4. /\ e \in Database
      /\ e.meta = a.meta /\ e.rev = a.rev /\ e.alloc = a.alloc
      /\ e.policy[k] \in Owners /\ \A j \in Keys \ {k} : e.policy[j] = a.policy[j]
      /\ e.binding = a.binding /\ e.retired = a.retired /\ e.appends = a.appends
  BY <1>3, Marked
<1> HIDE DEF e
<1>5. m \in [Keys -> Values \cup {None}] /\ d = [e EXCEPT !.meta = m]
  BY <1>4, WithRow, Fields
<1> HIDE DEF d, m
<1>6. /\ d \in Database /\ d.meta = m /\ d.rev = e.rev /\ d.alloc = e.alloc
      /\ d.policy = e.policy /\ d.binding = e.binding /\ d.retired = e.retired
      /\ d.appends = e.appends
  BY <1>4, <1>5, WithRows
<1>7. d.rev[k] = db.alloc + 1 /\ \A j \in Keys \ {k} : d.rev[j] = db.rev[j]
  BY <1>2, <1>3, <1>4, <1>6, Fields
<1>8. /\ b \in Database
      /\ b.meta = d.meta /\ b.rev = d.rev /\ b.alloc = d.alloc /\ b.policy = d.policy
      /\ b.binding = d.binding /\ b.appends = d.appends
      /\ b.retired = [d.retired EXCEPT ![k] = d.rev[k]]
  BY <1>6, Fields DEF Database
<1> HIDE DEF b
<1>9. b.retired[k] = b.rev[k] /\ \A j \in Keys \ {k} : b.retired[j] = db.retired[j]
  BY <1>3, <1>4, <1>6, <1>8, Fields
<1>10. b.meta[k] = v /\ v # None /\ \A j \in Keys \ {k} : b.meta[j] = db.meta[j]
  BY <1>2, <1>3, <1>4, <1>6, <1>8, Fields, CmAssumption DEF m
<1>11. Sound(b)
  BY <1>3, <1>4, <1>6, <1>8 DEF Sound
<1>12. Free(k)
  BY <1>1 DEF Free
<1>13. ASSUME NEW j \in Keys PROVE RowLaw(b, j) /\ PolicyLaw(b, j) /\ GuardLaw(b, j)
  <2>1. CASE j = k
    <3>1. b.rev[k] > db.alloc /\ b.rev[k] # None /\ b.policy[k] \in Owners /\ b.policy[k] # Plain
      BY <1>2, <1>4, <1>6, <1>7, <1>8 DEF Owners, Plain, None
    <3>2. RowLaw(b, k)
      BY <1>10, <1>12, <3>1 DEF RowLaw
    <3>3. PolicyLaw(b, k)
      BY <3>1 DEF PolicyLaw
    <3>4. GuardLaw(b, k)
      BY <1>1, <1>3, <1>4, <1>6, <1>8, <1>9, <1>10, <3>1 DEF GuardLaw
    <3> QED BY <2>1, <3>2, <3>3, <3>4
  <2>2. CASE j # k
    <3>1. b.policy[j] = db.policy[j] /\ b.rev[j] = db.rev[j] /\ b.meta[j] = db.meta[j]
      BY <1>3, <1>4, <1>6, <1>7, <1>8, <1>10, <2>2
    <3>2. RowLaw(b, j) /\ PolicyLaw(b, j)
      BY <3>1 DEF RowLaw, PolicyLaw, Protected, IndInv, TrackedPaths
    <3>3. GuardLaw(b, j)
      BY <1>3, <1>4, <1>6, <1>8, <1>9, <2>2 DEF GuardLaw
    <3> QED BY <3>2, <3>3
  <2> QED BY <2>1, <2>2
<1>14. Lawful(b)
  BY <1>1, <1>2, <1>3, <1>4, <1>6, <1>8, <1>11, <1>13 DEF Lawful
<1>15. h \in Nat /\ h # None
  BY <1>1, <1>2, Fields DEF IndInv, TrackedPaths
<1>16. Recorded
  <2>1. db'.rev[k] > db.alloc /\ d.rev[k] = db'.rev[k]
    BY <1>1, <1>2, <1>7, <1>8
  <2> QED BY <1>1, <1>15, <2>1 DEF Recorded
<1> QED BY <1>1, <1>3, <1>4, <1>6, <1>7, <1>8, <1>14, <1>15, <1>16 DEF m

----------------------------------------------------------------------------
(* The theorems *)

LEMMA StepLawful ==
  ASSUME IndInv, Next
  PROVE  Lawful(db') /\ Recorded
<1>1. CASE \E k \in Keys, v \in Values : SetMetadata(k, v)
  BY <1>1, SetLawful DEF SetMetadata
<1>2. CASE \E k \in Keys, v \in Values, e \in Values \cup {None} : CasSetMetadata(k, v, e)
  BY <1>2, SetLawful DEF CasSetMetadata
<1>3. CASE \E k \in Keys : DeleteMetadata(k)
  BY <1>3, SetLawful DEF DeleteMetadata
<1>4. CASE \E k \in Keys, v \in Values : AdjustCounter(k, v)
  BY <1>4, AdjustLawful
<1>5. CASE \E f \in Renames : RenameMetadata(f)
  BY <1>5, RenameLawful
<1>6. CASE \E k \in Keys, v \in Values, e \in Read : WriteVersionedMetadata(k, v, e)
  BY <1>6, VersionedLawful
<1>7. CASE \E k \in Keys, v \in Values, e \in Read, h \in Read : GuardedReplace(k, v, e, h)
  BY <1>7, GuardedReplaceLawful
<1>8. CASE \E k \in Keys : AppendStreamEntry(k)
  BY <1>8, AppendsLawful
<1>9. CASE \E k \in Keys, h \in Read : GuardedAppend(k, h)
  BY <1>9, AppendsLawful
<1>10. CASE \E k \in Keys, image \in Values \cup {None} : AdoptProtectedMetadata(k, image)
  BY <1>10, AdoptLawful
<1>11. CASE \E k, g \in Keys, image \in Values \cup {None}, h \in Read :
              BindRecordGuard(k, image, g, h)
  BY <1>11, BindLawful
<1>12. CASE \E k \in Keys, h \in Read, v \in Values : RetireRecordGuard(k, h, v)
  BY <1>12, RetireLawful
<1>13. CASE \E k \in Keys, h \in Read : AdmitRecordIoOwner(k, h)
  BY <1>13, AdmitLawful
<1> QED BY <1>1, <1>2, <1>3, <1>4, <1>5, <1>6, <1>7, <1>8, <1>9, <1>10, <1>11, <1>12, <1>13 DEF Next

LEMMA InitInv == Init => IndInv
<1> SUFFICES ASSUME Init PROVE IndInv
  OBVIOUS
<1>1. db \in Database
  BY CmAssumption DEF Init, Database, Policies, Plain, None
<1>2. /\ \A k \in Keys : /\ db.meta[k] = None /\ db.rev[k] = None /\ db.policy[k] = Plain
                        /\ db.binding[k] = None /\ db.retired[k] = None
      /\ db.alloc = 0
  BY DEF Init
<1>3. won = {} /\ handle \in [Keys -> Nat] /\ \A k \in Keys : handle[k] = 0
  BY DEF Init, None
<1>4. TypeOK /\ HistoryOK
  BY <1>1, <1>2, <1>3, CmAssumption DEF TypeOK, HistoryOK, None
<1>5. RevisionsNameImages /\ TrackedPaths /\ GuardsHold
  BY <1>2, <1>3 DEF RevisionsNameImages, TrackedPaths, GuardsHold, Protected
<1>6. OneWinner /\ OwnersStand
  BY <1>2, <1>3 DEF OneWinner, OwnersStand
<1> QED BY <1>4, <1>5, <1>6 DEF IndInv

\* The inductive invariant holds in every reachable state.
THEOREM RecordsInvariant == Spec => []IndInv
<1>1. IndInv /\ [Next]_vars => IndInv'
  <2>1. IndInv /\ Next => IndInv'
    BY StepLawful, LawfulInvariant
  <2>2. IndInv /\ UNCHANGED vars => IndInv'
    BY DEF vars, IndInv, TypeOK, HistoryOK, RevisionsNameImages, TrackedPaths, GuardsHold,
           OneWinner, OwnersStand, Protected
  <2> QED BY <2>1, <2>2
<1> QED BY InitInv, <1>1, PTL DEF Spec

\* write_versioned_in_txn: of all conditional writes and retirements that were
\* computed from one image, at most one commits.
THEOREM OneWinnerTheorem == Spec => []OneWinner
<1>1. IndInv => OneWinner
  BY DEF IndInv
<1> QED BY RecordsInvariant, <1>1, PTL

\* bind_record_guard, retire_record_guard: owners of records stand.
THEOREM OwnersTheorem == Spec => []OwnersStand
<1>1. IndInv => OwnersStand
  BY DEF IndInv
<1> QED BY RecordsInvariant, <1>1, PTL

\* retire_record_guard: no command changes a retired owner or a record of one.
THEOREM RetiredTheorem == Spec => RetiredIsFinal
<1> DEFINE A == \A k \in Keys :
       (db.retired[k] # None \/ (db.binding[k] # None /\ db.retired[db.binding[k]] # None))
       => /\ db'.meta[k] = db.meta[k] /\ db'.rev[k] = db.rev[k]
          /\ db'.binding[k] = db.binding[k] /\ db'.retired[k] = db.retired[k]
          /\ (db.binding[k] # None => db'.appends[k] = db.appends[k])
<1>1. IndInv /\ Next => A
  <2> SUFFICES ASSUME IndInv, Next, NEW k \in Keys,
                      db.retired[k] # None
                        \/ (db.binding[k] # None /\ db.retired[db.binding[k]] # None)
               PROVE  /\ db'.meta[k] = db.meta[k] /\ db'.rev[k] = db.rev[k]
                      /\ db'.binding[k] = db.binding[k] /\ db'.retired[k] = db.retired[k]
                      /\ (db.binding[k] # None => db'.appends[k] = db.appends[k])
    OBVIOUS
  <2>1. ~Free(k) /\ Lawful(db')
    BY StepLawful DEF Free
  <2> QED BY <2>1, LawfulFinal
<1>2. IndInv /\ [Next]_vars => [A]_vars
  BY <1>1
<1>3. RetiredIsFinal <=> [][A]_vars
  BY DEF RetiredIsFinal
<1> HIDE DEF A
<1> QED BY RecordsInvariant, <1>2, <1>3, PTL DEF Spec

\* guarded_record_refusal: nothing is written to a record under an older handle
\* than the last one.
THEOREM FenceTheorem == Spec => HandlesFence
<1> DEFINE A == \A k \in Keys : handle'[k] >= handle[k]
<1>1. IndInv /\ Next => A
  BY StepLawful, RecordedHandles
<1>2. IndInv /\ [Next]_vars => [A]_vars
  BY <1>1
<1>3. HandlesFence <=> [][A]_vars
  BY DEF HandlesFence
<1> HIDE DEF A
<1> QED BY RecordsInvariant, <1>2, <1>3, PTL DEF Spec

----------------------------------------------------------------------------
(* Refinement *)

\* A command without an answer that is lawful is a Change.
LEMMA ChangeStep ==
  ASSUME IndInv, Lawful(db'), answer' = NoAnswer
  PROVE  Versioned!Change
<1> DEFINE nv(k) == IF db'.meta[k] = None THEN None ELSE db'.rev[k]
<1>1. db \in Database /\ db' \in Database /\ MaxRevisions \in Nat
  BY CmAssumption DEF IndInv, TypeOK, Lawful, Sound
<1>2. /\ db.alloc \in Nat /\ db'.alloc \in Nat /\ db.rev \in [Keys -> Nat]
      /\ db'.rev \in [Keys -> Nat]
  BY <1>1, Fields
<1>3. \A k \in Keys : db'.rev[k] <= db'.alloc
  BY DEF Lawful, Sound
<1>4. db.alloc <= db'.alloc /\ db'.alloc <= MaxRevisions
  BY DEF Lawful
<1>5. ASSUME NEW k \in Keys PROVE Versioned!Follows(k)
  <2>1. \/ db'.meta[k] = db.meta[k] /\ db'.rev[k] = db.rev[k]
        \/ db'.meta[k] = None
        \/ db'.rev[k] > db.alloc
        \/ db'.rev[k] = None /\ db.rev[k] = None
    BY DEF Lawful, RowLaw
  <2>2. CASE db'.meta[k] = None
    BY <2>2 DEF Versioned!Follows, Versioned!Missing, Image, Version, None
  <2>3. CASE db'.meta[k] = db.meta[k] /\ db'.rev[k] = db.rev[k]
    BY <2>3 DEF Versioned!Follows, Image, Version
  <2>4. CASE db'.meta[k] # None /\ db'.rev[k] > db.alloc
    <3>1. db'.rev[k] \in (1 .. MaxRevisions) \ (1 .. db.alloc)
      BY <1>1, <1>2, <1>3, <1>4, <2>4
    <3> QED BY <2>4, <3>1 DEF Versioned!Follows, Image, Version
  <2>5. CASE db'.rev[k] = None /\ db.rev[k] = None
    BY <2>5 DEF Versioned!Follows, Image, Version, None
  <2> QED BY <2>1, <2>2, <2>3, <2>4, <2>5
<1>6. \A j, k \in Keys : j # k /\ nv(j) # 0 => nv(j) # nv(k)
  BY DEF Lawful, Sound, None
<1>7. \A k \in Keys : nv(k) \in (1 .. db'.alloc) \cup {0}
  BY <1>2, <1>3 DEF None
<1>8. 1 .. db.alloc \subseteq 1 .. db'.alloc
  BY <1>2, <1>4
<1> QED BY <1>5, <1>6, <1>7, <1>8
       DEF Versioned!Change, Versioned!NoAnswer, NoAnswer, Image, Version

\* A write that commits from the current image is a Commit.
LEMMA CommitStep ==
  ASSUME IndInv, NEW k \in Keys, NEW v \in Values, NEW e \in Nat,
         Version(k) = e, e = None => db.meta[k] = None,
         db'.alloc = db.alloc + 1, db.alloc + 1 <= MaxRevisions,
         db'.rev = [db.rev EXCEPT ![k] = db.alloc + 1],
         db'.meta = [db.meta EXCEPT ![k] = v],
         answer' = [kind |-> "committed", key |-> k,
                    image |-> [value |-> v, version |-> db.alloc + 1]]
  PROVE  Versioned!Commit(k, v, e)
<1> DEFINE r == db.alloc + 1
           old == [j \in Keys |-> Image(j)]
           new == [j \in Keys |-> Image(j)']
<1>1. /\ db.alloc \in Nat /\ db.rev \in [Keys -> Nat]
      /\ db.meta \in [Keys -> Values \cup {None}] /\ v # None /\ MaxRevisions \in Nat
  BY Fields, CmAssumption DEF IndInv, TypeOK
<1>2. r \in (1 .. MaxRevisions) \ (1 .. db.alloc)
  BY <1>1
<1>3. 1 .. db'.alloc = (1 .. db.alloc) \cup {r}
  BY <1>1
<1>4. new = [old EXCEPT ![k] = [value |-> v, version |-> r]]
  <2>1. ASSUME NEW j \in Keys
        PROVE  Image(j)' = IF j = k THEN [value |-> v, version |-> r] ELSE Image(j)
    BY <1>1 DEF Image, Version
  <2> QED BY <2>1
<1>5. old[k].version = e /\ (e = 0 => old[k] = Versioned!Missing)
  BY DEF Image, Version, Versioned!Missing, None
<1>6. new[k] = [value |-> v, version |-> r]
  BY <1>4
<1> HIDE DEF r, old, new
<1>7. /\ old[k].version = e /\ (e = 0 => old[k] = Versioned!Missing)
      /\ \E s \in (1 .. MaxRevisions) \ (1 .. db.alloc) :
           /\ new = [old EXCEPT ![k] = [value |-> v, version |-> s]]
           /\ 1 .. db'.alloc = (1 .. db.alloc) \cup {s}
           /\ answer' = [kind |-> "committed", key |-> k, image |-> new[k]]
  BY <1>2, <1>3, <1>4, <1>5, <1>6 DEF r
<1> QED BY <1>7 DEF Versioned!Commit, old, new

\* A conditional write is a Commit or a Conflict.
LEMMA WriteStep ==
  ASSUME IndInv, NEW k \in Keys, NEW v \in Values, NEW e \in Read,
         write_versioned(k, v, e)
  PROVE  Versioned!Commit(k, v, e) \/ Versioned!Conflict(k, e)
<1>1. CASE Version(k) = e
  <2> DEFINE d == [allocate_revision(db, k) EXCEPT !.meta[k] = v]
  <2>1. /\ db' = d /\ d.alloc <= MaxRevisions
        /\ answer' = [kind |-> "committed", key |-> k,
                      image |-> [value |-> v, version |-> d.rev[k]]]
        /\ db.meta[k] = None \/ db.rev[k] # None
    BY <1>1 DEF write_versioned, Eligible
  <2>2. /\ d.alloc = db.alloc + 1 /\ d.rev[k] = db.alloc + 1
        /\ d.rev = [db.rev EXCEPT ![k] = db.alloc + 1]
        /\ d.meta = [db.meta EXCEPT ![k] = v]
    BY WrittenFields
  <2> HIDE DEF d
  <2>3. e \in Nat /\ (e = None => db.meta[k] = None)
    BY <1>1, <2>1 DEF Version, Read
  <2> QED BY <1>1, <2>1, <2>2, <2>3, CommitStep
<1>2. CASE Version(k) # e
  <2>1. db' = db /\ answer' = [kind |-> "conflict", key |-> k, image |-> Image(k)]
    BY <1>2 DEF write_versioned
  <2>2. \A j \in Keys : Image(j)' = Image(j)
    BY <2>1 DEF Image, Version
  <2>3. Image(k).version # e
    BY <1>2 DEF Image
  <2>4. Versioned!Conflict(k, e)
    BY <2>1, <2>2, <2>3 DEF Versioned!Conflict
  <2> QED BY <2>4
<1> QED BY <1>1, <1>2

LEMMA ImagesInit == Init => Versioned!Init
<1> SUFFICES ASSUME Init PROVE Versioned!Init
  OBVIOUS
<1>1. /\ \A k \in Keys : db.meta[k] = None /\ db.rev[k] = None
      /\ db.alloc = 0 /\ answer = NoAnswer
  BY DEF Init
<1>2. [k \in Keys |-> Image(k)] = [k \in Keys |-> Versioned!Missing]
  BY <1>1 DEF Image, Version, Versioned!Missing, None
<1>3. 1 .. db.alloc = {}
  BY <1>1
<1> QED BY <1>1, <1>2, <1>3 DEF Versioned!Init, Versioned!NoAnswer, NoAnswer

LEMMA ImagesStep ==
  ASSUME IndInv, Next
  PROVE  Versioned!Next
<1>1. Lawful(db') /\ (answer' = NoAnswer => Versioned!Change)
  BY StepLawful, ChangeStep
<1>2. Read \subseteq (1 .. MaxRevisions) \cup {0}
  <2>1. db.alloc \in Nat /\ db.alloc <= MaxRevisions /\ MaxRevisions \in Nat
    BY Fields, CmAssumption DEF IndInv, TypeOK, HistoryOK
  <2> QED BY <2>1 DEF Read
<1>3. CASE \E k \in Keys, v \in Values, e \in Read : WriteVersionedMetadata(k, v, e)
  <2>1. PICK k \in Keys, v \in Values, e \in Read : write_versioned(k, v, e)
    BY <1>3 DEF WriteVersionedMetadata
  <2> QED BY <1>2, <2>1, WriteStep DEF Versioned!Next
<1>4. CASE \E k \in Keys, v \in Values, e \in Read, h \in Read : GuardedReplace(k, v, e, h)
  <2>1. PICK k \in Keys, v \in Values, e \in Read : write_versioned(k, v, e)
    BY <1>4 DEF GuardedReplace
  <2> QED BY <1>2, <2>1, WriteStep DEF Versioned!Next
<1>5. CASE \E k \in Keys, h \in Read, v \in Values : RetireRecordGuard(k, h, v)
  <2>1. PICK k \in Keys, h \in Read, v \in Values : RetireRecordGuard(k, h, v)
    BY <1>5
  <2>2. /\ h = db.rev[k] /\ h # None /\ db.meta[k] # None
        /\ db'.alloc = db.alloc + 1 /\ db'.rev = [db.rev EXCEPT ![k] = db.alloc + 1]
        /\ db'.meta = [db.meta EXCEPT ![k] = v]
        /\ answer' = [kind |-> "committed", key |-> k,
                      image |-> [value |-> v, version |-> db.alloc + 1]]
    BY <2>1, RetireLawful
  <2>3. db.alloc + 1 <= MaxRevisions /\ Version(k) = h /\ h \in Nat
    BY <1>1, <2>2 DEF Lawful, Version, Read
  <2>4. Versioned!Commit(k, v, h)
    BY <2>2, <2>3, CommitStep
  <2> QED BY <1>2, <2>4 DEF Versioned!Next
<1>6. CASE answer' = NoAnswer
  BY <1>1, <1>6 DEF Versioned!Next
<1>7. \/ answer' = NoAnswer
      \/ \E k \in Keys, v \in Values, e \in Read : WriteVersionedMetadata(k, v, e)
      \/ \E k \in Keys, v \in Values, e \in Read, h \in Read : GuardedReplace(k, v, e, h)
      \/ \E k \in Keys, h \in Read, v \in Values : RetireRecordGuard(k, h, v)
  BY DEF Next, Becomes, SetMetadata, CasSetMetadata, DeleteMetadata, AdjustCounter,
         RenameMetadata, AppendStreamEntry, GuardedAppend, AdoptProtectedMetadata,
         BindRecordGuard, AdmitRecordIoOwner
<1> QED BY <1>3, <1>4, <1>5, <1>6, <1>7

\* The tables, policies, bindings and renames implement versioned images: a
\* conditional write commits exactly when its caller's revision is that of the
\* current image, and no revision ever names a second image.
THEOREM ImagesTheorem == Spec => ImplementsVersionedImages
<1>1. IndInv /\ [Next]_vars => [Versioned!Next]_(Versioned!vars)
  <2>1. IndInv /\ Next => Versioned!Next
    BY ImagesStep
  <2>2. UNCHANGED vars => UNCHANGED Versioned!vars
    BY DEF vars, Versioned!vars, Image, Version
  <2> QED BY <2>1, <2>2
<1> QED BY RecordsInvariant, ImagesInit, <1>1, PTL
       DEF Spec, ImplementsVersionedImages, Versioned!Spec

----------------------------------------------------------------------------
(* Proposals *)

\* The initial state has no call and no attempt.
LEMMA ProposalsInit == ProposalInit => ProposalInv
  BY DEF ProposalInit, ProposalInv, ProposalTypeOK, CallState, Request, Entry,
     Waiter, AtMostOnce,
         OneAttempt, NoAttempt, HomeKnown, Committed, UnderWay

\* propose() starts the first attempt of a call.
LEMMA ProposeInv ==
  ASSUME ProposalInv, NEW c \in Calls, NEW n \in Nodes, Propose(c, n)
  PROVE  ProposalInv'
<1>1. ProposalTypeOK'
  <2> DEFINE x == [st |-> IF hint[n] = n THEN "waiting" ELSE "forward", home |-> n, answer |-> 0]
  <2>1. x \in CallState /\ [call |-> c, node |-> n] \in Request
    BY DEF CallState, Request
  <2>2. call' = [call EXCEPT ![c] = x]
    BY DEF Propose
  <2> HIDE DEF x
  <2>3. call' \in [Calls -> CallState]
    BY <2>1, <2>2 DEF ProposalInv, ProposalTypeOK
  <2>4. queue' \subseteq Request
    BY <2>1 DEF ProposalInv, ProposalTypeOK, Propose
  <2> QED BY <2>3, <2>4 DEF ProposalInv, ProposalTypeOK, Propose, logVars, roleVars
<1> USE DEF ProposalInv, Propose, callVars, logVars, roleVars
<1>2. HomeKnown'
  BY DEF HomeKnown, ProposalTypeOK, CallState
<1>3. AtMostOnce'
  BY DEF AtMostOnce, ProposalTypeOK
<1>4. OneAttempt'
  BY DEF OneAttempt, NoAttempt, UnderWay, Committed, ProposalTypeOK,
     CallState, Request, Entry, HomeKnown
<1>5. NoAttempt'
  BY DEF NoAttempt, OneAttempt, UnderWay, Committed, ProposalTypeOK,
     CallState, Request, Entry, HomeKnown
<1> QED BY <1>1, <1>2, <1>3, <1>4, <1>5

\* A call is forwarded only between attempts.
LEMMA ForwardInv ==
  ASSUME ProposalInv, NEW c \in Calls, ForwardOnce(c)
  PROVE  ProposalInv'
<1> DEFINE home == call[c].home
           req  == [call |-> c, node |-> hint[home]]
<1> USE DEF ProposalInv, SetCall, logVars, roleVars
<1>1. /\ call[c].st = "forward"
      /\ call' = [call EXCEPT ![c].st = "waiting"]
      /\ \/ queue' = queue \cup {req} /\ net' = net
         \/ net' = net \cup {req} /\ queue' = queue
      /\ hint[home] # NoNode
      /\ UNCHANGED <<nextId, pending, tail, log, done, led, hint, elections, crashes>>
  BY DEF ForwardOnce
<1>2. home \in Nodes /\ req \in Request /\ req.call = c
  BY <1>1 DEF ProposalTypeOK, HomeKnown, Request
<1>3. Committed(c) = {} /\ ~UnderWay(c)
  BY <1>1 DEF NoAttempt
<1> HIDE DEF req, home
<1>4. ProposalTypeOK'
  BY <1>1, <1>2 DEF ProposalTypeOK, CallState
<1>5. HomeKnown'
  BY <1>1 DEF HomeKnown, ProposalTypeOK, CallState
<1>6. AtMostOnce'
  BY <1>1 DEF AtMostOnce
<1>7. OneAttempt'
  BY <1>1, <1>2, <1>3 DEF OneAttempt, UnderWay, Committed, ProposalTypeOK
<1>8. NoAttempt'
  BY <1>1, <1>2 DEF NoAttempt, UnderWay, Committed, ProposalTypeOK, CallState
<1> QED BY <1>4, <1>5, <1>6, <1>7, <1>8

\* A deadline ends a call and leaves its attempt alone.
LEMMA DeadlineInv ==
  ASSUME ProposalInv, NEW c \in Calls, Deadline(c)
  PROVE  ProposalInv'
<1> USE DEF ProposalInv, Deadline, SetCall, OutcomeAtDeadline, callVars,
       logVars, roleVars
<1>1. ProposalTypeOK'
  BY DEF ProposalTypeOK, CallState, Request, Entry, Waiter, HomeKnown
<1>2. HomeKnown'
  BY DEF HomeKnown, ProposalTypeOK, CallState
<1>3. AtMostOnce'
  BY DEF AtMostOnce, ProposalTypeOK
<1>4. OneAttempt'
  BY DEF OneAttempt, NoAttempt, UnderWay, Committed, ProposalTypeOK,
     CallState, Request, Entry, HomeKnown
<1>5. NoAttempt'
  BY DEF NoAttempt, OneAttempt, UnderWay, Committed, ProposalTypeOK,
     CallState, Request, Entry, HomeKnown
<1> QED BY <1>1, <1>2, <1>3, <1>4, <1>5

\* A lost answer ends a call and leaves its attempt alone.
LEMMA LoseAnswerInv ==
  ASSUME ProposalInv, NEW c \in Calls, LoseAnswer(c)
  PROVE  ProposalInv'
<1> USE DEF ProposalInv, LoseAnswer, SetCall, AfterLostAnswer, callVars,
       logVars, roleVars
<1>1. ProposalTypeOK'
  BY DEF ProposalTypeOK, CallState, Request, Entry, Waiter, HomeKnown
<1>2. HomeKnown'
  BY DEF HomeKnown, ProposalTypeOK, CallState
<1>3. AtMostOnce'
  BY DEF AtMostOnce, ProposalTypeOK
<1>4. OneAttempt'
  BY DEF OneAttempt, NoAttempt, UnderWay, Committed, ProposalTypeOK,
     CallState, Request, Entry, HomeKnown
<1>5. NoAttempt'
  BY DEF NoAttempt, OneAttempt, UnderWay, Committed, ProposalTypeOK,
     CallState, Request, Entry, HomeKnown
<1> QED BY <1>1, <1>2, <1>3, <1>4, <1>5

\* A refusal sends a waiting caller, and no other, back to "forward".
LEMMA RefuseFacts ==
  ASSUME ProposalTypeOK, HomeKnown, NEW c \in Calls, call' = Refuse(c)
  PROVE  /\ call' \in [Calls -> CallState]
         /\ HomeKnown'
         /\ \A d \in Calls \ {c} : call'[d] = call[d]
         /\ call[c].st # "waiting" => call'[c] = call[c]
<1>1. CASE call[c].st = "waiting"
  BY <1>1 DEF ProposalTypeOK, HomeKnown, Refuse, SetCall, CallState
<1>2. CASE call[c].st # "waiting"
  BY <1>2 DEF ProposalTypeOK, HomeKnown, Refuse
<1> QED BY <1>1, <1>2

\* Dropping requests or entries creates no attempt.
LEMMA FewerAttempts ==
  ASSUME OneAttempt, net' \subseteq net, queue' \subseteq queue,
         tail' \subseteq tail, log' = log
  PROVE  /\ OneAttempt'
         /\ \A c \in Calls : /\ Committed(c)' = Committed(c)
                             /\ ~UnderWay(c) => ~UnderWay(c)'
  BY DEF OneAttempt, UnderWay, Committed

\* A refused request is gone, and with it the only attempt of its call.
LEMMA RefusedGone ==
  ASSUME ProposalInv, NEW r \in Request, r \in net \cup queue,
         net' = net \ {r}, queue' = queue \ {r}, tail' = tail, log' = log,
         call' = Refuse(r.call)
  PROVE  OneAttempt' /\ NoAttempt' /\ HomeKnown' /\ call' \in [Calls -> CallState]
<1> DEFINE c == r.call
<1>1. c \in Calls
  BY DEF Request
<1>2. Committed(c)' = {} /\ ~UnderWay(c)'
  BY DEF ProposalInv, OneAttempt, UnderWay, Committed
<1>3. /\ call' \in [Calls -> CallState]
      /\ HomeKnown'
      /\ \A d \in Calls \ {c} : call'[d] = call[d]
  BY <1>1, RefuseFacts DEF ProposalInv
<1>4. /\ OneAttempt'
      /\ \A d \in Calls : /\ Committed(d)' = Committed(d)
                          /\ ~UnderWay(d) => ~UnderWay(d)'
  BY FewerAttempts DEF ProposalInv
<1> HIDE DEF c
<1>5. NoAttempt'
  BY <1>1, <1>2, <1>3, <1>4 DEF NoAttempt, ProposalInv
<1> QED BY <1>3, <1>4, <1>5

\* A forwarded request becomes a queued one, or is refused and gone.
LEMMA ServeInv ==
  ASSUME ProposalInv, NEW r \in net, Serve(r)
  PROVE  ProposalInv'
<1> USE DEF ProposalInv, logVars, roleVars
<1>0. /\ r \in Request /\ net' = net \ {r}
      /\ UNCHANGED <<nextId, pending, tail, log, done, led, hint, elections, crashes>>
  BY DEF Serve, ProposalTypeOK
<1>1. AtMostOnce'
  BY <1>0 DEF AtMostOnce
<1>2. CASE hint[r.node] = r.node
  <2>1. queue' = queue \cup {r} /\ call' = call
    BY <1>2 DEF Serve
  <2>2. ProposalTypeOK' /\ HomeKnown'
    BY <1>0, <2>1 DEF ProposalTypeOK, HomeKnown
  <2>3. net' \cup queue' = net \cup queue
    BY <1>0, <2>1
  <2>4. OneAttempt'
    BY <1>0, <2>1, <2>3 DEF OneAttempt, UnderWay
  <2>5. NoAttempt'
    BY <1>0, <2>1, <2>3 DEF NoAttempt, UnderWay, Committed
  <2> QED BY <1>1, <2>2, <2>4, <2>5
<1>3. CASE hint[r.node] # r.node
  <2>1. queue' = queue /\ call' = Refuse(r.call)
    BY <1>3 DEF Serve
  <2>2. queue' = queue \ {r}
    BY <2>1 DEF OneAttempt
  <2>3. OneAttempt' /\ NoAttempt' /\ HomeKnown' /\ call' \in [Calls -> CallState]
    BY <1>0, <2>1, <2>2, RefusedGone
  <2>4. ProposalTypeOK'
    BY <1>0, <2>1, <2>3 DEF ProposalTypeOK
  <2> QED BY <1>1, <2>3, <2>4
<1> QED BY <1>2, <1>3

\* A queued proposal that is refused is gone.
LEMMA RefuseQueuedInv ==
  ASSUME ProposalInv, NEW r \in queue, RefuseQueued(r)
  PROVE  ProposalInv'
<1> USE DEF ProposalInv, logVars
<1>1. /\ r \in Request /\ queue' = queue \ {r} /\ call' = Refuse(r.call)
      /\ hint' = [hint EXCEPT ![r.node] = led[r.node]]
      /\ UNCHANGED <<net, nextId, pending, tail, log, done, led, elections, crashes>>
  BY DEF RefuseQueued, ProposalTypeOK
<1>2. net' = net \ {r}
  BY <1>1 DEF OneAttempt
<1>3. OneAttempt' /\ NoAttempt' /\ HomeKnown' /\ call' \in [Calls -> CallState]
  BY <1>1, <1>2, RefusedGone
<1>4. ProposalTypeOK'
  BY <1>1, <1>3 DEF ProposalTypeOK, Request
<1>5. AtMostOnce'
  BY <1>1 DEF AtMostOnce
<1> QED BY <1>3, <1>4, <1>5

\* A queued proposal becomes one entry.
LEMMA ProposalsSubmit ==
  ASSUME ProposalInv, NEW r \in queue, Submit(r)
  PROVE  ProposalInv'
<1> USE DEF ProposalInv, Submit, callVars, logVars, roleVars
<1>1. ProposalTypeOK'
  BY DEF ProposalTypeOK, CallState, Request, Entry, Waiter, HomeKnown
<1>2. HomeKnown'
  BY DEF HomeKnown, ProposalTypeOK, CallState
<1>3. AtMostOnce'
  BY DEF AtMostOnce, ProposalTypeOK
<1>4. OneAttempt'
  BY DEF OneAttempt, NoAttempt, UnderWay, Committed, ProposalTypeOK,
     CallState, Request, Entry, HomeKnown
<1>5. NoAttempt'
  BY DEF NoAttempt, OneAttempt, UnderWay, Committed, ProposalTypeOK,
     CallState, Request, Entry, HomeKnown
<1> QED BY <1>1, <1>2, <1>3, <1>4, <1>5

\* Answers end calls and touch no attempt.
LEMMA ApplyEntryInv ==
  ASSUME ProposalInv, NEW n \in Nodes, ApplyEntry(n)
  PROVE  ProposalInv'
<1> USE DEF ProposalInv, logVars, roleVars
<1>0. /\ done[n] + 1 \in Nat
      /\ done' = [done EXCEPT ![n] = done[n] + 1]
      /\ pending' \subseteq pending
      /\ UNCHANGED <<net, queue, nextId, tail, log, led, hint, elections, crashes>>
  <2>1. done[n] + 1 \in Nat
    BY DEF ProposalTypeOK
  <2>2. pending' = pending \ Waiting(n, log[done[n] + 1])
    BY DEF ApplyEntry
  <2>3. /\ done' = [done EXCEPT ![n] = done[n] + 1]
        /\ UNCHANGED <<net, queue, nextId, tail, log, led, hint, elections, crashes>>
    BY DEF ApplyEntry
  <2> QED BY <2>1, <2>2, <2>3
<1>1. call' \in [Calls -> CallState]
  <2>1. PICK A : call' = [c \in Calls |->
           IF c \in A /\ call[c].st = "waiting"
           THEN [call[c] EXCEPT !.st = "ok", !.answer = done[n] + 1] ELSE call[c]]
    BY DEF ApplyEntry
  <2>2. \A c \in Calls : [call[c] EXCEPT !.st = "ok", !.answer = done[n] + 1] \in CallState
    BY <1>0 DEF ProposalTypeOK, CallState
  <2> QED BY <2>1, <2>2 DEF ProposalTypeOK
<1>2. \A c \in Calls :
        /\ call'[c].home = call[c].home
        /\ call'[c].st = call[c].st \/ (call[c].st = "waiting" /\ call'[c].st = "ok")
  BY DEF ApplyEntry, ProposalTypeOK, CallState
<1>3. ProposalTypeOK' /\ HomeKnown'
  BY <1>0, <1>1, <1>2 DEF ProposalTypeOK, HomeKnown
<1>4. AtMostOnce' /\ OneAttempt'
  BY <1>0 DEF AtMostOnce, OneAttempt, UnderWay
<1>5. NoAttempt'
  BY <1>0, <1>2 DEF NoAttempt, UnderWay, Committed
<1> QED BY <1>3, <1>4, <1>5

\* An entry leaves the tail for the log.
LEMMA ProposalsCommit ==
  ASSUME ProposalInv, NEW e \in tail, Commit(e)
  PROVE  ProposalInv'
<1> USE DEF ProposalInv, callVars, roleVars
<1>1. /\ e \in Entry /\ log \in Seq(Entry)
      /\ tail' = tail \ {e} /\ log' = Append(log, e)
      /\ UNCHANGED <<call, net, queue, nextId, pending, done, led, hint, elections, crashes>>
  BY DEF Commit, ProposalTypeOK
<1>2. /\ log' \in Seq(Entry)
      /\ DOMAIN log' = DOMAIN log \cup {Len(log) + 1}
      /\ \A i \in DOMAIN log : log'[i] = log[i]
      /\ log'[Len(log) + 1] = e
      /\ Len(log) + 1 \notin DOMAIN log
  BY <1>1
<1>3. ProposalTypeOK' /\ HomeKnown'
  BY <1>1, <1>2 DEF ProposalTypeOK, HomeKnown
<1>4. \A i \in DOMAIN log : log[i].call # e.call
  BY DEF OneAttempt, UnderWay
<1>5. AtMostOnce'
  BY <1>2, <1>4 DEF AtMostOnce
<1>6. ~UnderWay(e.call)'
  BY <1>1 DEF OneAttempt, UnderWay
<1>7. OneAttempt'
  BY <1>1, <1>2, <1>6 DEF OneAttempt, UnderWay
<1>8. NoAttempt'
  <2> SUFFICES ASSUME NEW c \in Calls, call[c].st \in {"idle", "forward", "refused"}
               PROVE  (Committed(c) = {} /\ ~UnderWay(c))'
    BY <1>1 DEF NoAttempt
  <2>1. Committed(c) = {} /\ ~UnderWay(c)
    BY DEF NoAttempt
  <2>2. c # e.call
    BY <2>1 DEF UnderWay
  <2> QED BY <1>1, <1>2, <2>1, <2>2 DEF Committed, UnderWay
<1> QED BY <1>3, <1>5, <1>7, <1>8

\* An entry that is lost is an attempt less.
LEMMA LoseInv ==
  ASSUME ProposalInv, NEW e \in tail, Lose(e)
  PROVE  ProposalInv'
<1> USE DEF ProposalInv, Lose, callVars, logVars, roleVars
<1>1. ProposalTypeOK'
  BY DEF ProposalTypeOK, CallState, Request, Entry, Waiter, HomeKnown
<1>2. HomeKnown'
  BY DEF HomeKnown, ProposalTypeOK, CallState
<1>3. AtMostOnce'
  BY DEF AtMostOnce, ProposalTypeOK
<1>4. OneAttempt'
  BY DEF OneAttempt, NoAttempt, UnderWay, Committed, ProposalTypeOK,
     CallState, Request, Entry, HomeKnown
<1>5. NoAttempt'
  BY DEF NoAttempt, OneAttempt, UnderWay, Committed, ProposalTypeOK,
     CallState, Request, Entry, HomeKnown
<1> QED BY <1>1, <1>2, <1>3, <1>4, <1>5

\* A crash ends calls and drops attempts.
LEMMA ProposalsCrash ==
  ASSUME ProposalInv, NEW n \in Nodes, Crash(n)
  PROVE  ProposalInv'
<1> USE DEF ProposalInv, logVars
<1>1. PICK i \in 0 .. done[n] : done' = [done EXCEPT ![n] = i]
  BY DEF Crash
<1>2. /\ net' \subseteq net /\ queue' \subseteq queue /\ pending' \subseteq pending
      /\ nextId' = [nextId EXCEPT ![n] = 0]
      /\ led' = [led EXCEPT ![n] = NoNode] /\ hint' = [hint EXCEPT ![n] = NoNode]
      /\ crashes' = crashes + 1
      /\ UNCHANGED <<tail, log, elections>>
  BY DEF Crash
<1>0. call' \in [Calls -> CallState]
  <2>1. \A c \in Calls : [call[c] EXCEPT !.st = "unknown"] \in CallState
    BY DEF ProposalTypeOK, CallState
  <2> QED BY <2>1 DEF Crash, ProposalTypeOK
<1>3. \A c \in Calls :
        /\ call'[c].home = call[c].home
        /\ call'[c].st = call[c].st \/ (call[c].st # "idle" /\ call'[c].st = "unknown")
  BY DEF Crash, ProposalTypeOK, CallState
<1>4. ProposalTypeOK' /\ HomeKnown'
  <2>1. done' \in [Nodes -> Nat]
    BY <1>1 DEF ProposalTypeOK
  <2>2. nextId' \in [Nodes -> Nat] /\ crashes' \in Nat
    BY <1>2 DEF ProposalTypeOK
  <2>3. /\ led' \in [Nodes -> Nodes \cup {NoNode}]
        /\ hint' \in [Nodes -> Nodes \cup {NoNode}]
    BY <1>2 DEF ProposalTypeOK
  <2>4. ProposalTypeOK'
    BY <1>0, <1>2, <2>1, <2>2, <2>3 DEF ProposalTypeOK
  <2> QED BY <1>3, <2>4 DEF HomeKnown
<1>5. AtMostOnce'
  BY <1>2 DEF AtMostOnce
<1>6. /\ OneAttempt'
      /\ \A c \in Calls : /\ Committed(c)' = Committed(c)
                          /\ ~UnderWay(c) => ~UnderWay(c)'
  BY <1>2, FewerAttempts
<1>7. NoAttempt'
  BY <1>3, <1>6 DEF NoAttempt
<1> QED BY <1>4, <1>5, <1>6, <1>7

\* Elections and what nodes hear of them touch no attempt.
LEMMA RoleInv ==
  ASSUME ProposalInv, NEW n \in Nodes, NEW m \in Nodes \cup {NoNode},
         Elect(n) \/ Follow(n, m) \/ update_cached_status(n)
  PROVE  ProposalInv'
<1> USE DEF ProposalInv, callVars, logVars, Elect, Follow,
       update_cached_status
<1>1. UNCHANGED <<call, net, queue, nextId, pending, tail, log, done, crashes>>
  OBVIOUS
<1>2. ProposalTypeOK'
  <2>1. CASE Elect(n)
    BY <1>1, <2>1 DEF ProposalTypeOK
  <2>2. CASE Follow(n, m)
    BY <1>1, <2>2 DEF ProposalTypeOK
  <2>3. CASE update_cached_status(n)
    BY <1>1, <2>3 DEF ProposalTypeOK
  <2> QED BY <2>1, <2>2, <2>3
<1>3. HomeKnown' /\ AtMostOnce' /\ OneAttempt' /\ NoAttempt'
  BY <1>1 DEF HomeKnown, AtMostOnce, OneAttempt, NoAttempt, UnderWay,
     Committed
<1> QED BY <1>2, <1>3

\* Every step keeps the invariant.
LEMMA ProposalsStep == ProposalInv /\ [ProposalNext]_proposalVars => ProposalInv'
<1> SUFFICES ASSUME ProposalInv, [ProposalNext]_proposalVars PROVE ProposalInv'
  OBVIOUS
<1>1. CASE UNCHANGED proposalVars
  BY <1>1 DEF proposalVars, callVars, logVars, roleVars, ProposalInv, ProposalTypeOK,
     HomeKnown,
     AtMostOnce, OneAttempt, NoAttempt, UnderWay, Committed
<1>2. ASSUME NEW c \in Calls, NEW n \in Nodes, Propose(c, n) PROVE ProposalInv'
  BY <1>2, ProposeInv
<1>3. ASSUME NEW c \in Calls, ForwardOnce(c) PROVE ProposalInv'
  BY <1>3, ForwardInv
<1>4. ASSUME NEW c \in Calls, Deadline(c) PROVE ProposalInv'
  BY <1>4, DeadlineInv
<1>5. ASSUME NEW c \in Calls, LoseAnswer(c) PROVE ProposalInv'
  BY <1>5, LoseAnswerInv
<1>6. ASSUME NEW r \in net, Serve(r) PROVE ProposalInv'
  BY <1>6, ServeInv
<1>7. ASSUME NEW r \in queue, RefuseQueued(r) PROVE ProposalInv'
  BY <1>7, RefuseQueuedInv
<1>8. ASSUME NEW r \in queue, Submit(r) PROVE ProposalInv'
  BY <1>8, ProposalsSubmit
<1>9. ASSUME NEW n \in Nodes, ApplyEntry(n) PROVE ProposalInv'
  BY <1>9, ApplyEntryInv
<1>10. ASSUME NEW e \in tail, Commit(e) PROVE ProposalInv'
  BY <1>10, ProposalsCommit
<1>11. ASSUME NEW e \in tail, Lose(e) PROVE ProposalInv'
  BY <1>11, LoseInv
<1>12. ASSUME NEW n \in Nodes, NEW m \in Nodes \cup {NoNode},
              Elect(n) \/ Follow(n, m) \/ update_cached_status(n) PROVE ProposalInv'
  BY <1>12, RoleInv
<1>13. ASSUME NEW n \in Nodes, Crash(n) PROVE ProposalInv'
  BY <1>13, ProposalsCrash
<1> QED
  BY <1>1, <1>2, <1>3, <1>4, <1>5, <1>6, <1>7, <1>8, <1>9, <1>10, <1>11, <1>12,
     <1>13 DEF ProposalNext

\* The path of a proposal keeps its inductive invariant.
THEOREM ProposalsInvariant == ProposalSpec => []ProposalInv
  BY ProposalsInit, ProposalsStep, PTL DEF ProposalSpec

\* propose(), retry_leader_refusals and the forwarding RPC never get a command
\* committed twice, in a zone of any size.
THEOREM AtMostOnceTheorem == ProposalSpec => []AtMostOnce
<1>1. ProposalInv => AtMostOnce
  BY DEF ProposalInv
<1> QED BY <1>1, ProposalsInvariant, PTL

\* A call that ends with NotLeader has left nothing behind that could still
\* be committed.
THEOREM RefusalTheorem == ProposalSpec => []RefusalIsDefinite
<1>1. ProposalInv => RefusalIsDefinite
  BY DEF ProposalInv, NoAttempt, RefusalIsDefinite
<1> QED BY <1>1, ProposalsInvariant, PTL
=============================================================================
