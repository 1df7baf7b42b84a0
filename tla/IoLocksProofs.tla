---------------------------- MODULE IoLocksProofs ----------------------------
(***************************************************************************)
(* For any tree of paths, any calls and any number of threads: a writer is *)
(* alone on its subtree and the table is exactly the live handles; and     *)
(* where the order of strings follows the tree and no call asks for two    *)
(* related paths, threads never wait in a circle.                          *)
(***************************************************************************)
EXTENDS IoLocks, TLAPS, FiniteSetTheorems

\* A handle is not the mark of an unlocked path.
LEMMA HandleIsSomebody == \A t, n : <<t, n>> # NoHandle
  BY DEF NoHandle

\* What sorting returns are the requests of the call, each in one place.
LEMMA SortedCalls ==
  ASSUME NEW c \in Calls, NEW s \in Sorted(c)
  PROVE  /\ s \in Seq(Request) /\ s # <<>> /\ IsSorted(s)
         /\ \E f \in Bijection(DOMAIN c, DOMAIN c) : s = [i \in DOMAIN c |-> c[f[i]]]
<1>1. PICK f \in Bijection(DOMAIN c, DOMAIN c) : s = [i \in DOMAIN c |-> c[f[i]]]
  BY DEF Sorted
<1>2. c \in Seq(Request) /\ c # <<>>
  BY IoAssumption
<1>3. f \in [1 .. Len(c) -> 1 .. Len(c)]
  BY <1>2 DEF Bijection, Injection
<1>4. s \in [1 .. Len(c) -> Request] /\ Len(c) \in Nat /\ Len(c) # 0
  BY <1>1, <1>2, <1>3
<1>5. s \in Seq(Request) /\ s # <<>>
  BY <1>4
<1> QED BY <1>1, <1>5 DEF Sorted

\* The readers and the writers of a path, as the handles have them.
Holding(p, m) == {h \in DOMAIN handles : handles[h] = [path |-> p, mode |-> m]}

LEMMA HoldingFinite ==
  ASSUME TypeOK, NEW p, NEW m
  PROVE  IsFiniteSet(Holding(p, m)) /\ Cardinality(Holding(p, m)) \in Nat
<1>1. Holding(p, m) \in SUBSET DOMAIN handles
  BY DEF Holding
<1> QED BY <1>1, FS_Subset, FS_CardinalityType DEF TypeOK

\* A handle on a path conflicts with a request of the other kind on it.
LEMMA HandleConflicts ==
  ASSUME IndInv, NEW h \in DOMAIN handles, NEW m \in {"read", "write"},
         "write" \in {m, handles[h].mode}
  PROVE  EntryConflict(handles[h].path, m)
<1> DEFINE p == handles[h].path
<1>1. handles[h] \in Request /\ p \in Paths
  BY DEF IndInv, TypeOK, Request
<1>2. CASE handles[h].mode = "write"
  <2>1. h \in {g \in DOMAIN handles : handles[g] = [path |-> p, mode |-> "write"]}
    BY <1>1, <1>2 DEF Request
  <2>2. locks[p].io_writer = h /\ h # NoHandle
    BY <1>1, <2>1 DEF IndInv, EntriesMatchHandles
  <2> QED BY <2>2 DEF EntryConflict
<1>3. CASE handles[h].mode = "read"
  <2>1. h \in Holding(p, "read")
    BY <1>1, <1>3 DEF Request, Holding
  <2>2. Cardinality(Holding(p, "read")) > 0
    BY <2>1, HoldingFinite, FS_EmptySet DEF IndInv
  <2>3. locks[p].io_readers > 0
    BY <1>1, <2>2 DEF IndInv, EntriesMatchHandles, Holding
  <2> QED BY <1>3, <2>3 DEF EntryConflict
<1> QED BY <1>1, <1>2, <1>3 DEF Request

----------------------------------------------------------------------------
(* The table *)

LEMMA InitInv == Init => IndInv
<1> SUFFICES ASSUME Init PROVE IndInv
  OBVIOUS
<1>1. DOMAIN handles = {} /\ handles \in [{} -> Request]
  BY DEF Init
<1>2. TypeOK
  <2>1. <<>> \in Seq(Request)
    OBVIOUS
  <2> QED BY <1>1, <2>1, FS_EmptySet DEF Init, TypeOK, Unlocked, NoHandle, Trying
<1>3. HandlesOfCalls /\ WritersAreAlone
  BY <1>1 DEF Init, HandlesOfCalls, WritersAreAlone, Trying
<1>4. EntriesMatchHandles
  <2> SUFFICES ASSUME NEW p \in Paths
               PROVE  /\ locks[p].io_readers = Cardinality(Holding(p, "read"))
                      /\ Holding(p, "write") = {locks[p].io_writer} \ {NoHandle}
    BY DEF EntriesMatchHandles, Holding
  <2>1. Holding(p, "read") = {} /\ Holding(p, "write") = {}
    BY <1>1 DEF Holding
  <2> QED BY <2>1, FS_EmptySet DEF Init, Unlocked
<1> QED BY <1>2, <1>3, <1>4 DEF IndInv

\* try_acquire_io_locked succeeds: the table and the handles stay in step, and
\* no live handle conflicts with the new one.
LEMMA GrantedKeepsTable ==
  ASSUME IndInv, NEW t \in Threads, pc[t] \in Trying, Granted(t)
  PROVE  /\ EntriesMatchHandles' /\ WritersAreAlone'
         /\ handles' \in [DOMAIN handles' -> Request]
         /\ DOMAIN handles' = DOMAIN handles \cup {<<t, at[t]>>}
         /\ IsFiniteSet(DOMAIN handles')
         /\ handles'[<<t, at[t]>>] = Wanted(t)
         /\ \A g \in DOMAIN handles : g # <<t, at[t]>> /\ handles'[g] = handles[g]
         /\ locks' \in [Paths -> [io_readers : Nat, io_writer : {NoHandle} \cup (Threads \X Nat)]]
<1> DEFINE r == Wanted(t)
           h == <<t, at[t]>>
<1>1. r \in Request /\ h \in Threads \X Nat /\ h # NoHandle
  BY HandleIsSomebody DEF IndInv, TypeOK, HandlesOfCalls, Wanted
<1>2. r.path \in Paths /\ r.mode \in {"read", "write"} /\ r = [path |-> r.path, mode |-> r.mode]
  BY <1>1 DEF Request
<1>3. h \notin DOMAIN handles
  <2> SUFFICES ASSUME h \in DOMAIN handles PROVE FALSE
    OBVIOUS
  <2>1. h[1] = t /\ h[2] = at[t]
    OBVIOUS
  <2>2. at[t] < at[t]
    BY <2>1 DEF IndInv, HandlesOfCalls
  <2> QED BY <2>2 DEF IndInv, TypeOK
<1>4. /\ ~Conflict(r)
      /\ locks' = [locks EXCEPT ![r.path] = With(locks[r.path], r, h)]
      /\ handles' = [g \in DOMAIN handles \cup {h} |-> IF g = h THEN r ELSE handles[g]]
  BY DEF Granted
<1> HIDE DEF r, h
<1>5. /\ DOMAIN handles' = DOMAIN handles \cup {h} /\ handles'[h] = r
      /\ \A g \in DOMAIN handles : g # h /\ handles'[g] = handles[g]
  BY <1>3, <1>4
<1>6. handles' \in [DOMAIN handles' -> Request] /\ IsFiniteSet(DOMAIN handles')
  BY <1>1, <1>4, <1>5, FS_AddElement DEF IndInv, TypeOK
<1>7. locks' \in [Paths -> [io_readers : Nat, io_writer : {NoHandle} \cup (Threads \X Nat)]]
  BY <1>1, <1>2, <1>4 DEF IndInv, TypeOK, With
<1>8. WritersAreAlone'
  <2> SUFFICES ASSUME NEW a \in DOMAIN handles', NEW b \in DOMAIN handles', a # b,
                      handles'[a].mode = "write", Related(handles'[a].path, handles'[b].path)
               PROVE  FALSE
    BY DEF WritersAreAlone, Related
  <2>1. CASE a \in DOMAIN handles /\ b \in DOMAIN handles
    BY <1>5, <2>1 DEF IndInv, WritersAreAlone
  <2>2. ASSUME NEW g \in DOMAIN handles, "write" \in {r.mode, handles[g].mode},
               Related(handles[g].path, r.path)
        PROVE  FALSE
    <3>1. EntryConflict(handles[g].path, r.mode)
      BY <1>2, <2>2, HandleConflicts
    <3>2. handles[g].path \in Paths
      BY DEF IndInv, TypeOK, Request
    <3> QED BY <1>4, <2>2, <3>1, <3>2 DEF Related, Conflict, ancestor_io_conflict, descendant_io_conflict
  <2>3. CASE a = h /\ b \in DOMAIN handles
    BY <1>5, <2>2, <2>3 DEF Related
  <2>4. CASE b = h /\ a \in DOMAIN handles
    BY <1>5, <2>2, <2>4 DEF Related
  <2> QED BY <1>5, <2>1, <2>3, <2>4
<1>9. EntriesMatchHandles'
  <2> SUFFICES ASSUME NEW p \in Paths
               PROVE  /\ locks'[p].io_readers = Cardinality(Holding(p, "read")')
                      /\ Holding(p, "write")' = {locks'[p].io_writer} \ {NoHandle}
    BY DEF EntriesMatchHandles, Holding
  <2>1. /\ locks[p].io_readers = Cardinality(Holding(p, "read"))
        /\ Holding(p, "write") = {locks[p].io_writer} \ {NoHandle}
    BY DEF IndInv, EntriesMatchHandles, Holding
  <2>2. ASSUME NEW m
        PROVE  Holding(p, m)' = IF r = [path |-> p, mode |-> m] THEN Holding(p, m) \cup {h}
                                ELSE Holding(p, m)
    BY <1>5 DEF Holding
  <2>3. \A m : h \notin Holding(p, m)
    BY <1>3 DEF Holding
  <2>4. CASE r.path # p
    <3>1. locks'[p] = locks[p]
      BY <1>2, <1>4, <2>4 DEF IndInv, TypeOK
    <3>2. \A m : r # [path |-> p, mode |-> m]
      BY <1>2, <2>4
    <3> QED BY <2>1, <2>2, <3>1, <3>2
  <2>5. CASE r.path = p /\ r.mode = "read"
    <3>1. locks'[p] = [locks[p] EXCEPT !.io_readers = locks[p].io_readers + 1]
      BY <1>2, <1>4, <2>5 DEF IndInv, TypeOK, With
    <3>2. locks'[p].io_readers = locks[p].io_readers + 1 /\ locks'[p].io_writer = locks[p].io_writer
      BY <3>1 DEF IndInv, TypeOK
    <3>3. Holding(p, "read")' = Holding(p, "read") \cup {h} /\ Holding(p, "write")' = Holding(p, "write")
      BY <1>2, <2>2, <2>5
    <3>4. Cardinality(Holding(p, "read") \cup {h}) = Cardinality(Holding(p, "read")) + 1
      BY <2>3, HoldingFinite, FS_AddElement DEF IndInv
    <3> QED BY <2>1, <3>2, <3>3, <3>4
  <2>6. CASE r.path = p /\ r.mode = "write"
    <3>1. locks'[p] = [locks[p] EXCEPT !.io_writer = h]
      BY <1>2, <1>4, <2>6 DEF IndInv, TypeOK, With
    <3>2. locks'[p].io_readers = locks[p].io_readers /\ locks'[p].io_writer = h
      BY <3>1 DEF IndInv, TypeOK
    <3>3. Holding(p, "read")' = Holding(p, "read") /\ Holding(p, "write")' = Holding(p, "write") \cup {h}
      BY <1>2, <2>2, <2>6
    <3>4. locks[p].io_writer = NoHandle
      BY <1>4, <2>6 DEF Conflict, EntryConflict
    <3> QED BY <1>1, <2>1, <3>2, <3>3, <3>4
  <2> QED BY <1>2, <2>4, <2>5, <2>6
<1> QED BY <1>5, <1>6, <1>7, <1>8, <1>9 DEF r, h

\* The table does not change while the handles do not.
LEMMA TableKept ==
  ASSUME IndInv, UNCHANGED <<locks, handles>>
  PROVE  EntriesMatchHandles' /\ WritersAreAlone'
  BY DEF IndInv, EntriesMatchHandles, WritersAreAlone, Related

LEMMA StartInv ==
  ASSUME IndInv, NEW t \in Threads, NEW c \in Calls, Start(t, c)
  PROVE  IndInv'
<1>1. PICK s \in Sorted(c) : call' = [call EXCEPT ![t] = s]
  BY DEF Start
<1>2. s \in Seq(Request) /\ s # <<>>
  BY SortedCalls
<1>3. 1 \in DOMAIN s
  BY <1>2
<1>4. TypeOK'
  BY <1>1, <1>2 DEF IndInv, TypeOK, Start, Trying
<1>5. HandlesOfCalls'
  <2>1. \A h \in DOMAIN handles : h[1] # t
    BY DEF IndInv, HandlesOfCalls, Start
  <2> QED BY <1>1, <1>3, <2>1 DEF IndInv, TypeOK, HandlesOfCalls, Start, Trying
<1>6. EntriesMatchHandles' /\ WritersAreAlone'
  BY TableKept DEF Start
<1> QED BY <1>4, <1>5, <1>6 DEF IndInv

\* Whether it got the lock or not, the call goes on with its next request.
LEMMA ProceedKeepsTypes ==
  ASSUME IndInv, NEW t \in Threads, pc[t] \in Trying, Proceed(t), UNCHANGED call
  PROVE  /\ pc' \in [Threads -> Trying \cup {"idle", "work", "notify"}]
         /\ at' \in [Threads -> Nat]
         /\ \A u \in Threads \ {t} : pc'[u] = pc[u] /\ at'[u] = at[u]
         /\ pc'[t] \in Trying => at'[t] = at[t] + 1 /\ at'[t] \in DOMAIN call[t]
         /\ pc'[t] # "idle"
<1>1. at[t] \in Nat /\ call[t] \in Seq(Request) /\ at[t] \in DOMAIN call[t]
  BY DEF IndInv, TypeOK, HandlesOfCalls
<1>2. DOMAIN call[t] = 1 .. Len(call[t]) /\ Len(call[t]) \in Nat
  BY <1>1
<1>3. CASE at[t] < Len(call[t])
  <2>1. at' = [at EXCEPT ![t] = at[t] + 1] /\ pc' = [pc EXCEPT ![t] = "try"]
    BY <1>3 DEF Proceed
  <2>2. at[t] + 1 \in DOMAIN call[t]
    BY <1>1, <1>2, <1>3
  <2> QED BY <1>1, <2>1, <2>2 DEF IndInv, TypeOK, Trying
<1>4. CASE ~(at[t] < Len(call[t]))
  BY <1>4 DEF IndInv, TypeOK, Proceed, Trying
<1> QED BY <1>3, <1>4

LEMMA GrantedInv ==
  ASSUME IndInv, NEW t \in Threads, pc[t] \in Trying, Granted(t), Proceed(t), UNCHANGED call
  PROVE  IndInv'
<1> DEFINE h == <<t, at[t]>>
<1>1. /\ EntriesMatchHandles' /\ WritersAreAlone'
      /\ handles' \in [DOMAIN handles' -> Request] /\ IsFiniteSet(DOMAIN handles')
      /\ DOMAIN handles' = DOMAIN handles \cup {h}
      /\ handles'[h] = Wanted(t)
      /\ \A g \in DOMAIN handles : g # h /\ handles'[g] = handles[g]
      /\ locks' \in [Paths -> [io_readers : Nat, io_writer : {NoHandle} \cup (Threads \X Nat)]]
  BY GrantedKeepsTable
<1>2. /\ pc' \in [Threads -> Trying \cup {"idle", "work", "notify"}]
      /\ at' \in [Threads -> Nat]
      /\ \A u \in Threads \ {t} : pc'[u] = pc[u] /\ at'[u] = at[u]
      /\ pc'[t] \in Trying => at'[t] = at[t] + 1 /\ at'[t] \in DOMAIN call[t]
      /\ pc'[t] # "idle"
  BY ProceedKeepsTypes
<1>3. TypeOK'
  BY <1>1, <1>2 DEF IndInv, TypeOK
<1>4. HandlesOfCalls'
  <2>1. \A u \in Threads : pc'[u] \in Trying => at'[u] \in DOMAIN call'[u]
    BY <1>2 DEF IndInv, HandlesOfCalls
  <2>2. ASSUME NEW g \in DOMAIN handles'
        PROVE  /\ pc'[g[1]] # "idle"
               /\ g[2] \in DOMAIN call'[g[1]] /\ handles'[g] = call'[g[1]][g[2]]
               /\ pc'[g[1]] \in Trying => g[2] < at'[g[1]]
    <3>1. CASE g = h
      BY <1>1, <1>2, <3>1 DEF IndInv, TypeOK, HandlesOfCalls, Wanted
    <3>2. CASE g \in DOMAIN handles
      <4>1. /\ pc[g[1]] # "idle" /\ g[1] \in Threads /\ g[2] \in Nat
            /\ g[2] \in DOMAIN call[g[1]] /\ handles[g] = call[g[1]][g[2]]
            /\ pc[g[1]] \in Trying => g[2] < at[g[1]]
        BY <3>2 DEF IndInv, TypeOK, HandlesOfCalls
      <4>2. CASE g[1] = t
        BY <1>1, <1>2, <3>2, <4>1, <4>2 DEF IndInv, TypeOK
      <4>3. CASE g[1] # t
        BY <1>1, <1>2, <3>2, <4>1, <4>3
      <4> QED BY <4>2, <4>3
    <3> QED BY <1>1, <3>1, <3>2
  <2> QED BY <2>1, <2>2 DEF HandlesOfCalls
<1> QED BY <1>1, <1>3, <1>4 DEF IndInv

\* A call that did not get the lock goes on without it.
LEMMA PassedOverInv ==
  ASSUME IndInv, NEW t \in Threads, pc[t] \in Trying, Proceed(t), UNCHANGED <<locks, handles, call>>
  PROVE  IndInv'
<1>1. /\ pc' \in [Threads -> Trying \cup {"idle", "work", "notify"}]
      /\ at' \in [Threads -> Nat]
      /\ \A u \in Threads \ {t} : pc'[u] = pc[u] /\ at'[u] = at[u]
      /\ pc'[t] \in Trying => at'[t] = at[t] + 1 /\ at'[t] \in DOMAIN call[t]
      /\ pc'[t] # "idle"
  BY ProceedKeepsTypes
<1>2. TypeOK'
  BY <1>1 DEF IndInv, TypeOK
<1>3. HandlesOfCalls'
  <2>1. \A u \in Threads : pc'[u] \in Trying => at'[u] \in DOMAIN call'[u]
    BY <1>1 DEF IndInv, HandlesOfCalls
  <2>2. ASSUME NEW g \in DOMAIN handles
        PROVE  pc'[g[1]] # "idle" /\ (pc'[g[1]] \in Trying => g[2] < at'[g[1]])
    <3>1. /\ pc[g[1]] # "idle" /\ g[1] \in Threads /\ g[2] \in Nat
          /\ pc[g[1]] \in Trying => g[2] < at[g[1]]
      BY DEF IndInv, TypeOK, HandlesOfCalls
    <3>2. CASE g[1] = t
      BY <1>1, <3>1, <3>2 DEF IndInv, TypeOK
    <3>3. CASE g[1] # t
      BY <1>1, <3>1, <3>3
    <3> QED BY <3>2, <3>3
  <2> QED BY <2>1, <2>2 DEF IndInv, HandlesOfCalls
<1>4. EntriesMatchHandles' /\ WritersAreAlone'
  BY TableKept
<1> QED BY <1>2, <1>3, <1>4 DEF IndInv

LEMMA AcquireInv ==
  ASSUME IndInv, NEW t \in Threads, Acquire(t)
  PROVE  IndInv'
  BY GrantedInv DEF Acquire, Trying

LEMMA ExpireInv ==
  ASSUME IndInv, NEW t \in Threads, Expire(t)
  PROVE  IndInv'
<1>1. pc[t] \in Trying /\ Proceed(t) /\ UNCHANGED call
  BY DEF Expire, Trying
<1>2. CASE UNCHANGED <<locks, handles>>
  BY <1>1, <1>2, PassedOverInv
<1>3. CASE Granted(t)
  BY <1>1, <1>3, GrantedInv
<1> QED BY <1>2, <1>3 DEF Expire

\* A thread that waits, and threads that are woken, keep their place.
LEMMA WaitInv ==
  ASSUME IndInv, NEW t \in Threads, Refused(t) \/ Park(t) \/ Notify(t)
  PROVE  IndInv'
<1>1. /\ UNCHANGED <<locks, handles, call, at>>
      /\ pc' \in [Threads -> Trying \cup {"idle", "work", "notify"}]
      /\ \A u \in Threads : /\ pc'[u] \in Trying <=> pc[u] \in Trying
                            /\ pc'[u] = "idle" <=> pc[u] = "idle"
  BY DEF IndInv, TypeOK, Refused, Park, Notify, Trying
<1>2. TypeOK'
  BY <1>1 DEF IndInv, TypeOK
<1>3. HandlesOfCalls'
  BY <1>1 DEF IndInv, TypeOK, HandlesOfCalls
<1>4. EntriesMatchHandles' /\ WritersAreAlone'
  BY <1>1, TableKept
<1> QED BY <1>2, <1>3, <1>4 DEF IndInv

LEMMA FinishInv ==
  ASSUME IndInv, NEW t \in Threads, Finish(t)
  PROVE  IndInv'
<1>1. <<>> \in Seq(Request)
  OBVIOUS
<1>2. TypeOK'
  BY <1>1 DEF IndInv, TypeOK, Finish, Trying
<1>3. HandlesOfCalls'
  <2>1. \A h \in DOMAIN handles : h[1] # t
    BY DEF Finish, Mine
  <2> QED BY <2>1 DEF IndInv, TypeOK, HandlesOfCalls, Finish, Trying
<1>4. EntriesMatchHandles' /\ WritersAreAlone'
  BY TableKept DEF Finish
<1> QED BY <1>2, <1>3, <1>4 DEF IndInv

\* do_release takes one handle out of both maps.
LEMMA ReleaseInv ==
  ASSUME IndInv, NEW t \in Threads, Release(t)
  PROVE  IndInv'
<1>1. PICK h \in Mine(t) :
        /\ locks' = [locks EXCEPT ![handles[h].path] = Without(locks[handles[h].path], handles[h])]
        /\ handles' = [g \in DOMAIN handles \ {h} |-> handles[g]]
  BY DEF Release
<1> DEFINE r == handles[h]
<1>2. h \in DOMAIN handles /\ r \in Request
  BY DEF Mine, IndInv, TypeOK
<1>3. r.path \in Paths /\ r.mode \in {"read", "write"} /\ r = [path |-> r.path, mode |-> r.mode]
  BY <1>2 DEF Request
<1>4. /\ DOMAIN handles' = DOMAIN handles \ {h} /\ IsFiniteSet(DOMAIN handles')
      /\ \A g \in DOMAIN handles' : handles'[g] = handles[g]
      /\ handles' \in [DOMAIN handles' -> Request]
  BY <1>1, FS_RemoveElement DEF IndInv, TypeOK
<1>5. locks' = [locks EXCEPT ![r.path] = Without(locks[r.path], r)]
  BY <1>1
<1>6. handles[h] = r
  OBVIOUS
<1> HIDE DEF r
<1>7. ASSUME NEW p \in Paths
      PROVE  /\ locks'[p].io_readers = Cardinality(Holding(p, "read")')
             /\ Holding(p, "write")' = {locks'[p].io_writer} \ {NoHandle}
             /\ locks'[p] \in [io_readers : Nat, io_writer : {NoHandle} \cup (Threads \X Nat)]
  <2>1. /\ locks[p].io_readers = Cardinality(Holding(p, "read"))
        /\ Holding(p, "write") = {locks[p].io_writer} \ {NoHandle}
        /\ locks[p] \in [io_readers : Nat, io_writer : {NoHandle} \cup (Threads \X Nat)]
    BY DEF IndInv, TypeOK, EntriesMatchHandles, Holding
  <2>2. ASSUME NEW m
        PROVE  Holding(p, m)' = IF r = [path |-> p, mode |-> m] THEN Holding(p, m) \ {h}
                                ELSE Holding(p, m)
    BY <1>4, <1>6 DEF Holding
  <2>3. \A m : h \in Holding(p, m) <=> r = [path |-> p, mode |-> m]
    BY <1>2, <1>6 DEF Holding
  <2>4. CASE r.path # p
    <3>1. locks'[p] = locks[p]
      BY <1>5, <1>3, <2>4 DEF IndInv, TypeOK
    <3>2. \A m : r # [path |-> p, mode |-> m]
      BY <1>3, <2>4
    <3> QED BY <2>1, <2>2, <3>1, <3>2
  <2>5. CASE r.path = p /\ r.mode = "read"
    <3>1. locks'[p] = [locks[p] EXCEPT !.io_readers = locks[p].io_readers - 1]
      BY <1>5, <1>3, <2>5 DEF IndInv, TypeOK, Without
    <3>2. locks'[p].io_readers = locks[p].io_readers - 1 /\ locks'[p].io_writer = locks[p].io_writer
      BY <2>1, <3>1
    <3>3. Holding(p, "read")' = Holding(p, "read") \ {h} /\ Holding(p, "write")' = Holding(p, "write")
      BY <1>3, <2>2, <2>5
    <3>4. /\ Cardinality(Holding(p, "read") \ {h}) = Cardinality(Holding(p, "read")) - 1
          /\ Cardinality(Holding(p, "read") \ {h}) \in Nat
      <4>1. h \in Holding(p, "read")
        BY <1>3, <2>3, <2>5
      <4> QED BY <4>1, HoldingFinite, FS_RemoveElement, FS_CardinalityType DEF IndInv
    <3>5. locks'[p] \in [io_readers : Nat, io_writer : {NoHandle} \cup (Threads \X Nat)]
      BY <2>1, <3>1, <3>2, <3>4
    <3> QED BY <2>1, <3>2, <3>3, <3>4, <3>5
  <2>6. CASE r.path = p /\ r.mode = "write"
    <3>1. locks'[p] = [locks[p] EXCEPT !.io_writer = NoHandle]
      BY <1>5, <1>3, <2>6 DEF IndInv, TypeOK, Without
    <3>2. locks'[p].io_readers = locks[p].io_readers /\ locks'[p].io_writer = NoHandle
      BY <2>1, <3>1
    <3>3. Holding(p, "read")' = Holding(p, "read") /\ Holding(p, "write")' = Holding(p, "write") \ {h}
      BY <1>3, <2>2, <2>6
    <3>4. h \in Holding(p, "write")
      BY <1>3, <2>3, <2>6
    <3> QED BY <2>1, <3>1, <3>2, <3>3, <3>4
  <2> QED BY <1>3, <2>4, <2>5, <2>6
<1>8. EntriesMatchHandles'
  BY <1>7 DEF EntriesMatchHandles, Holding
<1>9. TypeOK'
  <2>1. locks' = [p \in Paths |-> locks'[p]]
    BY <1>1 DEF IndInv, TypeOK
  <2>2. locks' \in [Paths -> [io_readers : Nat, io_writer : {NoHandle} \cup (Threads \X Nat)]]
    BY <1>7, <2>1
  <2> QED BY <1>4, <2>2 DEF IndInv, TypeOK, Release
<1>10. HandlesOfCalls'
  BY <1>4 DEF IndInv, TypeOK, HandlesOfCalls, Release, Trying
<1>11. WritersAreAlone'
  BY <1>4 DEF IndInv, WritersAreAlone, Related
<1> QED BY <1>8, <1>9, <1>10, <1>11 DEF IndInv

\* The invariant of the table.
THEOREM TableInvariant == Spec => []IndInv
<1>1. IndInv /\ [Next]_vars => IndInv'
  <2> SUFFICES ASSUME IndInv, [Next]_vars PROVE IndInv'
    OBVIOUS
  <2>1. CASE Next
    BY <2>1, StartInv, AcquireInv, WaitInv, ExpireInv, ReleaseInv, FinishInv DEF Next
  <2>2. CASE UNCHANGED vars
    <3>1. EntriesMatchHandles' /\ WritersAreAlone'
      BY <2>2, TableKept DEF vars
    <3>2. TypeOK' /\ HandlesOfCalls'
      BY <2>2 DEF vars, IndInv, TypeOK, HandlesOfCalls
    <3> QED BY <3>1, <3>2 DEF IndInv
  <2> QED BY <2>1, <2>2
<1> QED BY InitInv, <1>1, PTL DEF Spec

\* A writer is alone on its path, its ancestors and its descendants, for any
\* tree of paths and any interleaving of any number of threads.
THEOREM WritersTheorem == Spec => []WritersAreAlone
<1>1. IndInv => WritersAreAlone
  BY DEF IndInv
<1> QED BY <1>1, TableInvariant, PTL

\* do_release never meets a "handle/state desync".
THEOREM EntriesTheorem == Spec => []EntriesMatchHandles
<1>1. IndInv => EntriesMatchHandles
  BY DEF IndInv
<1> QED BY <1>1, TableInvariant, PTL
----------------------------------------------------------------------------
(* Waiting *)

\* Of finitely many numbers one is the greatest.
LEMMA GreatestExists ==
  ASSUME NEW S, IsFiniteSet(S), S # {}, NEW f \in [S -> Nat]
  PROVE  \E t \in S : \A u \in S : f[u] <= f[t]
<1> DEFINE Above(t) == {u \in S : f[u] > f[t]}
           A == {Above(t) : t \in S}
           R == StrictSubsetOrdering(S)
<1>1. IsWellFoundedOn(R, FiniteSubsetsOf(S))
  BY FS_StrictSubsetOrderingWellFounded
<1>2. A \subseteq FiniteSubsetsOf(S) /\ A # {}
  <2>1. FiniteSubsetsOf(S) = SUBSET S
    BY FS_FiniteSubsetsOfFinite
  <2>2. \A t \in S : Above(t) \in SUBSET S
    OBVIOUS
  <2>3. A \subseteq SUBSET S /\ A # {}
    <3> HIDE DEF Above
    <3> QED BY <2>2
  <2> QED BY <2>1, <2>3
<1>3. PICK x \in A : \A y \in A : ~(<<y, x>> \in R)
  <2> HIDE DEF A, R
  <2> QED BY <1>1, <1>2, WFMin
<1>4. PICK t \in S : x = Above(t)
  OBVIOUS
<1>5. ASSUME NEW u \in S, f[u] > f[t] PROVE FALSE
  <2>1. Above(u) \subseteq Above(t) /\ u \in Above(t) /\ u \notin Above(u)
    BY <1>5
  <2>2. <<Above(u), Above(t)>> \in R
    BY <2>1 DEF StrictSubsetOrdering
  <2> QED BY <1>3, <1>4, <2>2
<1> QED BY <1>5

LEMMA OrderInit == Init => CallsInOrder
  BY DEF Init, CallsInOrder, IsSorted, Spread

LEMMA OrderKept ==
  ASSUME \A c \in Calls : Spread(c), TypeOK, CallsInOrder, [Next]_vars
  PROVE  CallsInOrder'
<1>1. ASSUME NEW t \in Threads, NEW c \in Calls, Start(t, c)
      PROVE  CallsInOrder'
  <2>1. PICK s \in Sorted(c) : call' = [call EXCEPT ![t] = s]
    BY <1>1 DEF Start
  <2>2. PICK f \in Bijection(DOMAIN c, DOMAIN c) : s = [i \in DOMAIN c |-> c[f[i]]]
    BY SortedCalls
  <2>3. /\ f \in [DOMAIN c -> DOMAIN c]
        /\ \A i, j \in DOMAIN c : i # j => f[i] # f[j]
    BY DEF Bijection, Injection, IsInjective
  <2>4. IsSorted(s)
    BY SortedCalls
  <2>5. Spread(s)
    BY <2>2, <2>3 DEF Spread
  <2>6. \A i \in DOMAIN s : s[i].path \in Locked
    BY <2>2, <2>3 DEF Locked, Range
  <2> QED BY <2>1, <2>4, <2>5, <2>6 DEF CallsInOrder, TypeOK
<1>2. ASSUME NEW t \in Threads, Finish(t)
      PROVE  CallsInOrder'
  <2>1. call' = [call EXCEPT ![t] = <<>>]
    BY <1>2 DEF Finish
  <2>2. IsSorted(<<>>) /\ Spread(<<>>) /\ DOMAIN <<>> = {}
    BY DEF IsSorted, Spread
  <2> QED BY <2>1, <2>2 DEF CallsInOrder, TypeOK
<1>3. ASSUME UNCHANGED call
      PROVE  CallsInOrder'
  BY <1>3 DEF CallsInOrder
<1> QED
  BY <1>1, <1>2, <1>3 DEF Next, vars, Acquire, Refused, Park, Expire, Release, Notify

\* Threads that wait are ordered by what they wait for: the one that waits for
\* the last path waits for nobody that waits.
LEMMA OrderedWaits ==
  ASSUME IsFiniteSet(Threads), TreeOrder, IndInv, CallsInOrder
  PROVE  NoCircularWait
<1> SUFFICES ASSUME NEW S \in SUBSET Threads, S # {}, \A t \in S : \E u \in S : WaitsFor(t, u)
             PROVE  FALSE
  BY DEF NoCircularWait
<1>1. ASSUME NEW t \in S
      PROVE  /\ at[t] \in DOMAIN call[t] /\ pc[t] \in Trying
             /\ Wanted(t) \in Request /\ Wanted(t).path \in Locked
             /\ Wanted(t).path \in Paths /\ Rank[Wanted(t).path] \in Nat
  <2>1. pc[t] \in Trying
    BY DEF WaitsFor, Trying
  <2>2. at[t] \in DOMAIN call[t] /\ call[t] \in Seq(Request)
    BY <2>1 DEF IndInv, HandlesOfCalls, TypeOK
  <2>3. Wanted(t) \in Request
    BY <2>2 DEF Wanted
  <2> QED BY <2>1, <2>2, <2>3, IoAssumption DEF CallsInOrder, Wanted, Request
<1> DEFINE f == [t \in S |-> Rank[Wanted(t).path]]
<1>2. \E t \in S : \A u \in S : f[u] <= f[t]
  <2>1. f \in [S -> Nat] /\ IsFiniteSet(S)
    BY <1>1, FS_Subset
  <2> HIDE DEF f
  <2> QED BY <2>1, GreatestExists
<1>3. PICK t \in S : \A u \in S : Rank[Wanted(u).path] <= Rank[Wanted(t).path]
  BY <1>2
<1>4. PICK u \in S : WaitsFor(t, u)
  OBVIOUS
<1>5. PICK h \in Mine(u) : Related(handles[h].path, Wanted(t).path)
  BY <1>4 DEF WaitsFor
<1> DEFINE p == handles[h].path
           v == Wanted(u).path
           w == Wanted(t).path
<1>6. /\ h \in DOMAIN handles /\ h[1] = u
      /\ h[2] \in DOMAIN call[u] /\ handles[h] = call[u][h[2]] /\ h[2] < at[u]
  BY <1>1, <1>5 DEF Mine, IndInv, HandlesOfCalls
<1>7. h[2] # at[u] /\ h[2] \in Nat /\ at[u] \in Nat
  BY <1>6 DEF IndInv, TypeOK
<1>8. /\ p \in Locked /\ v \in Locked /\ w \in Locked
      /\ p \in Paths /\ v \in Paths /\ w \in Paths
      /\ Rank[p] \in Nat /\ Rank[v] \in Nat /\ Rank[w] \in Nat
  BY <1>1, <1>6, IoAssumption DEF CallsInOrder, IndInv, TypeOK, Request
<1>9. Rank[p] <= Rank[v] /\ ~Related(p, v)
  BY <1>1, <1>6, <1>7 DEF CallsInOrder, IsSorted, Spread, Wanted
<1>10. Rank[v] <= Rank[w]
  BY <1>3
<1> HIDE DEF p, v, w
<1>11. CASE p = w
  <2>1. Rank[v] = Rank[p]
    BY <1>8, <1>9, <1>10, <1>11
  <2> QED BY <1>8, <1>9, <2>1, IoAssumption DEF Related
<1>12. CASE w \in Ancestors[p]
  <2>1. Rank[w] < Rank[p]
    BY <1>8, <1>12 DEF TreeOrder
  <2> QED BY <1>8, <1>9, <1>10, <2>1
<1>13. CASE p \in Ancestors[w]
  <2>1. p = v \/ p \in Ancestors[v]
    BY <1>8, <1>9, <1>10, <1>13 DEF TreeOrder
  <2> QED BY <1>9, <2>1 DEF Related
<1> QED BY <1>5, <1>11, <1>12, <1>13 DEF Related, p, w

\* Threads never wait in a circle, provided that the order of strings follows
\* the tree among the locked paths ("/a", "/a-b", "/a/z" does not) and that no
\* call locks two related paths.
THEOREM CircularWaitTheorem ==
  ASSUME IsFiniteSet(Threads), TreeOrder, \A c \in Calls : Spread(c)
  PROVE  Spec => []NoCircularWait
<1>1. TypeOK /\ CallsInOrder /\ [Next]_vars => CallsInOrder'
  BY OrderKept
<1>2. IndInv => TypeOK
  BY DEF IndInv
<1>3. IndInv /\ CallsInOrder => NoCircularWait
  BY OrderedWaits
<1> QED BY OrderInit, TableInvariant, <1>1, <1>2, <1>3, PTL DEF Spec
=============================================================================
