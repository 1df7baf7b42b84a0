------------------------------- MODULE IoLocks -------------------------------
(***************************************************************************)
(* The kernel's I/O locks (kernel/src/core/lock/mod.rs, blocking_acquire   *)
(* and do_release) and the system calls that take them                     *)
(* (kernel/src/kernel/syscall_impl.rs): reads and writes lock one path,    *)
(* rename and copy lock two, write_batch any number, in sorted order.      *)
(*                                                                         *)
(* The mutex io_state makes every table access one step.  Between the      *)
(* failed try and the wait on the condition variable the mutex is free, in *)
(* every round of the loop.  A handle is named by the thread and the       *)
(* position of the request it was given for; next_handle makes it unique.  *)
(* A deadline may pass at any time.                                        *)
(***************************************************************************)
EXTENDS Integers, Sequences, FiniteSets, Functions

CONSTANTS
  Paths,       \* normalized paths
  RootPath,    \* "/"
  Ancestors,   \* Ancestors[p]: the strict ancestors of p
  Rank,        \* Rank[p]: the place of p in the order of strings
  Calls,       \* the lock requests a system call makes, in the order of its arguments
  Threads

Request == [path : Paths, mode : {"read", "write"}]

ASSUME IoAssumption ==
  /\ RootPath \in Paths
  /\ Ancestors \in [Paths -> SUBSET Paths]
  /\ \A p \in Paths : p \notin Ancestors[p]
  /\ Rank \in [Paths -> Nat] /\ \A p, q \in Paths : Rank[p] = Rank[q] => p = q
  /\ \A c \in Calls : c \in Seq(Request) /\ c # <<>>

VARIABLES
  locks,     \* io_state.locks: readers and writer of every path
  handles,   \* io_state.handles: the request behind every live handle
  pc,        \* where a thread is
  call, at   \* its requests in the order it makes them; the current one

vars == <<locks, handles, pc, call, at>>

NoHandle == <<>>
Unlocked == [io_readers |-> 0, io_writer |-> NoHandle]

Init ==
  /\ locks = [p \in Paths |-> Unlocked]
  /\ handles = [h \in {} |-> Unlocked]
  /\ pc = [t \in Threads |-> "idle"]
  /\ call = [t \in Threads |-> <<>>]
  /\ at = [t \in Threads |-> 1]

\* The request a thread is making.
Wanted(t) == call[t][at[t]]

----------------------------------------------------------------------------
(* Conflicts *)

EntryConflict(p, mode) ==
  \/ locks[p].io_writer # NoHandle
  \/ mode = "write" /\ locks[p].io_readers > 0

ancestor_io_conflict(p, mode) == \E q \in Ancestors[p] : EntryConflict(q, mode)

\* Mutant: a reader below does not stop a writer.
descendant_io_conflict_Writers(p, mode) ==
  \E q \in Paths : p \in Ancestors[q] /\ locks[q].io_writer # NoHandle

\* The key range of "/" starts with "/" itself, whose entry is tested anyway.
descendant_io_conflict(p, mode) ==
  \E q \in Paths : p \in Ancestors[q] /\ EntryConflict(q, mode)

Conflict(r) ==
  \/ ancestor_io_conflict(r.path, r.mode)
  \/ descendant_io_conflict(r.path, r.mode)
  \/ EntryConflict(r.path, r.mode)

----------------------------------------------------------------------------
(* blocking_acquire *)

\* The order of string comparison.
IsSorted(s) == \A i, j \in DOMAIN s : i < j => Rank[s[i].path] <= Rank[s[j].path]

\* Mutant: the paths are locked in the order of the arguments.
Sorted_AsGiven(c) == {c}

\* sys_rename and sys_copy compare two paths and drop a repeated one; a batch
\* sorts its requests and keeps repetitions.
Sorted(c) ==
  {s \in {[i \in DOMAIN c |-> c[f[i]]] : f \in Bijection(DOMAIN c, DOMAIN c)} : IsSorted(s)}

Start(t, c) ==
  /\ pc[t] = "idle"
  /\ \E s \in Sorted(c) : call' = [call EXCEPT ![t] = s]
  /\ at' = [at EXCEPT ![t] = 1]
  /\ pc' = [pc EXCEPT ![t] = "try"]
  /\ UNCHANGED <<locks, handles>>

\* The call goes on with its next request, whether it got this one or not.
Proceed(t) ==
  IF at[t] < Len(call[t])
  THEN at' = [at EXCEPT ![t] = @ + 1] /\ pc' = [pc EXCEPT ![t] = "try"]
  ELSE pc' = [pc EXCEPT ![t] = "work"] /\ UNCHANGED at

\* The entry with handle h of request r.
With(e, r, h) ==
  IF r.mode = "read" THEN [e EXCEPT !.io_readers = e.io_readers + 1]
                     ELSE [e EXCEPT !.io_writer = h]

\* try_acquire_io_locked
Granted(t) ==
  LET r == Wanted(t)
      h == <<t, at[t]>>
  IN  /\ ~Conflict(r)
      /\ locks' = [locks EXCEPT ![r.path] = With(locks[r.path], r, h)]
      /\ handles' = [g \in DOMAIN handles \cup {h} |-> IF g = h THEN r ELSE handles[g]]

Acquire(t) ==
  /\ pc[t] \in {"try", "woken"}
  /\ Granted(t)
  /\ Proceed(t)
  /\ UNCHANGED call

\* The try failed, and the mutex is released before the thread waits.
Refused(t) ==
  /\ pc[t] \in {"try", "woken"}
  /\ Conflict(Wanted(t))
  /\ pc' = [pc EXCEPT ![t] = "gap"]
  /\ UNCHANGED <<locks, handles, call, at>>

Park(t) ==
  /\ pc[t] = "gap"
  /\ pc' = [pc EXCEPT ![t] = "parked"]
  /\ UNCHANGED <<locks, handles, call, at>>

\* The deadline passes: before the wait the call returns 0, in the wait it
\* tries once more.
Expire(t) ==
  /\ \/ pc[t] = "gap" /\ UNCHANGED <<locks, handles>>
     \/ pc[t] = "parked" /\ Conflict(Wanted(t)) /\ UNCHANGED <<locks, handles>>
     \/ pc[t] = "parked" /\ Granted(t)
  /\ Proceed(t)
  /\ UNCHANGED call

----------------------------------------------------------------------------
(* do_release *)

\* Mutant: a read handle leaves its count behind.
Without_Reader(e, r) ==
  IF r.mode = "read" THEN e ELSE [e EXCEPT !.io_writer = NoHandle]

\* The entry without the handle of request r.  An idle entry is removed,
\* which is the same as an unlocked one.
Without(e, r) ==
  IF r.mode = "read" THEN [e EXCEPT !.io_readers = e.io_readers - 1]
                     ELSE [e EXCEPT !.io_writer = NoHandle]

Mine(t) == {h \in DOMAIN handles : h[1] = t}

Release(t) ==
  /\ pc[t] = "work"
  /\ \E h \in Mine(t) :
       /\ LET p == handles[h].path
          IN  locks' = [locks EXCEPT ![p] = Without(locks[p], handles[h])]
       /\ handles' = [g \in DOMAIN handles \ {h} |-> handles[g]]
  /\ pc' = [pc EXCEPT ![t] = "notify"]
  /\ UNCHANGED <<call, at>>

\* notify_all, after the mutex is released: wakes who is parked now.
Notify(t) ==
  /\ pc[t] = "notify"
  /\ pc' = [u \in Threads |->
       IF u = t THEN "work" ELSE IF pc[u] = "parked" THEN "woken" ELSE pc[u]]
  /\ UNCHANGED <<locks, handles, call, at>>

Finish(t) ==
  /\ pc[t] = "work" /\ Mine(t) = {}
  /\ pc' = [pc EXCEPT ![t] = "idle"]
  /\ call' = [call EXCEPT ![t] = <<>>]
  /\ at' = [at EXCEPT ![t] = 1]
  /\ UNCHANGED <<locks, handles>>

Next ==
  \E t \in Threads :
    \/ \E c \in Calls : Start(t, c)
    \/ Acquire(t)
    \/ Refused(t)
    \/ Park(t)
    \/ Expire(t)
    \/ Release(t)
    \/ Notify(t)
    \/ Finish(t)

Spec == Init /\ [][Next]_vars

----------------------------------------------------------------------------
(* Properties *)

Related(p, q) == p = q \/ p \in Ancestors[q] \/ q \in Ancestors[p]

\* try_acquire_io_locked: a writer is alone on its path, its ancestors and its
\* descendants, whatever the order in which handles come and go.
WritersAreAlone ==
  \A g, h \in DOMAIN handles :
    g # h /\ handles[g].mode = "write" => ~Related(handles[g].path, handles[h].path)

\* do_release ("handle/state desync"): readers and writer of every path are
\* those of its live handles.
EntriesMatchHandles ==
  \A p \in Paths :
    /\ locks[p].io_readers =
         Cardinality({h \in DOMAIN handles : handles[h] = [path |-> p, mode |-> "read"]})
    /\ {h \in DOMAIN handles : handles[h] = [path |-> p, mode |-> "write"]} =
         {locks[p].io_writer} \ {NoHandle}

\* Thread u holds what t waits for.
WaitsFor(t, u) ==
  /\ pc[t] \in {"gap", "parked", "woken"}
  /\ \E h \in Mine(u) :
       /\ Related(handles[h].path, Wanted(t).path)
       /\ "write" \in {handles[h].mode, Wanted(t).mode}

\* sys_rename ("deadlock-free: min(old,new) first"), sys_copy and write_batch
\* ("Sort indices by path to avoid deadlock"): threads never wait in a circle,
\* which only a timeout would end.
NoCircularWait ==
  \A S \in (SUBSET Threads) \ {{}} : \E t \in S : \A u \in S : ~WaitsFor(t, u)

----------------------------------------------------------------------------
(* What the properties rest on *)

Trying == {"try", "gap", "parked", "woken"}

TypeOK ==
  /\ locks \in [Paths -> [io_readers : Nat, io_writer : {NoHandle} \cup (Threads \X Nat)]]
  /\ handles \in [DOMAIN handles -> Request]
  /\ DOMAIN handles \subseteq Threads \X Nat /\ IsFiniteSet(DOMAIN handles)
  /\ pc \in [Threads -> Trying \cup {"idle", "work", "notify"}]
  /\ call \in [Threads -> Seq(Request)]
  /\ at \in [Threads -> Nat]

\* Handles are given for requests of the running call, in their order, so the
\* handle of the current request is not in use.
HandlesOfCalls ==
  /\ \A t \in Threads : pc[t] \in Trying => at[t] \in DOMAIN call[t]
  /\ \A h \in DOMAIN handles :
       /\ pc[h[1]] # "idle"
       /\ h[2] \in DOMAIN call[h[1]] /\ handles[h] = call[h[1]][h[2]]
       /\ pc[h[1]] \in Trying => h[2] < at[h[1]]

IndInv == TypeOK /\ HandlesOfCalls /\ EntriesMatchHandles /\ WritersAreAlone

\* No call asks for a path twice, or for a path and an ancestor of it.
Spread(c) == \A i, j \in DOMAIN c : i # j => ~Related(c[i].path, c[j].path)

\* The paths that are locked.
Locked == {r.path : r \in UNION {Range(c) : c \in Calls}}

\* Among the locked paths, those below p follow p in the order of strings with
\* none in between that is not below p.
TreeOrder ==
  \A p, q \in Locked : p \in Ancestors[q] =>
    /\ Rank[p] < Rank[q]
    /\ \A r \in Locked : Rank[p] <= Rank[r] /\ Rank[r] <= Rank[q] => p = r \/ p \in Ancestors[r]

\* The requests of a running call are those of a call of the program, in order.
CallsInOrder ==
  \A t \in Threads :
    /\ IsSorted(call[t]) /\ Spread(call[t])
    /\ \A i \in DOMAIN call[t] : call[t][i].path \in Locked

----------------------------------------------------------------------------
(* What blocking_acquire does not promise *)

\* blocking_acquire: "Blocking wait with Condvar - woken on every release()".
\* A parked thread whose lock is free is about to be woken.
NoMissedWakeup ==
  \A t \in Threads :
    pc[t] = "parked" => Conflict(Wanted(t)) \/ \E u \in Threads : pc[u] = "notify"
=============================================================================
