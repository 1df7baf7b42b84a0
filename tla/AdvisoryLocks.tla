---------------------------- MODULE AdvisoryLocks ----------------------------
(***************************************************************************)
(* The advisory lock service of one zone: clients on several nodes call    *)
(* sys_lock / sys_unlock (kernel/src/kernel/locks.rs), DistributedLocks    *)
(* stamps each command with the proposing node's wall clock and proposes   *)
(* it, and the state machine applies the commands to the shared LockState  *)
(* in log order.  Raft is abstracted to "an outstanding command is applied *)
(* at some later point, in any order, or is lost": stamps therefore reach  *)
(* the table out of order, and a caller may give up before its command is  *)
(* applied.                                                                *)
(*                                                                         *)
(* clock[n] is the wall clock of node n.  Nodes are not synchronised; a    *)
(* clock only moves forward.  MaxTime bounds the clocks and MaxOutstanding *)
(* the commands in flight, so that TLC's runs are finite.                  *)
(***************************************************************************)
EXTENDS LockState

CONSTANTS
  Nodes,            \* nodes that propose
  Capacities,       \* max_holders a caller asks for
  Ttls,             \* ttl_secs a caller asks for
  MaxTime,          \* bound on the clocks
  MaxOutstanding    \* bound on the commands in flight

ASSUME ServiceAssumption ==
  /\ Capacities \subseteq Nat
  /\ Ttls \subseteq Nat
  /\ MaxTime \in Nat
  /\ MaxOutstanding \in Nat

VARIABLES
  locks,        \* the replicated LockState
  clock,        \* wall clock of every node
  outstanding,  \* commands proposed and not yet applied
  session       \* what the caller that owns a lock_id knows about it

vars == <<locks, clock, outstanding, session>>

AcquireCmd == [op : {"acquire"}, path : Paths, id : LockIds,
               max : Nat, ttl : Ttls, now : Nat]
ExtendCmd  == [op : {"extend"}, path : Paths, id : LockIds,
               ttl : Ttls, now : Nat]
ReleaseCmd == [op : {"release"}, path : Paths, id : LockIds]
ForceCmd   == [op : {"force"}, path : Paths]

Command == AcquireCmd \cup ExtendCmd \cup ReleaseCmd \cup ForceCmd

\* A caller's view of its own lock_id.  until is the expiry of the lease it
\* was last told about.
Session == [st : {"fresh", "acquiring", "held", "ended"},
            path : Paths, max : Nat, until : Nat]

TypeOK ==
  /\ IsLockState(locks)
  /\ clock \in [Nodes -> Nat]
  /\ outstanding \in SUBSET Command
  /\ session \in [LockIds -> Session]

Init ==
  /\ locks = EmptyLockState
  /\ clock = [n \in Nodes |-> 0]
  /\ outstanding = {}
  /\ session = [id \in LockIds |->
       [st |-> "fresh", path |-> RootPath, max |-> 0, until |-> 0]]

----------------------------------------------------------------------------
(* Callers *)

Propose(c) ==
  /\ Cardinality(outstanding) < MaxOutstanding
  /\ outstanding' = outstanding \cup {c}

\* sys_lock with an empty lock_id: a fresh uuid, one acquire command.
Acquire(n, id, p, max, ttl) ==
  /\ session[id].st = "fresh"
  /\ Propose([op |-> "acquire", path |-> p, id |-> id,
              max |-> max, ttl |-> ttl, now |-> clock[n]])
  /\ session' = [session EXCEPT ![id] =
       [st |-> "acquiring", path |-> p, max |-> max, until |-> 0]]
  /\ UNCHANGED <<locks, clock>>

\* A caller of RaftClient chooses its own lock_id and may send the acquire
\* again while it has no answer.
RetryAcquire(n, id, ttl) ==
  /\ session[id].st = "acquiring"
  /\ Propose([op |-> "acquire", path |-> session[id].path, id |-> id,
              max |-> session[id].max, ttl |-> ttl, now |-> clock[n]])
  /\ UNCHANGED <<locks, clock, session>>

\* sys_lock with the caller's lock_id renews the lease.
Extend(n, id, ttl) ==
  /\ session[id].st = "held"
  /\ Propose([op |-> "extend", path |-> session[id].path, id |-> id,
              ttl |-> ttl, now |-> clock[n]])
  /\ UNCHANGED <<locks, clock, session>>

\* sys_unlock: the caller stops using the resource before it asks.
Release(id) ==
  /\ session[id].st = "held"
  /\ Propose([op |-> "release", path |-> session[id].path, id |-> id])
  /\ session' = [session EXCEPT ![id].st = "ended"]
  /\ UNCHANGED <<locks, clock>>

\* sys_unlock with force: an administrator, who owns no lock_id.
ForceRelease(p) ==
  /\ Propose([op |-> "force", path |-> p])
  /\ UNCHANGED <<locks, clock, session>>

\* The proposal times out (PROPOSAL_TIMEOUT_SECS): sys_lock returns an error
\* and the uuid is forgotten, while the command may still be applied.
GiveUp(id) ==
  /\ session[id].st = "acquiring"
  /\ session' = [session EXCEPT ![id].st = "ended"]
  /\ UNCHANGED <<locks, clock, outstanding>>

----------------------------------------------------------------------------
(* The state machine applies one command.                                  *)

Least(a, b) == IF a < b THEN a ELSE b

\* The answer to an acquire or a renewal reaches the caller that waits for it.
Answer(c, granted) ==
  /\ session[c.id].st \in {"acquiring", "held"}
  /\ session' = [session EXCEPT
       ![c.id].st    = IF granted THEN "held" ELSE "ended",
       ![c.id].until = c.now + c.ttl]

\* The caller has stopped waiting.  A caller that already holds the lease can
\* then count only on the earlier of the two expiries.
NoAnswer(c) ==
  session' = [session EXCEPT ![c.id].until = Least(@, c.now + c.ttl)]

ApplyAcquire(c) ==
  /\ c.op = "acquire"
  /\ locks' = apply_acquire(locks, c.path, c.id, c.max, c.ttl, c.now)
  /\ Answer(c, Acquired(locks, c.path, c.id, c.max, c.now)) \/ NoAnswer(c)

ApplyExtend(c) ==
  /\ c.op = "extend"
  /\ locks' = apply_extend(locks, c.path, c.id, c.ttl, c.now)
  /\ Answer(c, Extended(locks, c.path, c.id, c.now)) \/ NoAnswer(c)

ApplyRelease(c) ==
  /\ c.op = "release"
  /\ locks' = apply_release(locks, c.path, c.id)
  /\ UNCHANGED session

\* The administrator overrides the leases on the path: their owners no
\* longer count as holders from here on.
ApplyForce(c) ==
  /\ c.op = "force"
  /\ locks' = apply_force_release(locks, c.path)
  /\ session' = [id \in LockIds |->
       IF session[id].st = "held" /\ session[id].path = c.path
       THEN [session[id] EXCEPT !.st = "ended"] ELSE session[id]]

Apply(c) ==
  /\ ApplyAcquire(c) \/ ApplyExtend(c) \/ ApplyRelease(c) \/ ApplyForce(c)
  /\ outstanding' = outstanding \ {c}
  /\ UNCHANGED clock

\* A proposal the old leader never replicated is dropped.
Lose(c) ==
  /\ outstanding' = outstanding \ {c}
  /\ UNCHANGED <<locks, clock, session>>

Tick(n) ==
  /\ clock[n] < MaxTime
  /\ clock' = [clock EXCEPT ![n] = @ + 1]
  /\ UNCHANGED <<locks, outstanding, session>>

Next ==
  \/ \E n \in Nodes, id \in LockIds, p \in Paths, max \in Capacities, ttl \in Ttls :
       Acquire(n, id, p, max, ttl)
  \/ \E n \in Nodes, id \in LockIds, ttl \in Ttls : RetryAcquire(n, id, ttl)
  \/ \E n \in Nodes, id \in LockIds, ttl \in Ttls : Extend(n, id, ttl)
  \/ \E id \in LockIds : Release(id)
  \/ \E p \in Paths : ForceRelease(p)
  \/ \E id \in LockIds : GiveUp(id)
  \/ \E c \in outstanding : Apply(c)
  \/ \E c \in outstanding : Lose(c)
  \/ \E n \in Nodes : Tick(n)

Spec == Init /\ [][Next]_vars

----------------------------------------------------------------------------
(* Properties *)

\* apply_acquire, capacity: an entry never has more holders than the
\* max_holders its first holder seeded, whatever mix of capacities the
\* callers ask for, and a lock_id holds a path at most once.
CapacityRespected == WithinCapacity(locks)

\* ancestor_conflict / descendant_conflict: two paths of which one is an
\* ancestor of the other are never held at the same time, in whichever order
\* their acquires are applied.
SubtreeExclusion == SubtreesDisjoint(locks)

\* The lease of id is running: no clock in the zone has reached the expiry
\* its owner was told.
Running(id) ==
  session[id].st = "held" /\ \A n \in Nodes : clock[n] < session[id].until

\* sys_lock's promise to a caller: while its lease is running, its holder row
\* is in the table.  No prune by a command stamped elsewhere, no release or
\* retry of another caller and no reordering of stamps takes a running lease
\* away (an administrator's forced release does, and ends the session).
LeaseHonoured ==
  \A id \in LockIds :
    Running(id) =>
      \E h \in HoldersAt(locks, session[id].path) :
         h.lock_id = id /\ h.expires_at >= session[id].until

RunningLeases(p) == {id \in LockIds : Running(id) /\ session[id].path = p}

\* Mutual exclusion as the callers see it: of the running leases, no two are
\* on a path and its ancestor, and on one path there are no more than the
\* capacity each of their owners asked for.
NoConflictingLeases ==
  \A p \in Paths :
    /\ \A id \in RunningLeases(p) : Cardinality(RunningLeases(p)) <= session[id].max
    /\ \A q \in Ancestors[p] : RunningLeases(p) = {} \/ RunningLeases(q) = {}

\* DistributedLocks::get_lock says of rows whose holders have all expired that
\* they "are by definition cold and never block live decisions".
ExpiredHoldersNeverBlock ==
  \A p \in Paths, n \in Nodes, id \in LockIds :
    (\A q \in {p} \cup Ancestors[p] \cup DescendantRange(p) :
        Unexpired(locks, q, clock[n]) = {})
      => Acquired(locks, p, id, 1, clock[n])
----------------------------------------------------------------------------
(* The facts that make the properties above inductive *)

\* A stamp was read from a clock, and clocks only move forward.
StampsPast ==
  \A c \in outstanding :
    c.op \in {"acquire", "extend"} => \E n \in Nodes : c.now <= clock[n]

\* A caller's commands are about the path and capacity it asked for, and it
\* releases only a lease it has stopped using.
CommandsMatchSessions ==
  \A c \in outstanding :
    /\ c.op # "force" =>
         session[c.id].path = c.path /\ session[c.id].st # "fresh"
    /\ c.op = "acquire" => session[c.id].max = c.max
    /\ c.op = "release" => session[c.id].st = "ended"

\* A holder row is on the path, and under the capacity, its owner asked for.
RowsMatchSessions ==
  \A p \in DOMAIN locks : \A h \in locks[p].holders :
    /\ session[h.lock_id].st # "fresh"
    /\ session[h.lock_id].path = p
    /\ session[h.lock_id].max = locks[p].max_holders

IndInv ==
  /\ TypeOK
  /\ CapacityRespected
  /\ SubtreeExclusion
  /\ StampsPast
  /\ CommandsMatchSessions
  /\ RowsMatchSessions
  /\ LeaseHonoured
=============================================================================
