--------------------------- MODULE ZoneOperations ----------------------------
(***************************************************************************)
(* The typed operations on one zone: the ZoneRuntime surface               *)
(* (raft/src/zone_runtime.rs), the journal that makes them idempotent      *)
(* (zone_op_journal.rs), the registry of deletion epochs                   *)
(* (zone_deletion_registry.rs), the mount and link bookkeeping             *)
(* (zone_manager.rs) and the replicas on disk (raft/zone_registry.rs).     *)
(*                                                                         *)
(* The control zone and the parent zone are replicated state with a        *)
(* lagging copy on every node; a proposal is the step that applies it.  An *)
(* attempt is one RPC; attempts with the same operation id are retries.    *)
(* The clock is common to the nodes, as the deletion registry asks of its  *)
(* operators.  Prompt says that no execution outlasts the takeover grace.  *)
(***************************************************************************)
EXTENDS Integers

CONSTANTS
  Nodes,
  Attempts, Ops,
  Op, At,         \* attempt -> its operation id, the node that serves it
  Requests,       \* the requests attempts may carry: functions attempt -> kind
  Grace,          \* PENDING_TAKEOVER_GRACE_MS
  Suppression,    \* AUTO_JOIN_REMOVAL_SUPPRESSION
  Prompt,
  MaxTime, MaxFaults    \* bounds; a fault is a crash or an error

Kinds == {"create", "join", "mount", "unmount", "deprovision"}

ASSUME ZoneOperationsAssumption ==
  /\ Op \in [Attempts -> Ops] /\ At \in [Attempts -> Nodes]
  /\ Requests \subseteq [Attempts -> Kinds]
  /\ Prompt \in BOOLEAN
  /\ {Grace, Suppression, MaxTime, MaxFaults} \subseteq Nat

VARIABLES
  clock,
  ctl,            \* control zone: the journal and the deletion epoch (0: none)
  view,           \* per node: its copy of the control zone
  path,           \* parent zone: what is at the mount path
  local,          \* per node: its copy of path
  links,          \* __i_links_count__ in the target zone
  replica,        \* per node: the zone's directory: none, cold or live
  creation,       \* per node: .creation-epoch, 0 without a directory
  removedAt,      \* per node: recently_removed, 0 when absent
  up,             \* nodes whose process runs
  request,        \* per attempt: its kind
  att,            \* per attempt: where it is, what it writes, what it read
  faults

controlVars == <<ctl, view>>
parentVars == <<path, local, links>>
diskVars == <<replica, creation, removedAt>>
vars == <<clock, controlVars, parentVars, diskVars, up, request, att, faults>>

Terminal == {"COMPLETED", "REJECTED"}
Absent == [status |-> "ABSENT", kind |-> "none", stamp |-> 0]

Init ==
  /\ clock = 1
  /\ ctl = [rec |-> [o \in Ops |-> Absent], deleted |-> 0]
  /\ view = [n \in Nodes |-> ctl]
  /\ \/ path = "none" /\ links = 0
     \/ path = "mount" /\ links = 1
  /\ local = [n \in Nodes |-> path]
  /\ replica = [n \in Nodes |-> "live"]
  /\ creation = [n \in Nodes |-> 0]
  /\ removedAt = [n \in Nodes |-> 0]
  /\ up = Nodes
  /\ request \in Requests
  /\ att = [a \in Attempts |-> [pc |-> "idle", next |-> "PENDING", epoch |-> 0, born |-> 0]]
  /\ faults = 0

----------------------------------------------------------------------------
(* Replicas on disk *)

\* ZoneRaftRegistry::deletion_outranks_disk, on the node's own copy.
deletion_outranks_disk(n) == view[n].deleted > creation[n]

\* get_node would return a handle: the zone is open, or materialize opens it.
Accessible(n) ==
  \/ replica[n] = "live"
  \/ replica[n] = "cold" /\ ~deletion_outranks_disk(n)

\* get_node's side effect.
Materialize(n) == replica' = [replica EXCEPT ![n] = "live"]

\* remove_zone on every node of N: tombstone, then the directory.
Removed(N) ==
  /\ replica' = [n \in Nodes |-> IF n \in N THEN "none" ELSE replica[n]]
  /\ creation' = [n \in Nodes |-> IF n \in N THEN 0 ELSE creation[n]]
  /\ removedAt' = [n \in Nodes |-> IF n \in N THEN clock ELSE removedAt[n]]

\* setup_zone: open the directory there is, or create one stamped now.
setup_zone(n) ==
  /\ replica' = [replica EXCEPT ![n] = "live"]
  /\ creation' = [creation EXCEPT ![n] = IF replica[n] = "none" THEN clock ELSE @]
  /\ removedAt' = [removedAt EXCEPT ![n] = 0]

is_auto_join_suppressed(n) == removedAt[n] # 0 /\ clock - removedAt[n] < Suppression

\* step_message: a raft message of the zone from another live replica.
StepMessage(n) ==
  /\ n \in up /\ \E m \in up \ {n} : replica[m] = "live"
  /\ replica[n] # "live"
  /\ \/ Accessible(n) /\ Materialize(n) /\ UNCHANGED <<creation, removedAt>>
     \/ ~Accessible(n) /\ ~is_auto_join_suppressed(n) /\ setup_zone(n)
  /\ UNCHANGED <<clock, controlVars, parentVars, up, request, att, faults>>

\* Mutant: the sweep leaves zones that are open alone.
purge_deleted_zones_Cold(n) ==
  /\ n \in up /\ replica[n] = "cold" /\ deletion_outranks_disk(n)
  /\ replica' = [replica EXCEPT ![n] = "none"]
  /\ creation' = [creation EXCEPT ![n] = 0]
  /\ UNCHANGED <<clock, controlVars, parentVars, removedAt, up, request, att, faults>>

\* The periodic sweep: a live replica goes through remove_zone, a cold
\* directory is cleaned directly.
purge_deleted_zones(n) ==
  /\ n \in up /\ replica[n] # "none" /\ deletion_outranks_disk(n)
  /\ IF replica[n] = "live" THEN Removed({n})
     ELSE /\ replica' = [replica EXCEPT ![n] = "none"]
          /\ creation' = [creation EXCEPT ![n] = 0]
          /\ UNCHANGED removedAt
  /\ UNCHANGED <<clock, controlVars, parentVars, up, request, att, faults>>

----------------------------------------------------------------------------
(* Attempts *)

Running(a) == att[a].pc \notin {"idle", "done"}

Goto(a, pc) == att' = [att EXCEPT ![a].pc = pc]

\* complete, reject or refresh is about to judge the record.
Write(a, status) == att' = [att EXCEPT ![a].pc = "judge", ![a].next = status]

\* Attempt a is at pc for a request of one of the kinds.
Here(a, pc, kinds) == att[a].pc = pc /\ request[a] \in kinds

\* Mutant: a retry takes over at once.
pending_takeover_allowed_Now(rec) == TRUE

pending_takeover_allowed(rec) == clock - rec.stamp >= Grace

\* Mutant: put_inner reports without its read barrier.
Propose_NoBarrier(n, next) == ctl' = next /\ UNCHANGED view

\* put_inner: the proposal is applied, then read_barrier catches node n up.
Propose(n, next) == ctl' = next /\ view' = [view EXCEPT ![n] = next]

WithRecord(o, status, kind) ==
  [ctl EXCEPT !.rec[o] = [status |-> status, kind |-> kind, stamp |-> clock]]

\* begin_or_replay: the insert wins, or the record that is there answers.
Begin(a) ==
  LET n == At[a]
      o == Op[a]
      rec == ctl.rec[o]
  IN  /\ att[a].pc = "idle" /\ n \in up
      /\ \/ /\ rec.status = "ABSENT"
            /\ Propose(n, WithRecord(o, "PENDING", request[a]))
            /\ att' = [att EXCEPT ![a].pc = "start", ![a].born = ctl.deleted]
         \/ /\ rec.status # "ABSENT"
            /\ rec.status \in Terminal \/ rec.kind # request[a]
            /\ Propose(n, ctl)
            /\ Goto(a, "done")
         \/ /\ rec.status = "PENDING" /\ rec.kind = request[a]
            /\ pending_takeover_allowed(rec)
            /\ Propose(n, ctl)
            /\ att' = [att EXCEPT ![a].pc = "judge", ![a].next = "PENDING", ![a].born = ctl.deleted]
      /\ UNCHANGED <<clock, parentVars, diskVars, up, request, faults>>

\* After its write, a refresh goes on to execute; the other two are answered.
After(a) == IF att[a].next = "PENDING" THEN "start" ELSE "done"

\* ZoneOpJournal::transition reads the node's copy, twice; the second read
\* decides.  A record that is no longer PENDING is left as it is.
Judge(a) ==
  /\ att[a].pc = "judge"
  /\ Goto(a, IF view[At[a]].rec[Op[a]].status = "PENDING" THEN "put" ELSE After(a))
  /\ UNCHANGED <<clock, controlVars, parentVars, diskVars, up, request, faults>>

\* ... and its unconditional put.
Put(a) ==
  /\ att[a].pc = "put"
  /\ Propose(At[a], WithRecord(Op[a], att[a].next, request[a]))
  /\ Goto(a, After(a))
  /\ UNCHANGED <<clock, parentVars, diskVars, up, request, faults>>

\* An error that is no refusal: a proposal or a barrier that timed out, before
\* or after it was applied, or a read-back whose budget ran out.  The record
\* stays PENDING.
GiveUp(a) ==
  /\ Running(a) /\ faults < MaxFaults
  /\ faults' = faults + 1
  /\ Goto(a, "done")
  /\ UNCHANGED <<clock, controlVars, parentVars, diskVars, up, request>>

----------------------------------------------------------------------------
(* zone_create and zone_join *)

Found(a) ==
  LET n == At[a]
      refused == IF request[a] = "create" THEN view[n].deleted > 0 ELSE deletion_outranks_disk(n)
  IN  /\ Here(a, "start", {"create", "join"})
      /\ \/ refused /\ Write(a, "REJECTED") /\ UNCHANGED diskVars
         \/ ~refused /\ Write(a, "COMPLETED") /\ setup_zone(n)
      /\ UNCHANGED <<clock, controlVars, parentVars, up, request, faults>>

----------------------------------------------------------------------------
(* zone_mount and zone_unmount *)

\* Both deletion checks and the read of the mount point, on local copies.
CheckMount(a) ==
  LET n == At[a]
      refused == deletion_outranks_disk(n) \/ ~Accessible(n)
  IN  /\ Here(a, "start", {"mount"})
      /\ \/ refused /\ Write(a, "REJECTED") /\ UNCHANGED replica
         \/ /\ ~refused /\ Materialize(n)
            /\ Goto(a, CASE local[n] = "mount" -> "readback"
                         [] local[n] = "dir"   -> "put_mount"
                         [] local[n] = "none"  -> "put_dir")
      /\ UNCHANGED <<clock, controlVars, parentVars, creation, removedAt, up, request, faults>>

CheckUnmount(a) ==
  /\ Here(a, "start", {"unmount"})
  /\ IF local[At[a]] = "mount" THEN Goto(a, "put_dir") ELSE Write(a, "REJECTED")
  /\ UNCHANGED <<clock, controlVars, parentVars, diskVars, up, request, faults>>

\* The DT_DIR that a mount creates first, and that an unmount restores.
PutDir(a) ==
  /\ att[a].pc = "put_dir"
  /\ path' = "dir"
  /\ Goto(a, IF request[a] = "mount" THEN "put_mount" ELSE "count")
  /\ UNCHANGED <<clock, controlVars, local, links, diskVars, up, request, faults>>

PutMount(a) ==
  /\ att[a].pc = "put_mount"
  /\ path' = "mount"
  /\ Goto(a, "count")
  /\ UNCHANGED <<clock, controlVars, local, links, diskVars, up, request, faults>>

\* AdjustCounter in the target zone; it is clamped at 0.  On a node that lost
\* the target, an unmount leaves it out and a mount ends in an error.
Count(a) ==
  LET n == At[a]
  IN  /\ att[a].pc = "count"
      /\ \/ /\ Accessible(n) /\ Materialize(n)
            /\ links' = IF request[a] = "mount" THEN links + 1 ELSE IF links > 0 THEN links - 1 ELSE 0
            /\ Goto(a, "readback")
         \/ /\ ~Accessible(n)
            /\ Goto(a, IF request[a] = "mount" THEN "done" ELSE "readback")
            /\ UNCHANGED <<replica, links>>
      /\ UNCHANGED <<clock, controlVars, path, local, creation, removedAt, up, request, faults>>

\* poll_until_visible in the parent zone's local copy.
ReadBack(a) ==
  /\ att[a].pc = "readback"
  /\ (local[At[a]] = "mount") = (request[a] = "mount")
  /\ Write(a, "COMPLETED")
  /\ UNCHANGED <<clock, controlVars, parentVars, diskVars, up, request, faults>>

----------------------------------------------------------------------------
(* zone_deprovision *)

CheckHosted(a) ==
  /\ Here(a, "start", {"deprovision"})
  /\ IF replica[At[a]] = "none" THEN Write(a, "REJECTED") ELSE Goto(a, "links")
  /\ UNCHANGED <<clock, controlVars, parentVars, diskVars, up, request, faults>>

\* Mutant: the replicas are torn down without the mark.
ReadLinks_NoMark(a) ==
  LET n == At[a]
  IN  /\ att[a].pc = "links"
      /\ \/ ~Accessible(n) /\ Goto(a, "done") /\ UNCHANGED replica
         \/ /\ Accessible(n) /\ Materialize(n)
            /\ IF links > 0 THEN Write(a, "REJECTED") ELSE Goto(a, "fan_out")
      /\ UNCHANGED <<clock, controlVars, parentVars, creation, removedAt, up, request, faults>>

\* The linearizable link count: unanswerable, in use, or free to delete.
ReadLinks(a) ==
  LET n == At[a]
  IN  /\ att[a].pc = "links"
      /\ \/ ~Accessible(n) /\ Goto(a, "done") /\ UNCHANGED replica
         \/ /\ Accessible(n) /\ Materialize(n)
            /\ IF links > 0 THEN Write(a, "REJECTED") ELSE Goto(a, "mark_read")
      /\ UNCHANGED <<clock, controlVars, parentVars, creation, removedAt, up, request, faults>>

\* mark_deleted: barrier and read, then the put.
MarkRead(a) ==
  LET n == At[a]
      prev == ctl.deleted
  IN  /\ att[a].pc = "mark_read"
      /\ Propose(n, ctl)
      /\ att' = [att EXCEPT ![a].pc = "mark_put",
                            ![a].epoch = IF prev >= clock THEN prev + 1 ELSE clock]
      /\ UNCHANGED <<clock, parentVars, diskVars, up, request, faults>>

MarkPut(a) ==
  /\ att[a].pc = "mark_put"
  /\ Propose(At[a], [ctl EXCEPT !.deleted = att[a].epoch])
  /\ Goto(a, "fan_out")
  /\ UNCHANGED <<clock, parentVars, diskVars, up, request, faults>>

\* DeleteZone on the peers that answer; where get_node finds nothing, the
\* handler reports success and removes nothing.
FanOut(a) ==
  /\ att[a].pc = "fan_out"
  /\ \E reached \in SUBSET (up \ {At[a]}) : Removed({n \in reached : Accessible(n)})
  /\ Goto(a, "tear_down")
  /\ UNCHANGED <<clock, controlVars, parentVars, up, request, faults>>

\* remove_local_zone; a failure degrades the receipt.
TearDown(a) ==
  /\ att[a].pc = "tear_down"
  /\ Removed({At[a]} \cap {n \in Nodes : replica[n] = "live"})
  /\ Write(a, "COMPLETED")
  /\ UNCHANGED <<clock, controlVars, parentVars, up, request, faults>>

----------------------------------------------------------------------------
(* Time, replication and processes *)

Tick ==
  /\ clock < MaxTime
  /\ Prompt => \A a \in Attempts : Running(a) => clock + 1 < ctl.rec[Op[a]].stamp + Grace
  /\ clock' = clock + 1
  /\ UNCHANGED <<controlVars, parentVars, diskVars, up, request, att, faults>>

\* Node n applies what the control zone, or the parent zone, has committed.
CatchUpControl(n) ==
  /\ n \in up /\ view[n] # ctl
  /\ view' = [view EXCEPT ![n] = ctl]
  /\ UNCHANGED <<clock, ctl, parentVars, diskVars, up, request, att, faults>>

CatchUpParent(n) ==
  /\ n \in up /\ local[n] # path
  /\ local' = [local EXCEPT ![n] = path]
  /\ UNCHANGED <<clock, controlVars, path, links, diskVars, up, request, att, faults>>

Crash(n) ==
  /\ n \in up /\ faults < MaxFaults
  /\ faults' = faults + 1
  /\ up' = up \ {n}
  /\ replica' = [replica EXCEPT ![n] = IF @ = "live" THEN "cold" ELSE @]
  /\ removedAt' = [removedAt EXCEPT ![n] = 0]
  /\ att' = [a \in Attempts |->
       IF At[a] = n /\ Running(a) THEN [att[a] EXCEPT !.pc = "done"] ELSE att[a]]
  /\ UNCHANGED <<clock, controlVars, parentVars, creation, request>>

\* Boot indexes the directory and purges by the copy it has.
Boot(n) ==
  /\ n \notin up
  /\ up' = up \cup {n}
  /\ IF replica[n] = "cold" /\ deletion_outranks_disk(n)
     THEN /\ replica' = [replica EXCEPT ![n] = "none"]
          /\ creation' = [creation EXCEPT ![n] = 0]
     ELSE UNCHANGED <<replica, creation>>
  /\ UNCHANGED <<clock, controlVars, parentVars, removedAt, request, att, faults>>

----------------------------------------------------------------------------
Execute(a) ==
  \/ Judge(a) \/ Put(a) \/ Found(a)
  \/ CheckMount(a) \/ CheckUnmount(a) \/ PutDir(a) \/ PutMount(a) \/ Count(a) \/ ReadBack(a)
  \/ CheckHosted(a) \/ ReadLinks(a) \/ MarkRead(a) \/ MarkPut(a) \/ FanOut(a) \/ TearDown(a)

Next ==
  \/ Tick
  \/ \E a \in Attempts : Begin(a) \/ Execute(a) \/ GiveUp(a)
  \/ \E n \in Nodes : \/ StepMessage(n) \/ purge_deleted_zones(n)
                      \/ CatchUpControl(n) \/ CatchUpParent(n) \/ Crash(n) \/ Boot(n)

Spec == Init /\ [][Next]_vars

\* A process is restarted, the sweep's timer fires, and a node that runs
\* applies what the control zone commits.
FairSpec ==
  /\ Spec
  /\ \A n \in Nodes : /\ WF_vars(Boot(n)) /\ WF_vars(CatchUpControl(n))
                      /\ WF_vars(purge_deleted_zones(n))

----------------------------------------------------------------------------
(* Properties *)

Record == [status : {"ABSENT", "PENDING"} \cup Terminal, kind : Kinds \cup {"none"}, stamp : Nat]
Control == [rec : [Ops -> Record], deleted : Nat]
Steps ==
  {"idle", "judge", "put", "start", "put_dir", "put_mount", "count", "readback",
   "links", "mark_read", "mark_put", "fan_out", "tear_down", "done"}

TypeOK ==
  /\ clock \in Nat \ {0}
  /\ ctl \in Control /\ view \in [Nodes -> Control]
  /\ path \in {"none", "dir", "mount"} /\ local \in [Nodes -> {"none", "dir", "mount"}]
  /\ links \in Nat
  /\ replica \in [Nodes -> {"none", "cold", "live"}]
  /\ creation \in [Nodes -> Nat] /\ removedAt \in [Nodes -> Nat]
  /\ up \subseteq Nodes
  /\ request \in Requests
  /\ att \in [Attempts -> [pc : Steps, next : {"PENDING"} \cup Terminal, epoch : Nat, born : Nat]]

\* zone_deprovision: "the epoch must exist in the replicated registry before
\* any replica tears down, so a crash mid-fan-out still leaves the
\* anti-resurrection authority in place": a directory is missing only when the
\* deletion is recorded.
DeletionRecordedFirst == \A n \in Nodes : replica[n] = "none" => ctl.deleted > 0

\* zone_op_journal.rs: "Record status — a one-way walk": while executions end
\* within the grace and retries of one operation come one at a time, crashes
\* and takeovers never change an outcome.
OneWayWalk ==
  [][\A o \in Ops : ctl.rec[o].status \in Terminal => ctl'.rec[o].status = ctl.rec[o].status]_vars

\* zone_mount: "a mount onto a deprovisioned target would outlive it and leave
\* a dangling DT_MOUNT": an attempt that began after a deletion was recorded
\* never gets past the check, on whatever node it runs, unless the zone was
\* founded anew.
LateMountsRefused ==
  [][\A a \in Attempts :
       Here(a, "start", {"mount"}) /\ att'[a].pc \in {"put_dir", "put_mount", "readback"}
         => creation[At[a]] >= att[a].born]_vars

\* What DeletionRecordedFirst rests on: an attempt removes replicas only after
\* it has put the mark, and a mark that a node has seen has been put.
MarkedFirst ==
  /\ \A a \in Attempts : /\ att[a].pc \in {"fan_out", "tear_down"} => ctl.deleted > 0
                         /\ att[a].pc = "mark_put" => att[a].epoch > 0
  /\ \A n \in Nodes : view[n].deleted > 0 => ctl.deleted > 0
  /\ DeletionRecordedFirst

\* What the other two rest on: executions end within the grace and an operation
\* is retried once at most, so that one attempt of an operation runs at a time, ...
PromptRetries ==
  /\ Prompt /\ Grace > 0
  /\ \A a, b, c \in Attempts : Op[a] = Op[b] /\ Op[b] = Op[c] => a = b \/ b = c \/ a = c

Alone(a) == \A b \in Attempts \ {a} : Op[b] = Op[a] => att[b].pc = "idle"

SingleFlight ==
  \A a \in Attempts :
    /\ ctl.rec[Op[a]].status = "ABSENT" <=> att[a].pc = "idle" /\ Alone(a)
    /\ Running(a) => ctl.rec[Op[a]].status = "PENDING"
    /\ Running(a) => \A b \in Attempts \ {a} : Op[b] = Op[a] => ~Running(b)
    /\ Running(a) /\ Alone(a) => clock < ctl.rec[Op[a]].stamp + Grace

\* ... and the deprovisions of the zone are of one operation, so that deletion
\* epochs only grow.
OneDeprovision ==
  \A r \in Requests : \A a, b \in Attempts :
    r[a] = "deprovision" /\ r[b] = "deprovision" => Op[a] = Op[b]

EpochsGrow ==
  /\ \A n \in Nodes : view[n].deleted <= ctl.deleted
  /\ \A a \in Attempts :
       /\ att[a].pc \in {"links", "mark_read", "mark_put"} => request[a] = "deprovision"
       /\ att[a].pc = "mark_put" => att[a].epoch >= ctl.deleted
       /\ Running(a) => att[a].born <= view[At[a]].deleted

\* purge_deleted_zones: replicas "that miss the fan-out are suppressed at boot
\* by the epoch-vs-creation check", and the periodic sweep catches "a zone that
\* slipped through RESIDENT": in the end no replica predates the deletion.
StaleReplicasVanish ==
  <>[](\A n \in Nodes : replica[n] # "none" => creation[n] >= ctl.deleted)

\* refuse_if_deleted: "a deprovisioned zone stays gone": without a create, no
\* replica is newer than the deletion.
StaysGone ==
  \A n \in Nodes : ctl.deleted > 0 /\ replica[n] # "none" => creation[n] < ctl.deleted

\* zone_deprovision: "Refusing here keeps the receipt and the
\* physical world consistent": the only deprovision is REJECTED only when nothing was deleted.
RejectedMeansUntouched ==
  \A a \in Attempts :
    request[a] = "deprovision" /\ ctl.rec[Op[a]].status = "REJECTED" => ctl.deleted = 0

\* begin_or_replay takes over because "the mutation layer is idempotent": once
\* a mount operation is COMPLETED and nothing runs, the mount is counted.
MountsAreCounted ==
  /\ path = "mount" /\ (\A a \in Attempts : ~Running(a))
  /\ \E a \in Attempts : request[a] = "mount" /\ ctl.rec[Op[a]].status = "COMPLETED"
  => links > 0 \/ ctl.deleted > 0

\* zone_deprovision guards the link count because "deprovisioning a zone that
\* is still MOUNTED would leave every parent holding a dangling DT_MOUNT".
NoDanglingMount ==
  (\A a \in Attempts : ~Running(a)) /\ ctl.deleted > 0 => path # "mount"
=============================================================================
