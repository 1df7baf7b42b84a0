----------------------------- MODULE ZoneProofs ------------------------------
(***************************************************************************)
(* Proofs about two protocols that the nodes of a zone run over its log.   *)
(*                                                                         *)
(* ZoneOperations: for any nodes, attempts, operations and faults, a       *)
(* directory is missing only when the deletion is recorded; and, when an   *)
(* operation is retried at most once and executions end within the grace,  *)
(* outcomes are final and late mounts are refused.                         *)
(*                                                                         *)
(* Membership: for any founders, joiners, calls and elections, only nodes  *)
(* that were reached become voters.                                        *)
(*                                                                         *)
(* The two parts use no fact of each other.                                *)
(***************************************************************************)
EXTENDS ZoneOperations, Membership, SequenceTheorems, WellFoundedInduction, TLAPS

----------------------------------------------------------------------------
(* ZoneOperations *)

Attempt == [pc : Steps, next : {"PENDING"} \cup Terminal, epoch : Nat, born : Nat]

LEMMA GotoType ==
  ASSUME TypeOK, NEW a \in Attempts, NEW x \in Steps, Goto(a, x)
  PROVE  /\ att' \in [Attempts -> Attempt]
         /\ att'[a].pc = x /\ att'[a].epoch = att[a].epoch /\ att'[a].born = att[a].born
         /\ \A b \in Attempts \ {a} : att'[b] = att[b]
<1>1. att \in [Attempts -> Attempt]
  BY DEF TypeOK, Attempt
<1>2. att' = [att EXCEPT ![a] = [att[a] EXCEPT !.pc = x]]
  BY <1>1 DEF Goto
<1> QED BY <1>1, <1>2 DEF Attempt

LEMMA WriteType ==
  ASSUME TypeOK, NEW a \in Attempts, NEW x \in {"PENDING"} \cup Terminal, Write(a, x)
  PROVE  /\ att' \in [Attempts -> Attempt]
         /\ att'[a].pc = "judge" /\ att'[a].epoch = att[a].epoch /\ att'[a].born = att[a].born
         /\ \A b \in Attempts \ {a} : att'[b] = att[b]
<1>1. att \in [Attempts -> Attempt]
  BY DEF TypeOK, Attempt
<1>2. att' = [att EXCEPT ![a] = [att[a] EXCEPT !.pc = "judge", !.next = x]]
  BY <1>1 DEF Write
<1> QED BY <1>1, <1>2 DEF Attempt, Steps

\* A record of the journal.
LEMMA WithRecordType ==
  ASSUME TypeOK, NEW o \in Ops, NEW x \in {"PENDING"} \cup Terminal, NEW k \in Kinds
  PROVE  LET c == WithRecord(o, x, k)
         IN  /\ c \in Control /\ c.deleted = ctl.deleted
             /\ c.rec[o].status = x /\ c.rec[o].stamp = clock
             /\ \A p \in Ops \ {o} : c.rec[p] = ctl.rec[p]
<1>1. ctl \in Control /\ clock \in Nat
  BY DEF TypeOK
<1>2. WithRecord(o, x, k) =
        [ctl EXCEPT !.rec = [ctl.rec EXCEPT ![o] = [status |-> x, kind |-> k, stamp |-> clock]]]
  BY <1>1 DEF WithRecord
<1> QED BY <1>1, <1>2 DEF Control, Record

\* A proposal that is applied, with its read barrier.
LEMMA ProposeType ==
  ASSUME TypeOK, NEW n \in Nodes, NEW c \in Control, Propose(n, c)
  PROVE  /\ ctl' = c /\ view' \in [Nodes -> Control] /\ view'[n] = c
         /\ \A m \in Nodes \ {n} : view'[m] = view[m]
BY DEF Propose, TypeOK

----------------------------------------------------------------------------
(* The steps of an attempt that propose nothing in the control zone *)

Quiet(a) ==
  /\ UNCHANGED <<ctl, view, clock, request>>
  /\ Running(a)
  /\ att' \in [Attempts -> Attempt] /\ \A b \in Attempts \ {a} : att'[b] = att[b]
  /\ att'[a].epoch = att[a].epoch /\ att'[a].born = att[a].born
  /\ att'[a].pc \notin {"idle", "mark_put"}
  /\ att'[a].pc \in {"fan_out", "tear_down"} => att[a].pc = "fan_out"
  /\ att'[a].pc \in {"links", "mark_read"} => request[a] = "deprovision" \/ att[a].pc = "links"

\* Directories go away only where a deletion is known or was marked.
Disk ==
  /\ replica' \in [Nodes -> {"none", "cold", "live"}]
  /\ creation' \in [Nodes -> Nat] /\ removedAt' \in [Nodes -> Nat]
  /\ \A n \in Nodes : replica'[n] = "none" =>
       \/ replica[n] = "none"
       \/ view[n].deleted > 0
       \/ \E a \in Attempts : att[a].pc \in {"fan_out", "tear_down"}

LEMMA Constants ==
  ASSUME TypeOK, NEW a \in Attempts
  PROVE  /\ At[a] \in Nodes /\ Op[a] \in Ops /\ request[a] \in Kinds
         /\ att[a] \in Attempt /\ clock \in Nat \ {0}
BY ZoneOperationsAssumption DEF TypeOK, Attempt

LEMMA DiskSame ==
  ASSUME TypeOK, UNCHANGED diskVars
  PROVE  Disk
BY DEF TypeOK, Disk, diskVars

LEMMA DiskSetup ==
  ASSUME TypeOK, NEW n \in Nodes,
         \/ setup_zone(n)
         \/ Materialize(n) /\ UNCHANGED <<creation, removedAt>>
  PROVE  Disk
<1>1. /\ replica \in [Nodes -> {"none", "cold", "live"}] /\ clock \in Nat
      /\ creation \in [Nodes -> Nat] /\ removedAt \in [Nodes -> Nat]
  BY DEF TypeOK
<1> QED BY <1>1 DEF Disk, setup_zone, Materialize

LEMMA DiskRemoved ==
  ASSUME TypeOK, NEW N, Removed(N),
         \/ \E a \in Attempts : att[a].pc \in {"fan_out", "tear_down"}
         \/ \A n \in N : view[n].deleted > 0
  PROVE  Disk
<1>1. /\ replica \in [Nodes -> {"none", "cold", "live"}] /\ clock \in Nat
      /\ creation \in [Nodes -> Nat] /\ removedAt \in [Nodes -> Nat]
  BY DEF TypeOK
<1> QED BY <1>1 DEF Disk, Removed

\* A purge removes what the node's own copy says is deleted.
LEMMA Outranked ==
  ASSUME TypeOK, NEW n \in Nodes, deletion_outranks_disk(n)
  PROVE  view[n].deleted > 0
BY DEF TypeOK, deletion_outranks_disk, Control

Rest ==
  /\ path' \in {"none", "dir", "mount"} /\ local' \in [Nodes -> {"none", "dir", "mount"}]
  /\ links' \in Nat /\ up' \subseteq Nodes

LEMMA JournalQuiet ==
  ASSUME TypeOK, NEW a \in Attempts, Judge(a) \/ GiveUp(a)
  PROVE  Quiet(a) /\ Disk /\ Rest
<1>1. Rest /\ Disk /\ UNCHANGED <<ctl, view, clock, request>> /\ Running(a)
  BY DiskSame DEF Judge, GiveUp, parentVars, controlVars, Rest, TypeOK, Running
<1>2. \E x \in {"put", "start", "done"} : Goto(a, x)
  BY DEF Judge, GiveUp, After
<1>3. PICK x \in {"put", "start", "done"} : Goto(a, x)
  BY <1>2
<1>4. x \in Steps
  BY DEF Steps
<1> QED BY <1>1, <1>3, <1>4, GotoType DEF Quiet

LEMMA FoundQuiet ==
  ASSUME TypeOK, NEW a \in Attempts, Found(a)
  PROVE  Quiet(a) /\ Disk /\ Rest
<1>1. Rest /\ UNCHANGED <<ctl, view, clock, request>> /\ Running(a) /\ att[a].pc = "start"
  BY DEF Found, Here, parentVars, controlVars, Rest, TypeOK, Running
<1>2. Disk
  BY Constants, DiskSame, DiskSetup DEF Found
<1>3. Write(a, "REJECTED") \/ Write(a, "COMPLETED")
  BY DEF Found
<1>4. /\ att' \in [Attempts -> Attempt]
      /\ att'[a].pc = "judge" /\ att'[a].epoch = att[a].epoch /\ att'[a].born = att[a].born
      /\ \A b \in Attempts \ {a} : att'[b] = att[b]
  BY <1>3, WriteType DEF Terminal
<1> QED BY <1>1, <1>2, <1>4 DEF Quiet

LEMMA MountQuiet ==
  ASSUME TypeOK, NEW a \in Attempts,
         CheckMount(a) \/ CheckUnmount(a) \/ PutDir(a) \/ PutMount(a) \/ Count(a) \/ ReadBack(a)
  PROVE  Quiet(a) /\ Disk /\ Rest
<1>1. UNCHANGED <<ctl, view, clock, request, up>> /\ Running(a)
      /\ att[a].pc \in {"start", "put_dir", "put_mount", "count", "readback"}
  BY DEF CheckMount, CheckUnmount, PutDir, PutMount, Count, ReadBack, Here, controlVars, Running
<1>2. Rest
  BY <1>1 DEF CheckMount, CheckUnmount, PutDir, PutMount, Count, ReadBack, parentVars, Rest, TypeOK
<1>3. Disk
  <2>1. UNCHANGED diskVars \/ (Materialize(At[a]) /\ UNCHANGED <<creation, removedAt>>)
    BY DEF CheckMount, CheckUnmount, PutDir, PutMount, Count, ReadBack, diskVars
  <2> QED BY <2>1, Constants, DiskSame, DiskSetup
<1>4. \/ Write(a, "REJECTED") \/ Write(a, "COMPLETED")
      \/ \E x \in {"readback", "put_mount", "put_dir", "count", "done"} : Goto(a, x)
  <2>1. CASE CheckMount(a)
    <3>1. local[At[a]] \in {"none", "dir", "mount"}
      BY Constants DEF TypeOK
    <3> QED BY <2>1, <3>1 DEF CheckMount
  <2>2. CASE CheckUnmount(a)
    BY <2>2 DEF CheckUnmount
  <2>3. CASE PutDir(a) \/ PutMount(a)
    BY <2>3 DEF PutDir, PutMount
  <2>4. CASE Count(a) \/ ReadBack(a)
    BY <2>4 DEF Count, ReadBack
  <2> QED BY <2>1, <2>2, <2>3, <2>4
<1>5. /\ att' \in [Attempts -> Attempt]
      /\ att'[a].pc \in {"judge", "readback", "put_mount", "put_dir", "count", "done"}
      /\ att'[a].epoch = att[a].epoch /\ att'[a].born = att[a].born
      /\ \A b \in Attempts \ {a} : att'[b] = att[b]
  <2>1. CASE Write(a, "REJECTED") \/ Write(a, "COMPLETED")
    BY <2>1, WriteType DEF Terminal
  <2>2. ASSUME NEW x \in {"readback", "put_mount", "put_dir", "count", "done"}, Goto(a, x)
        PROVE  /\ att' \in [Attempts -> Attempt] /\ att'[a].pc = x
               /\ att'[a].epoch = att[a].epoch /\ att'[a].born = att[a].born
               /\ \A b \in Attempts \ {a} : att'[b] = att[b]
    <3>1. x \in Steps
      BY DEF Steps
    <3> QED BY <2>2, <3>1, GotoType
  <2> QED BY <1>4, <2>1, <2>2
<1> QED BY <1>1, <1>2, <1>3, <1>5 DEF Quiet

LEMMA DeprovisionQuiet ==
  ASSUME TypeOK, NEW a \in Attempts,
         CheckHosted(a) \/ ReadLinks(a) \/ FanOut(a) \/ TearDown(a)
  PROVE  Quiet(a) /\ Disk /\ Rest
<1>1. UNCHANGED <<ctl, view, clock, request, up>> /\ Running(a)
  BY DEF CheckHosted, ReadLinks, FanOut, TearDown, Here, controlVars, Running
<1>2. Rest
  BY <1>1 DEF CheckHosted, ReadLinks, FanOut, TearDown, parentVars, Rest, TypeOK
<1>3. Disk
  <2>1. \/ UNCHANGED diskVars
        \/ Materialize(At[a]) /\ UNCHANGED <<creation, removedAt>>
        \/ att[a].pc \in {"fan_out", "tear_down"} /\ \E N : Removed(N)
    BY DEF CheckHosted, ReadLinks, FanOut, TearDown, diskVars
  <2> QED BY <2>1, Constants, DiskSame, DiskSetup, DiskRemoved
<1>4. \/ Write(a, "REJECTED") \/ Write(a, "COMPLETED") \/ Goto(a, "done")
      \/ Goto(a, "links") /\ request[a] = "deprovision"
      \/ Goto(a, "mark_read") /\ att[a].pc = "links"
      \/ Goto(a, "tear_down") /\ att[a].pc = "fan_out"
  BY DEF CheckHosted, ReadLinks, FanOut, TearDown, Here
<1>5. \A x \in {"done", "links", "mark_read", "tear_down"} : x \in Steps
  BY DEF Steps
<1>6. /\ att' \in [Attempts -> Attempt]
      /\ \/ att'[a].pc \in {"judge", "done"}
         \/ att'[a].pc = "links" /\ request[a] = "deprovision"
         \/ att'[a].pc = "mark_read" /\ att[a].pc = "links"
         \/ att'[a].pc = "tear_down" /\ att[a].pc = "fan_out"
      /\ att'[a].epoch = att[a].epoch /\ att'[a].born = att[a].born
      /\ \A b \in Attempts \ {a} : att'[b] = att[b]
  <2>1. CASE Write(a, "REJECTED") \/ Write(a, "COMPLETED")
    BY <2>1, WriteType DEF Terminal
  <2>2. CASE ~(Write(a, "REJECTED") \/ Write(a, "COMPLETED"))
    BY <1>4, <1>5, <2>2, GotoType
  <2> QED BY <2>1, <2>2
<1> QED BY <1>1, <1>2, <1>3, <1>6 DEF Quiet

LEMMA QuietType ==
  ASSUME TypeOK, NEW a \in Attempts, Quiet(a), Disk, Rest
  PROVE  TypeOK'
BY DEF TypeOK, Quiet, Disk, Rest, Attempt

LEMMA QuietMarked ==
  ASSUME TypeOK, MarkedFirst, NEW a \in Attempts, Quiet(a), Disk
  PROVE  MarkedFirst'
<1>1. UNCHANGED <<ctl, view>>
  BY DEF Quiet
<1>2. \A b \in Attempts : /\ att'[b].pc \in {"fan_out", "tear_down"} => ctl'.deleted > 0
                          /\ att'[b].pc = "mark_put" => att'[b].epoch > 0
  BY <1>1 DEF Quiet, MarkedFirst
<1>3. DeletionRecordedFirst'
  BY <1>1 DEF MarkedFirst, DeletionRecordedFirst, Disk
<1> QED BY <1>1, <1>2, <1>3 DEF MarkedFirst

LEMMA QuietFlight ==
  ASSUME TypeOK, SingleFlight, NEW a \in Attempts, Quiet(a)
  PROVE  SingleFlight'
<1>1. UNCHANGED <<ctl, clock>> /\ Running(a) /\ att[a].pc # "idle"
  BY DEF Quiet, Running
<1>2. \A b \in Attempts : /\ Running(b)' => Running(b)
                          /\ att'[b].pc = "idle" <=> att[b].pc = "idle"
                          /\ Alone(b)' <=> Alone(b)
  BY <1>1 DEF Quiet, Running, Alone
<1> QED BY <1>1, <1>2 DEF SingleFlight

LEMMA QuietEpochs ==
  ASSUME TypeOK, EpochsGrow, NEW a \in Attempts, Quiet(a)
  PROVE  EpochsGrow'
<1>1. UNCHANGED <<ctl, view, request>> /\ Running(a)
  BY DEF Quiet
<1>2. \A b \in Attempts :
        /\ att'[b].pc \in {"links", "mark_read", "mark_put"} => request'[b] = "deprovision"
        /\ att'[b].pc = "mark_put" => att'[b].epoch >= ctl'.deleted
        /\ Running(b)' => att'[b].born <= view'[At[b]].deleted
  BY <1>1 DEF Quiet, EpochsGrow, Running
<1> QED BY <1>1, <1>2 DEF EpochsGrow

----------------------------------------------------------------------------
(* The steps in the control zone *)

\* What a running attempt gets from begin_or_replay.
Begun(a) ==
  /\ att' \in [Attempts -> Attempt] /\ \A b \in Attempts \ {a} : att'[b] = att[b]
  /\ ctl' \in Control /\ ctl'.deleted = ctl.deleted
  /\ view' \in [Nodes -> Control] /\ view'[At[a]].deleted = ctl.deleted
  /\ \A m \in Nodes \ {At[a]} : view'[m] = view[m]
  /\ \A o \in Ops \ {Op[a]} : ctl'.rec[o] = ctl.rec[o]
  /\ \/ /\ ctl.rec[Op[a]].status = "ABSENT" /\ att'[a].pc = "start" /\ att'[a].born = ctl.deleted
        /\ ctl'.rec[Op[a]].status = "PENDING" /\ ctl'.rec[Op[a]].stamp = clock
     \/ att'[a].pc = "done" /\ ctl' = ctl /\ ctl.rec[Op[a]].status # "ABSENT"
     \/ /\ ctl.rec[Op[a]].status = "PENDING" /\ ctl' = ctl
        /\ clock - ctl.rec[Op[a]].stamp >= Grace
        /\ att'[a].pc = "judge" /\ att'[a].born = ctl.deleted

LEMMA BeginBegun ==
  ASSUME TypeOK, NEW a \in Attempts, Begin(a)
  PROVE  Begun(a)
<1> DEFINE n == At[a]
           o == Op[a]
           rec == ctl.rec[o]
<1>1. n \in Nodes /\ o \in Ops /\ request[a] \in Kinds /\ ctl \in Control
      /\ att \in [Attempts -> Attempt]
  BY Constants DEF TypeOK, Attempt
<1>2. CASE /\ rec.status = "ABSENT"
           /\ Propose(n, WithRecord(o, "PENDING", request[a]))
           /\ att' = [att EXCEPT ![a].pc = "start", ![a].born = ctl.deleted]
  <2> "PENDING" \in {"PENDING"} \cup Terminal
    OBVIOUS
  <2>1. LET c == WithRecord(o, "PENDING", request[a])
        IN  /\ c \in Control /\ c.deleted = ctl.deleted
            /\ c.rec[o].status = "PENDING" /\ c.rec[o].stamp = clock
            /\ \A p \in Ops \ {o} : c.rec[p] = ctl.rec[p]
    <3> HIDE DEF n, o, rec
    <3> QED BY <1>1, WithRecordType, Zenon
  <2>2. /\ ctl' = WithRecord(o, "PENDING", request[a]) /\ view' \in [Nodes -> Control]
        /\ view'[n] = WithRecord(o, "PENDING", request[a])
        /\ \A m \in Nodes \ {n} : view'[m] = view[m]
    BY <1>1, <1>2, <2>1, ProposeType
  <2>3. att' = [att EXCEPT ![a] = [att[a] EXCEPT !.pc = "start", !.born = ctl.deleted]]
    BY <1>1, <1>2
  <2>4. /\ att' \in [Attempts -> Attempt] /\ \A b \in Attempts \ {a} : att'[b] = att[b]
        /\ att'[a].pc = "start" /\ att'[a].born = ctl.deleted
    BY <1>1, <2>3 DEF Attempt, Steps, Control
  <2> QED BY <1>2, <2>1, <2>2, <2>4 DEF Begun
<1>3. CASE rec.status # "ABSENT" /\ Propose(n, ctl) /\ Goto(a, "done")
  <2>1. /\ ctl' = ctl /\ view' \in [Nodes -> Control] /\ view'[n] = ctl
        /\ \A m \in Nodes \ {n} : view'[m] = view[m]
    BY <1>1, <1>3, ProposeType
  <2>2. "done" \in Steps
    BY DEF Steps
  <2> QED BY <1>1, <1>3, <2>1, <2>2, GotoType DEF Begun
<1>4. CASE /\ rec.status = "PENDING" /\ pending_takeover_allowed(rec) /\ Propose(n, ctl)
           /\ att' = [att EXCEPT ![a].pc = "judge", ![a].next = "PENDING", ![a].born = ctl.deleted]
  <2>1. /\ ctl' = ctl /\ view' \in [Nodes -> Control] /\ view'[n] = ctl
        /\ \A m \in Nodes \ {n} : view'[m] = view[m]
    BY <1>1, <1>4, ProposeType
  <2>2. att' = [att EXCEPT ![a] = [att[a] EXCEPT !.pc = "judge", !.next = "PENDING",
                                                 !.born = ctl.deleted]]
    BY <1>1, <1>4
  <2>3. /\ att' \in [Attempts -> Attempt] /\ \A b \in Attempts \ {a} : att'[b] = att[b]
        /\ att'[a].pc = "judge" /\ att'[a].born = ctl.deleted
    BY <1>1, <2>2 DEF Attempt, Steps, Control
  <2>4. clock - rec.stamp >= Grace
    BY <1>4 DEF pending_takeover_allowed
  <2> QED BY <1>1, <1>4, <2>1, <2>3, <2>4 DEF Begun
<1> QED BY <1>2, <1>3, <1>4 DEF Begin

LEMMA BeginInv ==
  ASSUME TypeOK, MarkedFirst, NEW a \in Attempts, Begin(a)
  PROVE  TypeOK' /\ MarkedFirst'
<1>1. Begun(a) /\ att[a].pc = "idle"
  BY BeginBegun DEF Begin
<1>2. UNCHANGED <<clock, path, local, links, replica, creation, removedAt, up, request>>
  BY DEF Begin, parentVars, diskVars
<1>3. TypeOK'
  BY <1>1, <1>2 DEF TypeOK, Begun, Attempt
<1>4. \A b \in Attempts : /\ att'[b].pc \in {"fan_out", "tear_down"} => ctl'.deleted > 0
                          /\ att'[b].pc = "mark_put" => att'[b].epoch > 0
  BY <1>1 DEF Begun, MarkedFirst
<1>5. \A m \in Nodes : view'[m].deleted > 0 => ctl'.deleted > 0
  BY <1>1, Constants DEF Begun, MarkedFirst
<1>6. DeletionRecordedFirst'
  BY <1>1, <1>2 DEF Begun, MarkedFirst, DeletionRecordedFirst
<1> QED BY <1>3, <1>4, <1>5, <1>6 DEF MarkedFirst

\* The second attempt of an operation begins when the first has ended.
LEMMA BeginFlight ==
  ASSUME TypeOK, PromptRetries, SingleFlight, NEW a \in Attempts, Begin(a)
  PROVE  SingleFlight'
<1>1. Begun(a) /\ att[a].pc = "idle" /\ clock' = clock
  BY BeginBegun DEF Begin
<1>2. clock \in Nat /\ Grace \in Nat /\ Grace > 0 /\ ctl \in Control
  BY ZoneOperationsAssumption DEF TypeOK, PromptRetries
<1>3. \A b \in Attempts : Op[b] \in Ops /\ ctl.rec[Op[b]].stamp \in Nat
  BY <1>2, Constants DEF Control, Record
<1>4. \A b \in Attempts \ {a} : /\ att'[b] = att[b] /\ (Running(b)' <=> Running(b))
                                /\ Op[b] = Op[a] => ~Alone(b)'
                                /\ Op[b] # Op[a] => (Alone(b)' <=> Alone(b))
  BY <1>1 DEF Begun, Running, Alone
<1>5. \A b \in Attempts \ {a} : Op[b] # Op[a] => ctl'.rec[Op[b]] = ctl.rec[Op[b]]
  BY <1>1, <1>3 DEF Begun
<1>6. ASSUME NEW b \in Attempts, Op[b] # Op[a]
      PROVE  /\ ctl'.rec[Op[b]].status = "ABSENT" <=> att'[b].pc = "idle" /\ Alone(b)'
             /\ Running(b)' => ctl'.rec[Op[b]].status = "PENDING"
             /\ Running(b)' => \A d \in Attempts \ {b} : Op[d] = Op[b] => ~Running(d)'
             /\ Running(b)' /\ Alone(b)' => clock' < ctl'.rec[Op[b]].stamp + Grace
  BY <1>1, <1>4, <1>5, <1>6 DEF SingleFlight
<1>7. Alone(a)' <=> Alone(a)
  BY <1>4 DEF Alone
<1>8. /\ ctl'.rec[Op[a]].status # "ABSENT" /\ att'[a].pc # "idle"
      /\ Running(a)' => ctl'.rec[Op[a]].status = "PENDING"
  BY <1>1 DEF Begun, Running
<1>9. Running(a)' => \A b \in Attempts \ {a} : Op[b] = Op[a] => ~Running(b)
  <2> SUFFICES ASSUME Running(a)', NEW b \in Attempts \ {a}, Op[b] = Op[a], Running(b)
               PROVE  FALSE
    OBVIOUS
  <2>1. ctl.rec[Op[a]].status = "PENDING" /\ clock - ctl.rec[Op[a]].stamp >= Grace
    <3>1. ctl.rec[Op[a]].status # "ABSENT"
      BY DEF SingleFlight, Running
    <3> QED BY <1>1, <3>1 DEF Begun, Running
  <2>2. Alone(b)
    BY <1>1 DEF PromptRetries, Alone
  <2>3. clock < ctl.rec[Op[a]].stamp + Grace
    BY <2>2 DEF SingleFlight
  <2> QED BY <1>2, <1>3, <2>1, <2>3
<1>10. Running(a)' /\ Alone(a)' => clock' < ctl'.rec[Op[a]].stamp + Grace
  <2> SUFFICES ASSUME Running(a)', Alone(a)
               PROVE  clock < ctl'.rec[Op[a]].stamp + Grace
    BY <1>1, <1>7
  <2>1. ctl.rec[Op[a]].status = "ABSENT"
    BY <1>1 DEF SingleFlight
  <2>2. ctl'.rec[Op[a]].stamp = clock
    BY <1>1, <2>1 DEF Begun, Running
  <2> QED BY <1>2, <2>2
<1>11. \A b \in Attempts : Op[b] = Op[a] /\ Running(b)' =>
         /\ ctl'.rec[Op[b]].status = "PENDING"
         /\ \A d \in Attempts \ {b} : Op[d] = Op[b] => ~Running(d)'
  BY <1>1, <1>4, <1>8, <1>9 DEF SingleFlight, Begun
<1>12. \A b \in Attempts : Op[b] = Op[a] =>
         /\ ctl'.rec[Op[b]].status = "ABSENT" <=> att'[b].pc = "idle" /\ Alone(b)'
         /\ Running(b)' /\ Alone(b)' => clock' < ctl'.rec[Op[b]].stamp + Grace
  BY <1>4, <1>8, <1>10
<1> QED BY <1>6, <1>11, <1>12 DEF SingleFlight

LEMMA BeginEpochs ==
  ASSUME TypeOK, EpochsGrow, NEW a \in Attempts, Begin(a)
  PROVE  EpochsGrow'
<1>1. Begun(a) /\ request' = request /\ At[a] \in Nodes /\ ctl.deleted \in Nat
  BY BeginBegun, Constants DEF Begin, TypeOK, Control
<1>2. \A n \in Nodes : view'[n].deleted <= ctl'.deleted /\ view[n].deleted <= view'[n].deleted
  <2> SUFFICES ASSUME NEW n \in Nodes
               PROVE  view'[n].deleted <= ctl'.deleted /\ view[n].deleted <= view'[n].deleted
    OBVIOUS
  <2>1. view[n].deleted \in Nat /\ view[n].deleted <= ctl.deleted /\ ctl'.deleted = ctl.deleted
    BY <1>1 DEF TypeOK, Control, EpochsGrow, Begun
  <2>2. view'[n].deleted = ctl.deleted \/ view'[n] = view[n]
    BY <1>1 DEF Begun
  <2> QED BY <1>1, <2>1, <2>2
<1>3. ASSUME NEW b \in Attempts
      PROVE  /\ att'[b].pc \in {"links", "mark_read", "mark_put"} => request'[b] = "deprovision"
             /\ att'[b].pc = "mark_put" => att'[b].epoch >= ctl'.deleted
             /\ Running(b)' => att'[b].born <= view'[At[b]].deleted
  <2>1. CASE b = a
    BY <1>1, <2>1 DEF Begun, Running
  <2>2. CASE b # a
    <3>1. att'[b] = att[b] /\ (Running(b)' <=> Running(b)) /\ ctl'.deleted = ctl.deleted
      BY <1>1, <2>2 DEF Begun, Running
    <3>2. /\ att[b].born \in Nat /\ At[b] \in Nodes
          /\ view[At[b]].deleted \in Nat /\ view'[At[b]].deleted \in Nat
      BY <1>1, Constants DEF Attempt, TypeOK, Control, Begun
    <3>3. Running(b) => att[b].born <= view'[At[b]].deleted
      BY <1>2, <3>2 DEF EpochsGrow
    <3> QED BY <1>1, <3>1, <3>3 DEF EpochsGrow
  <2> QED BY <2>1, <2>2
<1> QED BY <1>2, <1>3 DEF EpochsGrow

\* ZoneOpJournal's put.
LEMMA PutEffect ==
  ASSUME TypeOK, NEW a \in Attempts, Put(a)
  PROVE  /\ att[a].pc = "put" /\ Running(a)
         /\ att' \in [Attempts -> Attempt] /\ \A b \in Attempts \ {a} : att'[b] = att[b]
         /\ att'[a].pc = (IF att[a].next = "PENDING" THEN "start" ELSE "done")
         /\ att'[a].born = att[a].born
         /\ ctl' \in Control /\ ctl'.deleted = ctl.deleted
         /\ ctl'.rec[Op[a]].status = att[a].next /\ ctl'.rec[Op[a]].stamp = clock
         /\ \A o \in Ops \ {Op[a]} : ctl'.rec[o] = ctl.rec[o]
         /\ view' \in [Nodes -> Control] /\ view'[At[a]].deleted = ctl.deleted
         /\ \A m \in Nodes \ {At[a]} : view'[m] = view[m]
         /\ UNCHANGED <<clock, path, local, links, replica, creation, removedAt, up, request>>
<1> DEFINE c == WithRecord(Op[a], att[a].next, request[a])
<1>1. /\ At[a] \in Nodes /\ Op[a] \in Ops /\ request[a] \in Kinds
      /\ att[a].next \in {"PENDING"} \cup Terminal
  BY Constants DEF Attempt
<1>2. /\ c \in Control /\ c.deleted = ctl.deleted
      /\ c.rec[Op[a]].status = att[a].next /\ c.rec[Op[a]].stamp = clock
      /\ \A p \in Ops \ {Op[a]} : c.rec[p] = ctl.rec[p]
  BY <1>1, WithRecordType
<1> HIDE DEF c
<1>3. Propose(At[a], c) /\ Goto(a, After(a)) /\ att[a].pc = "put"
      /\ UNCHANGED <<clock, path, local, links, replica, creation, removedAt, up, request>>
  BY DEF Put, c, parentVars, diskVars
<1>4. /\ ctl' = c /\ view' \in [Nodes -> Control] /\ view'[At[a]] = c
      /\ \A m \in Nodes \ {At[a]} : view'[m] = view[m]
  BY <1>1, <1>2, <1>3, ProposeType
<1>5. After(a) \in Steps /\ After(a) = IF att[a].next = "PENDING" THEN "start" ELSE "done"
  BY DEF After, Steps
<1> QED BY <1>2, <1>3, <1>4, <1>5, GotoType DEF Running

LEMMA PutInv ==
  ASSUME TypeOK, MarkedFirst, NEW a \in Attempts, Put(a)
  PROVE  TypeOK' /\ MarkedFirst'
<1>1. TypeOK'
  BY PutEffect DEF TypeOK, Attempt
<1>2. \A b \in Attempts : /\ att'[b].pc \in {"fan_out", "tear_down"} => ctl'.deleted > 0
                          /\ att'[b].pc = "mark_put" => att'[b].epoch > 0
  BY PutEffect DEF MarkedFirst
<1>3. \A m \in Nodes : view'[m].deleted > 0 => ctl'.deleted > 0
  BY PutEffect, Constants DEF MarkedFirst
<1>4. DeletionRecordedFirst'
  BY PutEffect DEF MarkedFirst, DeletionRecordedFirst
<1> QED BY <1>1, <1>2, <1>3, <1>4 DEF MarkedFirst

LEMMA PutFlight ==
  ASSUME TypeOK, PromptRetries, SingleFlight, NEW a \in Attempts, Put(a)
  PROVE  SingleFlight'
<1>1. /\ Running(a) /\ att[a].pc = "put" /\ clock' = clock
      /\ att'[a].pc = (IF att[a].next = "PENDING" THEN "start" ELSE "done")
      /\ ctl'.rec[Op[a]].status = att[a].next /\ ctl'.rec[Op[a]].stamp = clock
      /\ \A b \in Attempts \ {a} : att'[b] = att[b]
      /\ \A o \in Ops \ {Op[a]} : ctl'.rec[o] = ctl.rec[o]
  BY PutEffect
<1>2. clock \in Nat /\ Grace \in Nat /\ Grace > 0 /\ att[a].next # "ABSENT"
  BY Constants, ZoneOperationsAssumption DEF TypeOK, PromptRetries, Attempt, Terminal
<1>3. \A b \in Attempts : /\ Running(b)' => Running(b)
                          /\ att'[b].pc = "idle" <=> att[b].pc = "idle"
                          /\ Alone(b)' <=> Alone(b)
                          /\ Op[b] \in Ops
  BY <1>1, Constants DEF Running, Alone
<1>4. ASSUME NEW b \in Attempts, Op[b] # Op[a]
      PROVE  /\ ctl'.rec[Op[b]].status = "ABSENT" <=> att'[b].pc = "idle" /\ Alone(b)'
             /\ Running(b)' => ctl'.rec[Op[b]].status = "PENDING"
             /\ Running(b)' => \A d \in Attempts \ {b} : Op[d] = Op[b] => ~Running(d)'
             /\ Running(b)' /\ Alone(b)' => clock' < ctl'.rec[Op[b]].stamp + Grace
  BY <1>1, <1>3, <1>4 DEF SingleFlight
<1>5. \A b \in Attempts \ {a} : Op[b] = Op[a] => ~Running(b) /\ ~Running(b)' /\ ~Alone(b)
  BY <1>1, <1>3 DEF SingleFlight, Alone
<1>6. Running(a)' => att[a].next = "PENDING"
  BY <1>1 DEF Running
<1>7. clock < clock + Grace
  BY <1>2
<1>8. ASSUME NEW b \in Attempts, Op[b] = Op[a]
      PROVE  /\ ctl'.rec[Op[b]].status = "ABSENT" <=> att'[b].pc = "idle" /\ Alone(b)'
             /\ Running(b)' => ctl'.rec[Op[b]].status = "PENDING"
             /\ Running(b)' => \A d \in Attempts \ {b} : Op[d] = Op[b] => ~Running(d)'
             /\ Running(b)' /\ Alone(b)' => clock' < ctl'.rec[Op[b]].stamp + Grace
  BY <1>1, <1>2, <1>3, <1>5, <1>6, <1>7, <1>8
<1> QED BY <1>4, <1>8 DEF SingleFlight

LEMMA PutEpochs ==
  ASSUME TypeOK, EpochsGrow, NEW a \in Attempts, Put(a)
  PROVE  EpochsGrow'
<1>1. /\ At[a] \in Nodes /\ ctl.deleted \in Nat /\ request' = request /\ Running(a)
      /\ ctl'.deleted = ctl.deleted /\ view' \in [Nodes -> Control]
      /\ att'[a].pc \in {"start", "done"} /\ att'[a].born = att[a].born
      /\ \A b \in Attempts \ {a} : att'[b] = att[b]
  BY PutEffect, Constants DEF TypeOK, Control
<1>2. ASSUME NEW n \in Nodes
      PROVE  view'[n].deleted <= ctl'.deleted /\ view[n].deleted <= view'[n].deleted
  <2>1. view[n].deleted \in Nat /\ view[n].deleted <= ctl.deleted
    BY DEF TypeOK, Control, EpochsGrow
  <2>2. view'[n].deleted = ctl.deleted \/ view'[n] = view[n]
    BY PutEffect
  <2> QED BY <1>1, <2>1, <2>2
<1>3. ASSUME NEW b \in Attempts
      PROVE  /\ att'[b].pc \in {"links", "mark_read", "mark_put"} => request'[b] = "deprovision"
             /\ att'[b].pc = "mark_put" => att'[b].epoch >= ctl'.deleted
             /\ Running(b)' => att'[b].born <= view'[At[b]].deleted
  <2>1. /\ att[b].born \in Nat /\ At[b] \in Nodes
        /\ view[At[b]].deleted \in Nat /\ view'[At[b]].deleted \in Nat
    BY <1>1, Constants DEF Attempt, TypeOK, Control
  <2>2. Running(b) => att[b].born <= view'[At[b]].deleted
    BY <1>2, <2>1 DEF EpochsGrow
  <2>3. att'[b].born = att[b].born /\ (Running(b)' => Running(b))
    BY <1>1 DEF Running
  <2> QED BY <1>1, <2>2, <2>3 DEF EpochsGrow
<1> QED BY <1>2, <1>3 DEF EpochsGrow

\* mark_deleted reads an epoch and picks a later one.
LEMMA MarkReadEffect ==
  ASSUME TypeOK, NEW a \in Attempts, MarkRead(a)
  PROVE  /\ att[a].pc = "mark_read" /\ Running(a)
         /\ att' \in [Attempts -> Attempt] /\ \A b \in Attempts \ {a} : att'[b] = att[b]
         /\ att'[a].pc = "mark_put" /\ att'[a].born = att[a].born
         /\ att'[a].epoch > 0 /\ att'[a].epoch > ctl.deleted - 1
         /\ ctl' = ctl /\ view' \in [Nodes -> Control] /\ view'[At[a]] = ctl
         /\ \A m \in Nodes \ {At[a]} : view'[m] = view[m]
         /\ UNCHANGED <<clock, path, local, links, replica, creation, removedAt, up, request>>
<1> DEFINE e == IF ctl.deleted >= clock THEN ctl.deleted + 1 ELSE clock
<1>1. /\ At[a] \in Nodes /\ ctl \in Control /\ ctl.deleted \in Nat /\ clock \in Nat \ {0}
      /\ att \in [Attempts -> Attempt]
  BY Constants DEF TypeOK, Control, Attempt
<1>2. e \in Nat /\ e > 0 /\ e > ctl.deleted - 1
  BY <1>1
<1>3. /\ Propose(At[a], ctl) /\ att[a].pc = "mark_read"
      /\ UNCHANGED <<clock, path, local, links, replica, creation, removedAt, up, request>>
      /\ att' = [att EXCEPT ![a] = [att[a] EXCEPT !.pc = "mark_put", !.epoch = e]]
  BY <1>1 DEF MarkRead, parentVars, diskVars
<1> HIDE DEF e
<1>4. /\ att' \in [Attempts -> Attempt] /\ \A b \in Attempts \ {a} : att'[b] = att[b]
      /\ att'[a].pc = "mark_put" /\ att'[a].born = att[a].born /\ att'[a].epoch = e
  BY <1>1, <1>2, <1>3 DEF Attempt, Steps
<1> QED BY <1>1, <1>2, <1>3, <1>4, ProposeType DEF Running

\* ... and puts it.
LEMMA MarkPutEffect ==
  ASSUME TypeOK, NEW a \in Attempts, MarkPut(a)
  PROVE  /\ att[a].pc = "mark_put" /\ Running(a)
         /\ att' \in [Attempts -> Attempt] /\ \A b \in Attempts \ {a} : att'[b] = att[b]
         /\ att'[a].pc = "fan_out" /\ att'[a].born = att[a].born
         /\ ctl' \in Control /\ ctl'.deleted = att[a].epoch /\ ctl'.rec = ctl.rec
         /\ view' \in [Nodes -> Control] /\ view'[At[a]] = ctl'
         /\ \A m \in Nodes \ {At[a]} : view'[m] = view[m]
         /\ UNCHANGED <<clock, path, local, links, replica, creation, removedAt, up, request>>
<1> DEFINE c == [ctl EXCEPT !.deleted = att[a].epoch]
<1>1. At[a] \in Nodes /\ ctl \in Control /\ att[a].epoch \in Nat
  BY Constants DEF TypeOK, Attempt
<1>2. c \in Control /\ c.deleted = att[a].epoch /\ c.rec = ctl.rec
  BY <1>1 DEF Control
<1>3. /\ Propose(At[a], c) /\ att[a].pc = "mark_put" /\ Goto(a, "fan_out")
      /\ UNCHANGED <<clock, path, local, links, replica, creation, removedAt, up, request>>
  BY DEF MarkPut, parentVars, diskVars
<1> HIDE DEF c
<1>4. "fan_out" \in Steps
  BY DEF Steps
<1> QED BY <1>1, <1>2, <1>3, <1>4, ProposeType, GotoType DEF Running

LEMMA MarkInv ==
  ASSUME TypeOK, MarkedFirst, NEW a \in Attempts, MarkRead(a) \/ MarkPut(a)
  PROVE  TypeOK' /\ MarkedFirst'
<1>1. CASE MarkRead(a)
  <2>1. TypeOK'
    BY <1>1, MarkReadEffect DEF TypeOK, Attempt
  <2>2. \A b \in Attempts : /\ att'[b].pc \in {"fan_out", "tear_down"} => ctl'.deleted > 0
                            /\ att'[b].pc = "mark_put" => att'[b].epoch > 0
    BY <1>1, MarkReadEffect DEF MarkedFirst
  <2>3. \A m \in Nodes : view'[m].deleted > 0 => ctl'.deleted > 0
    BY <1>1, MarkReadEffect, Constants DEF MarkedFirst
  <2>4. DeletionRecordedFirst'
    BY <1>1, MarkReadEffect DEF MarkedFirst, DeletionRecordedFirst
  <2> QED BY <2>1, <2>2, <2>3, <2>4 DEF MarkedFirst
<1>2. CASE MarkPut(a)
  <2>1. TypeOK'
    BY <1>2, MarkPutEffect DEF TypeOK, Attempt
  <2>2. ctl'.deleted > 0
    BY <1>2, MarkPutEffect DEF MarkedFirst
  <2>3. \A b \in Attempts : att'[b].pc = "mark_put" => att'[b].epoch > 0
    BY <1>2, MarkPutEffect DEF MarkedFirst
  <2> QED BY <2>1, <2>2, <2>3 DEF MarkedFirst, DeletionRecordedFirst
<1> QED BY <1>1, <1>2

LEMMA MarkFlight ==
  ASSUME TypeOK, SingleFlight, NEW a \in Attempts, MarkRead(a) \/ MarkPut(a)
  PROVE  SingleFlight'
<1>1. /\ ctl'.rec = ctl.rec /\ clock' = clock /\ Running(a) /\ att[a].pc # "idle"
      /\ att'[a].pc \in {"mark_put", "fan_out"}
      /\ \A b \in Attempts \ {a} : att'[b] = att[b]
  BY MarkReadEffect, MarkPutEffect
<1>2. \A b \in Attempts : /\ Running(b)' => Running(b)
                          /\ att'[b].pc = "idle" <=> att[b].pc = "idle"
                          /\ Alone(b)' <=> Alone(b)
  BY <1>1 DEF Running, Alone
<1> QED BY <1>1, <1>2 DEF SingleFlight

LEMMA MarkEpochs ==
  ASSUME TypeOK, SingleFlight, OneDeprovision, EpochsGrow, NEW a \in Attempts,
         MarkRead(a) \/ MarkPut(a)
  PROVE  EpochsGrow' /\ ctl.deleted <= ctl'.deleted
<1>1. /\ At[a] \in Nodes /\ ctl.deleted \in Nat /\ ctl'.deleted \in Nat /\ request' = request
      /\ Running(a) /\ att'[a].born = att[a].born /\ att'[a].pc \in {"mark_put", "fan_out"}
      /\ \A b \in Attempts \ {a} : att'[b] = att[b]
      /\ att[a].pc \in {"mark_read", "mark_put"} /\ request[a] = "deprovision"
      /\ view' \in [Nodes -> Control] /\ att[a].epoch \in Nat /\ att'[a].epoch \in Nat
  BY MarkReadEffect, MarkPutEffect, Constants DEF TypeOK, Control, Attempt, EpochsGrow
<1>2. ctl.deleted <= ctl'.deleted
  BY <1>1, MarkReadEffect, MarkPutEffect DEF EpochsGrow
<1>3. ASSUME NEW n \in Nodes
      PROVE  view'[n].deleted <= ctl'.deleted /\ view[n].deleted <= view'[n].deleted
  <2>1. view[n].deleted \in Nat /\ view[n].deleted <= ctl.deleted
    BY DEF TypeOK, Control, EpochsGrow
  <2>2. view'[n] = ctl' \/ view'[n] = view[n]
    BY MarkReadEffect, MarkPutEffect
  <2> QED BY <1>1, <1>2, <2>1, <2>2
<1>4. \A b \in Attempts \ {a} : att[b].pc # "mark_put"
  <2> SUFFICES ASSUME NEW b \in Attempts \ {a}, att[b].pc = "mark_put" PROVE FALSE
    OBVIOUS
  <2>1. request[b] = "deprovision" /\ request \in Requests
    BY DEF EpochsGrow, TypeOK
  <2>2. Op[b] = Op[a]
    BY <1>1, <2>1 DEF OneDeprovision
  <2> QED BY <1>1, <2>2 DEF SingleFlight, Running
<1>5. att'[a].pc = "mark_put" => att'[a].epoch >= ctl'.deleted
  BY <1>1, MarkReadEffect, MarkPutEffect
<1>6. ASSUME NEW b \in Attempts
      PROVE  /\ att'[b].pc \in {"links", "mark_read", "mark_put"} => request'[b] = "deprovision"
             /\ att'[b].pc = "mark_put" => att'[b].epoch >= ctl'.deleted
             /\ Running(b)' => att'[b].born <= view'[At[b]].deleted
  <2>1. /\ att[b].born \in Nat /\ At[b] \in Nodes
        /\ view[At[b]].deleted \in Nat /\ view'[At[b]].deleted \in Nat
    BY <1>1, Constants DEF Attempt, TypeOK, Control
  <2>2. Running(b) => att[b].born <= view'[At[b]].deleted
    BY <1>3, <2>1 DEF EpochsGrow
  <2>3. att'[b].born = att[b].born /\ (Running(b)' => Running(b))
    BY <1>1 DEF Running
  <2> QED BY <1>1, <1>4, <1>5, <2>2, <2>3 DEF EpochsGrow
<1> QED BY <1>2, <1>3, <1>6 DEF EpochsGrow

----------------------------------------------------------------------------
(* The other steps *)

\* Disks and copies of the parent zone.
LEMMA DiskInv ==
  ASSUME TypeOK, MarkedFirst, NEW n \in Nodes,
         StepMessage(n) \/ purge_deleted_zones(n) \/ CatchUpParent(n) \/ Boot(n)
  PROVE  TypeOK' /\ MarkedFirst' /\ UNCHANGED <<clock, ctl, view, att, request>>
<1>1. UNCHANGED <<clock, ctl, view, att, request>>
  BY DEF StepMessage, purge_deleted_zones, CatchUpParent, Boot, controlVars
<1>2. Rest
  BY DEF StepMessage, purge_deleted_zones, CatchUpParent, Boot, parentVars, Rest, TypeOK
<1>3. Disk
  <2>1. CASE StepMessage(n)
    BY <2>1, DiskSetup DEF StepMessage
  <2>2. CASE CatchUpParent(n)
    BY <2>2, DiskSame DEF CatchUpParent
  <2>3. CASE deletion_outranks_disk(n) /\ Removed({n})
    <3>1. \A m \in {n} : view[m].deleted > 0
      BY <2>3, Outranked
    <3> QED BY <2>3, <3>1, DiskRemoved
  <2>4. CASE /\ deletion_outranks_disk(n) /\ removedAt' = removedAt
             /\ replica' = [replica EXCEPT ![n] = "none"]
             /\ creation' = [creation EXCEPT ![n] = 0]
    <3>1. view[n].deleted > 0
      BY <2>4, Outranked
    <3> QED BY <2>4, <3>1 DEF TypeOK, Disk
  <2>5. CASE purge_deleted_zones(n)
    BY <2>3, <2>4, <2>5 DEF purge_deleted_zones
  <2>6. CASE Boot(n)
    BY <2>4, <2>6, DiskSame DEF Boot, diskVars
  <2> QED BY <2>1, <2>2, <2>5, <2>6
<1>4. TypeOK'
  BY <1>1, <1>2, <1>3 DEF TypeOK, Disk, Rest
<1>5. DeletionRecordedFirst'
  BY <1>1, <1>3 DEF MarkedFirst, DeletionRecordedFirst, Disk
<1> QED BY <1>1, <1>4, <1>5 DEF MarkedFirst

\* A node's copy of the control zone.
LEMMA CatchUpInv ==
  ASSUME TypeOK, MarkedFirst, NEW n \in Nodes, CatchUpControl(n)
  PROVE  TypeOK' /\ MarkedFirst'
<1>1. /\ view' = [view EXCEPT ![n] = ctl]
      /\ UNCHANGED <<clock, ctl, path, local, links, replica, creation, removedAt, up, request, att>>
  BY DEF CatchUpControl, parentVars, diskVars
<1> QED BY <1>1 DEF TypeOK, MarkedFirst, DeletionRecordedFirst

LEMMA CatchUpEpochs ==
  ASSUME TypeOK, EpochsGrow, NEW n \in Nodes, CatchUpControl(n)
  PROVE  EpochsGrow'
<1>1. view' = [view EXCEPT ![n] = ctl] /\ UNCHANGED <<ctl, request, att>>
  BY DEF CatchUpControl
<1>2. ctl.deleted \in Nat /\ view \in [Nodes -> Control]
  BY DEF TypeOK, Control
<1>3. ASSUME NEW m \in Nodes
      PROVE  /\ view'[m].deleted <= ctl.deleted /\ view[m].deleted <= view'[m].deleted
             /\ view[m].deleted \in Nat /\ view'[m].deleted \in Nat
  <2>1. view'[m] = ctl \/ view'[m] = view[m]
    BY <1>1, <1>2
  <2>2. view[m].deleted \in Nat /\ view[m].deleted <= ctl.deleted
    BY <1>2 DEF Control, EpochsGrow
  <2> QED BY <1>2, <2>1, <2>2
<1>4. \A b \in Attempts : Running(b) => att[b].born <= view'[At[b]].deleted
  <2> SUFFICES ASSUME NEW b \in Attempts, Running(b) PROVE att[b].born <= view'[At[b]].deleted
    OBVIOUS
  <2>1. /\ At[b] \in Nodes /\ att[b].born \in Nat /\ att[b].born <= view[At[b]].deleted
    BY Constants DEF EpochsGrow, Attempt
  <2> QED BY <1>3, <2>1
<1> QED BY <1>1, <1>3, <1>4 DEF EpochsGrow, Running

\* A crash ends the attempts the node serves.
LEMMA CrashInv ==
  ASSUME TypeOK, MarkedFirst, NEW n \in Nodes, Crash(n)
  PROVE  /\ TypeOK' /\ MarkedFirst' /\ UNCHANGED <<clock, ctl, view, request>>
         /\ \A a \in Attempts : \/ att'[a] = att[a]
                                \/ Running(a) /\ att'[a].pc = "done"
<1>1. UNCHANGED <<clock, ctl, view, path, local, links, creation, request>>
  BY DEF Crash, controlVars, parentVars
<1>2. /\ att' \in [Attempts -> Attempt]
      /\ \A a \in Attempts : \/ att'[a] = att[a]
                             \/ Running(a) /\ att'[a].pc = "done" /\ att'[a].epoch = att[a].epoch
  <2>1. \A a \in Attempts :
          /\ att[a] \in Attempt
          /\ att'[a] = IF At[a] = n /\ Running(a) THEN [att[a] EXCEPT !.pc = "done"] ELSE att[a]
    BY Constants DEF Crash
  <2>2. \A a \in Attempts : att'[a] \in Attempt
    BY <2>1 DEF Attempt, Steps
  <2>3. \A a \in Attempts : \/ att'[a] = att[a]
                            \/ Running(a) /\ att'[a].pc = "done" /\ att'[a].epoch = att[a].epoch
    BY <2>1 DEF Attempt
  <2>4. att' = [a \in Attempts |-> att'[a]]
    BY DEF Crash
  <2> QED BY <2>2, <2>3, <2>4
<1>3. /\ replica' \in [Nodes -> {"none", "cold", "live"}] /\ removedAt' \in [Nodes -> Nat]
      /\ up' \subseteq Nodes /\ \A m \in Nodes : replica'[m] = "none" => replica[m] = "none"
  BY DEF Crash, TypeOK
<1>4. TypeOK'
  BY <1>1, <1>2, <1>3 DEF TypeOK, Attempt
<1>5. MarkedFirst'
  BY <1>1, <1>2, <1>3 DEF MarkedFirst, DeletionRecordedFirst
<1> QED BY <1>1, <1>2, <1>4, <1>5

LEMMA CrashFlight ==
  ASSUME TypeOK, MarkedFirst, SingleFlight, NEW n \in Nodes, Crash(n)
  PROVE  SingleFlight'
<1>1. UNCHANGED <<clock, ctl>>
      /\ \A a \in Attempts : att'[a] = att[a] \/ (Running(a) /\ att'[a].pc = "done")
  BY CrashInv
<1>2. \A b \in Attempts : /\ Running(b)' => Running(b)
                          /\ att'[b].pc = "idle" <=> att[b].pc = "idle"
  BY <1>1 DEF Running
<1>3. \A b \in Attempts : Alone(b)' <=> Alone(b)
  BY <1>2 DEF Alone
<1> QED BY <1>1, <1>2, <1>3 DEF SingleFlight

LEMMA CrashEpochs ==
  ASSUME TypeOK, MarkedFirst, EpochsGrow, NEW n \in Nodes, Crash(n)
  PROVE  EpochsGrow'
<1>1. UNCHANGED <<ctl, view, request>>
      /\ \A a \in Attempts : att'[a] = att[a] \/ (Running(a) /\ att'[a].pc = "done")
  BY CrashInv
<1> QED BY <1>1 DEF EpochsGrow, Running

\* Time passes only while every execution is within the grace.
LEMMA TickInv ==
  ASSUME TypeOK, MarkedFirst, Tick
  PROVE  TypeOK' /\ MarkedFirst' /\ UNCHANGED <<ctl, view, att, request>>
<1>1. /\ clock' = clock + 1
      /\ UNCHANGED <<ctl, view, path, local, links, replica, creation, removedAt, up, request, att>>
  BY DEF Tick, controlVars, parentVars, diskVars
<1> QED BY <1>1 DEF TypeOK, MarkedFirst, DeletionRecordedFirst

LEMMA TickFlight ==
  ASSUME PromptRetries, SingleFlight, Tick
  PROVE  SingleFlight'
<1>1. /\ clock' = clock + 1 /\ UNCHANGED <<ctl, att>>
      /\ \A a \in Attempts : Running(a) => clock + 1 < ctl.rec[Op[a]].stamp + Grace
  BY DEF Tick, PromptRetries, controlVars
<1> QED BY <1>1 DEF SingleFlight, Running, Alone

----------------------------------------------------------------------------
(* Theorems *)

\* A step of an attempt is one of those above.
LEMMA Executes ==
  ASSUME TypeOK, NEW a \in Attempts, Begin(a) \/ Execute(a) \/ GiveUp(a)
  PROVE  \/ Quiet(a) /\ Disk /\ Rest
         \/ Begin(a) \/ Put(a) \/ MarkRead(a) \/ MarkPut(a)
BY JournalQuiet, FoundQuiet, MountQuiet, DeprovisionQuiet DEF Execute

LEMMA InitZone == Init => TypeOK /\ MarkedFirst /\ SingleFlight /\ EpochsGrow
<1> SUFFICES ASSUME Init PROVE TypeOK /\ MarkedFirst /\ SingleFlight /\ EpochsGrow
  OBVIOUS
<1>1. /\ ctl = [rec |-> [o \in Ops |-> Absent], deleted |-> 0] /\ ctl \in Control
      /\ ctl.deleted = 0 /\ \A o \in Ops : ctl.rec[o].status = "ABSENT"
  BY DEF Init, Control, Record, Absent
<1>2. view \in [Nodes -> Control] /\ \A n \in Nodes : view[n] = ctl
  BY <1>1 DEF Init
<1>3. /\ att \in [Attempts -> Attempt]
      /\ \A a \in Attempts : att[a].pc = "idle"
  BY DEF Init, Attempt, Steps
<1>4. TypeOK
  BY <1>1, <1>2, <1>3 DEF Init, TypeOK, Attempt
<1>5. MarkedFirst
  BY <1>1, <1>2, <1>3 DEF Init, MarkedFirst, DeletionRecordedFirst
<1>6. SingleFlight
  BY <1>1, <1>3, Constants, <1>4 DEF SingleFlight, Running, Alone
<1>7. EpochsGrow
  BY <1>1, <1>2, <1>3 DEF EpochsGrow, Running
<1> QED BY <1>4, <1>5, <1>6, <1>7

LEMMA StepMarked ==
  ASSUME TypeOK, MarkedFirst, [Next]_vars
  PROVE  TypeOK' /\ MarkedFirst'
<1>1. CASE Tick
  BY <1>1, TickInv
<1>2. CASE \E a \in Attempts : Begin(a) \/ Execute(a) \/ GiveUp(a)
  <2>1. PICK a \in Attempts : Begin(a) \/ Execute(a) \/ GiveUp(a)
    BY <1>2
  <2> QED BY <2>1, Executes, QuietType, QuietMarked, BeginInv, PutInv, MarkInv
<1>3. CASE \E n \in Nodes : \/ StepMessage(n) \/ purge_deleted_zones(n)
                            \/ CatchUpControl(n) \/ CatchUpParent(n) \/ Crash(n) \/ Boot(n)
  BY <1>3, DiskInv, CatchUpInv, CrashInv
<1>4. CASE UNCHANGED vars
  BY <1>4 DEF vars, controlVars, parentVars, diskVars, TypeOK, MarkedFirst, DeletionRecordedFirst
<1> QED BY <1>1, <1>2, <1>3, <1>4 DEF Next

LEMMA StepFlight ==
  ASSUME TypeOK, MarkedFirst, PromptRetries, SingleFlight, [Next]_vars
  PROVE  SingleFlight'
<1>1. CASE Tick
  BY <1>1, TickFlight
<1>2. CASE \E a \in Attempts : Begin(a) \/ Execute(a) \/ GiveUp(a)
  <2>1. PICK a \in Attempts : Begin(a) \/ Execute(a) \/ GiveUp(a)
    BY <1>2
  <2> QED BY <2>1, Executes, QuietFlight, BeginFlight, PutFlight, MarkFlight
<1>3. CASE UNCHANGED <<clock, ctl, att>>
  BY <1>3 DEF SingleFlight, Running, Alone
<1>4. CASE \E n \in Nodes : \/ StepMessage(n) \/ purge_deleted_zones(n)
                            \/ CatchUpControl(n) \/ CatchUpParent(n) \/ Crash(n) \/ Boot(n)
  <2>1. CASE \E n \in Nodes : Crash(n)
    BY <2>1, CrashFlight
  <2>2. CASE \E n \in Nodes : CatchUpControl(n)
    BY <1>3, <2>2 DEF CatchUpControl
  <2> QED BY <1>3, <1>4, <2>1, <2>2, DiskInv
<1> QED BY <1>1, <1>2, <1>3, <1>4 DEF Next, vars, controlVars

LEMMA StepEpochs ==
  ASSUME TypeOK, MarkedFirst, OneDeprovision, SingleFlight, EpochsGrow, [Next]_vars
  PROVE  EpochsGrow'
<1>1. CASE UNCHANGED <<ctl, view, request, att>>
  BY <1>1 DEF EpochsGrow, Running
<1>2. CASE \E a \in Attempts : Begin(a) \/ Execute(a) \/ GiveUp(a)
  <2>1. PICK a \in Attempts : Begin(a) \/ Execute(a) \/ GiveUp(a)
    BY <1>2
  <2> QED BY <2>1, Executes, QuietEpochs, BeginEpochs, PutEpochs, MarkEpochs
<1>3. CASE \E n \in Nodes : \/ StepMessage(n) \/ purge_deleted_zones(n)
                            \/ CatchUpControl(n) \/ CatchUpParent(n) \/ Crash(n) \/ Boot(n)
  BY <1>1, <1>3, DiskInv, CatchUpEpochs, CrashEpochs
<1> QED BY <1>1, <1>2, <1>3, TickInv DEF Next, vars, controlVars

\* The types of the registry, the journal, the disks and the attempts.
THEOREM ZoneTypes == Spec => []TypeOK
<1>1. TypeOK /\ MarkedFirst /\ [Next]_vars => TypeOK' /\ MarkedFirst'
  BY StepMarked
<1> QED BY <1>1, InitZone, PTL DEF Spec

\* zone_deprovision: for any number of nodes, attempts and faults, a replica's
\* directory is missing only when the deletion is in the control zone.
THEOREM RecordedTheorem == Spec => []DeletionRecordedFirst
<1>1. TypeOK /\ MarkedFirst /\ [Next]_vars => TypeOK' /\ MarkedFirst'
  BY StepMarked
<1>2. MarkedFirst => DeletionRecordedFirst
  BY DEF MarkedFirst
<1> QED BY <1>1, <1>2, InitZone, PTL DEF Spec

\* begin_or_replay: one attempt of an operation runs at a time, if each is
\* retried once at most and executions end within the grace.
THEOREM FlightTheorem ==
  ASSUME PromptRetries
  PROVE  Spec => []SingleFlight
<1>1. /\ TypeOK /\ MarkedFirst /\ [Next]_vars => TypeOK' /\ MarkedFirst'
      /\ TypeOK /\ MarkedFirst /\ SingleFlight /\ [Next]_vars => SingleFlight'
  BY StepMarked, StepFlight
<1> QED BY <1>1, InitZone, PTL DEF Spec

\* Only a put of the journal changes the status of a record that is there.
LEMMA OutcomeFinal ==
  ASSUME TypeOK, MarkedFirst, SingleFlight, [Next]_vars
  PROVE  \A o \in Ops : ctl.rec[o].status \in Terminal => ctl'.rec[o].status = ctl.rec[o].status
<1>1. CASE ctl'.rec = ctl.rec
  BY <1>1
<1>2. CASE \E a \in Attempts : Begin(a) \/ Execute(a) \/ GiveUp(a)
  <2>1. PICK a \in Attempts : Begin(a) \/ Execute(a) \/ GiveUp(a)
    BY <1>2
  <2>2. CASE Begin(a)
    <3>1. /\ \A o \in Ops \ {Op[a]} : ctl'.rec[o] = ctl.rec[o]
          /\ ctl.rec[Op[a]].status = "ABSENT" \/ ctl' = ctl
      BY <2>2, BeginBegun DEF Begun
    <3> QED BY <3>1 DEF Terminal
  <2>3. CASE Put(a)
    <3>1. /\ Running(a) /\ \A o \in Ops \ {Op[a]} : ctl'.rec[o] = ctl.rec[o]
      BY <2>3, PutEffect
    <3>2. ctl.rec[Op[a]].status = "PENDING"
      BY <3>1 DEF SingleFlight
    <3> QED BY <3>1, <3>2 DEF Terminal
  <2>4. CASE MarkRead(a) \/ MarkPut(a)
    BY <1>1, <2>4, MarkReadEffect, MarkPutEffect
  <2>5. CASE Quiet(a)
    BY <1>1, <2>5 DEF Quiet
  <2> QED BY <2>1, <2>2, <2>3, <2>4, <2>5, Executes
<1>3. CASE \E n \in Nodes : \/ StepMessage(n) \/ purge_deleted_zones(n)
                            \/ CatchUpControl(n) \/ CatchUpParent(n) \/ Crash(n) \/ Boot(n)
  <2>1. CASE \E n \in Nodes : CatchUpControl(n)
    BY <1>1, <2>1 DEF CatchUpControl
  <2> QED BY <1>1, <1>3, <2>1, DiskInv, CrashInv
<1> QED BY <1>1, <1>2, <1>3, TickInv DEF Next, vars, controlVars

\* zone_op_journal.rs: the outcome of an operation is final.
THEOREM WalkTheorem ==
  ASSUME PromptRetries
  PROVE  Spec => OneWayWalk
<1> DEFINE Final == \A o \in Ops :
             ctl.rec[o].status \in Terminal => ctl'.rec[o].status = ctl.rec[o].status
<1>1. /\ TypeOK /\ MarkedFirst /\ [Next]_vars => TypeOK' /\ MarkedFirst'
      /\ TypeOK /\ MarkedFirst /\ SingleFlight /\ [Next]_vars => SingleFlight'
  BY StepMarked, StepFlight
<1>2. TypeOK /\ MarkedFirst /\ SingleFlight /\ [Next]_vars => [Final]_vars
  BY OutcomeFinal
<1> QED BY <1>1, <1>2, InitZone, PTL DEF Spec, OneWayWalk

\* What takes a mount past its check is the check.
LEMMA PastTheCheck ==
  ASSUME TypeOK, MarkedFirst, [Next]_vars, NEW a \in Attempts, Here(a, "start", {"mount"}),
         att'[a].pc \in {"put_dir", "put_mount", "readback"}
  PROVE  CheckMount(a)
<1>1. att[a].pc = "start" /\ request[a] = "mount" /\ att'[a] # att[a]
  BY DEF Here
<1>2. CASE \E b \in Attempts : Begin(b) \/ Execute(b) \/ GiveUp(b)
  <2>1. PICK b \in Attempts : Begin(b) \/ Execute(b) \/ GiveUp(b)
    BY <1>2
  <2>2. b = a
    <3>1. \A d \in Attempts \ {b} : att'[d] = att[d]
      BY <2>1, Executes, BeginBegun, PutEffect, MarkReadEffect, MarkPutEffect DEF Quiet, Begun
    <3> QED BY <1>1, <3>1
  <2>3. CASE GiveUp(a)
    <3>1. att'[a].pc = "done"
      <4>1. Goto(a, "done") /\ "done" \in Steps
        BY <2>3 DEF GiveUp, Steps
      <4> QED BY <4>1, GotoType
    <3> QED BY <3>1
  <2>4. CASE Begin(a)
    BY <1>1, <2>4 DEF Begin
  <2>5. CASE Execute(a)
    BY <1>1, <2>5 DEF Execute, Judge, Put, Found, CheckUnmount, PutDir, PutMount, Count, ReadBack,
                      CheckHosted, ReadLinks, MarkRead, MarkPut, FanOut, TearDown, Here
  <2> QED BY <2>1, <2>2, <2>3, <2>4, <2>5
<1>3. CASE \E n \in Nodes : \/ StepMessage(n) \/ purge_deleted_zones(n)
                            \/ CatchUpControl(n) \/ CatchUpParent(n) \/ Crash(n) \/ Boot(n)
  <2>1. CASE \E n \in Nodes : CatchUpControl(n)
    BY <1>1, <2>1 DEF CatchUpControl
  <2> QED BY <1>1, <1>3, <2>1, DiskInv, CrashInv
<1> QED BY <1>1, <1>2, <1>3, TickInv DEF Next, vars

\* zone_mount: a mount that began after a deletion was recorded gets past its
\* check only in a replica founded since, if the deprovisions of the zone are
\* one operation and its retry.
THEOREM LateMountsTheorem ==
  ASSUME PromptRetries, OneDeprovision
  PROVE  Spec => LateMountsRefused
<1> DEFINE Refused == \A a \in Attempts :
             Here(a, "start", {"mount"}) /\ att'[a].pc \in {"put_dir", "put_mount", "readback"}
               => creation[At[a]] >= att[a].born
           Inv == TypeOK /\ MarkedFirst /\ SingleFlight /\ EpochsGrow
<1>1. Inv /\ [Next]_vars => Inv'
  BY StepMarked, StepFlight, StepEpochs
<1>2. Inv /\ [Next]_vars => [Refused]_vars
  <2> SUFFICES ASSUME Inv, [Next]_vars, NEW a \in Attempts, Here(a, "start", {"mount"}),
                      att'[a].pc \in {"put_dir", "put_mount", "readback"}
               PROVE  creation[At[a]] >= att[a].born
    OBVIOUS
  <2>1. CheckMount(a)
    BY PastTheCheck
  <2>2. ~deletion_outranks_disk(At[a])
    <3>1. CASE Write(a, "REJECTED")
      BY <3>1, WriteType DEF Terminal
    <3> QED BY <2>1, <3>1 DEF CheckMount
  <2>3. att[a].born <= view[At[a]].deleted
    BY DEF EpochsGrow, Here, Running
  <2>4. At[a] \in Nodes /\ att[a].born \in Nat /\ creation[At[a]] \in Nat
        /\ view[At[a]].deleted \in Nat
    BY Constants DEF Attempt, TypeOK, Control
  <2> QED BY <2>2, <2>3, <2>4 DEF deletion_outranks_disk
<1> QED BY <1>1, <1>2, InitZone, PTL DEF Spec, LateMountsRefused

----------------------------------------------------------------------------
(* Membership *)

\* Induction on the naturals, for a set.
LEMMA NaturalsByStep ==
  ASSUME NEW T \in SUBSET Nat, 0 \in T, \A n \in T : n + 1 \in T
  PROVE  T = Nat
<1> DEFINE R == OpToRel(<, Nat)
           D == Nat \ T
<1>1. IsWellFoundedOn(R, Nat)
  BY NatLessThanWellFounded
<1>2. SUFFICES ASSUME D # {} PROVE FALSE
  OBVIOUS
<1>3. PICK x \in D : \A y \in D : ~(<<y, x>> \in R)
  <2>1. D \subseteq Nat
    OBVIOUS
  <2> HIDE DEF R, D
  <2> QED BY <1>1, <1>2, <2>1, WFMin
<1>4. x # 0 /\ x - 1 \in Nat
  OBVIOUS
<1>5. <<x - 1, x>> \in R
  BY <1>4 DEF OpToRel
<1>6. x - 1 \in T
  BY <1>3, <1>4, <1>5
<1> QED BY <1>6, <1>4

----------------------------------------------------------------------------
(* The configuration *)

Founders == [voters |-> Servers, learners |-> {}]

IsConfs(f, l, n) ==
  f = [k \in 0 .. n |-> IF k = 0 THEN Founders ELSE ConfAfter(f[k - 1], l[k])]

\* The recursion of ConfAt is well defined, and ConfAt satisfies its equation.
LEMMA ConfsExist ==
  ASSUME NEW l
  PROVE  \A n \in Nat : \E f : IsConfs(f, l, n)
<1> DEFINE T == {n \in Nat : \E f : IsConfs(f, l, n)}
<1>1. 0 \in T
  <2> DEFINE f == [k \in 0 .. 0 |-> Founders]
  <2>1. f = [k \in 0 .. 0 |-> IF k = 0 THEN Founders ELSE ConfAfter(f[k - 1], l[k])]
    OBVIOUS
  <2>2. IsConfs(f, l, 0)
    BY <2>1 DEF IsConfs
  <2> HIDE DEF f
  <2> QED BY <2>2
<1>2. ASSUME NEW n \in T PROVE n + 1 \in T
  <2>1. PICK f : IsConfs(f, l, n)
    BY <1>2
  <2> DEFINE g == [k \in 0 .. n + 1 |-> IF k = n + 1 THEN ConfAfter(f[n], l[n + 1]) ELSE f[k]]
             h == [k \in 0 .. n + 1 |-> IF k = 0 THEN Founders ELSE ConfAfter(g[k - 1], l[k])]
  <2>2. ASSUME NEW k \in 0 .. n + 1 PROVE g[k] = h[k]
    <3>1. CASE k = n + 1
      <4>1. k # 0 /\ k - 1 = n /\ n \in 0 .. n + 1 /\ n # n + 1
        BY <3>1
      <4>2. g[k - 1] = f[n]
        BY <4>1
      <4> QED BY <3>1, <4>1, <4>2
    <3>2. CASE k = 0
      <4>1. k \in 0 .. n /\ k # n + 1
        BY <3>2
      <4>2. f[k] = Founders
        BY <2>1, <3>2, <4>1 DEF IsConfs
      <4> QED BY <3>2, <4>1, <4>2
    <3>3. CASE k # 0 /\ k # n + 1
      <4>1. k \in 0 .. n /\ k - 1 \in 0 .. n + 1 /\ k - 1 # n + 1
        BY <3>3
      <4>2. f[k] = ConfAfter(f[k - 1], l[k])
        BY <2>1, <3>3, <4>1 DEF IsConfs
      <4>3. g[k - 1] = f[k - 1] /\ g[k] = f[k]
        BY <3>3, <4>1
      <4> QED BY <3>3, <4>2, <4>3
    <3> QED BY <3>1, <3>2, <3>3
  <2>3. g = h
    BY <2>2
  <2>4. IsConfs(g, l, n + 1)
    BY <2>3 DEF IsConfs
  <2> HIDE DEF g
  <2> QED BY <2>4
<1>3. T = Nat
  <2>1. T \in SUBSET Nat
    OBVIOUS
  <2> HIDE DEF T
  <2> QED BY <1>1, <1>2, <2>1, NaturalsByStep
<1> QED BY <1>3

\* ConfAt(i) is the last of the configurations that the first i entries give.
LEMMA ConfAtSteps ==
  ASSUME NEW i \in Nat
  PROVE  \E f : IsConfs(f, log, i) /\ ConfAt(i) = f[i]
<1> DEFINE f == CHOOSE f : IsConfs(f, log, i)
<1>1. ConfAt(i) = f[i]
  BY DEF ConfAt, IsConfs, Founders
<1>2. IsConfs(f, log, i)
  BY ConfsExist
<1> QED BY <1>1, <1>2

\* Without entries the configuration is the founders', which has no learner.
LEMMA ConfAtZero == ConfAt(0) = Founders
<1>1. PICK f : IsConfs(f, log, 0) /\ ConfAt(0) = f[0]
  BY ConfAtSteps
<1> QED BY <1>1 DEF IsConfs

\* Only an entry that adds a node as a voter makes it one.
LEMMA VotersWereAdded ==
  ASSUME NEW V, Servers \subseteq V, NEW i \in Nat,
         \A k \in 1 .. i : log[k].op = "add_node" => log[k].node \in V
  PROVE  ConfAt(i).voters \subseteq V
<1>1. PICK f : IsConfs(f, log, i) /\ ConfAt(i) = f[i]
  BY ConfAtSteps
<1> DEFINE T == {n \in Nat : n <= i => f[n].voters \subseteq V}
<1>2. 0 \in T
  BY <1>1 DEF IsConfs, Founders
<1>3. ASSUME NEW n \in T PROVE n + 1 \in T
  <2> SUFFICES ASSUME n + 1 <= i PROVE f[n + 1].voters \subseteq V
    OBVIOUS
  <2>1. n + 1 \in 1 .. i /\ n + 1 \in 0 .. i /\ n + 1 # 0 /\ (n + 1) - 1 = n /\ n <= i
    OBVIOUS
  <2>2. f[n + 1] = ConfAfter(f[n], log[n + 1])
    BY <1>1, <2>1 DEF IsConfs
  <2>3. f[n].voters \subseteq V
    BY <2>1
  <2>4. log[n + 1].op = "add_node" => log[n + 1].node \in V
    BY <2>1
  <2> QED BY <2>2, <2>3, <2>4 DEF ConfAfter
<1>4. T = Nat
  <2>1. T \in SUBSET Nat
    OBVIOUS
  <2> HIDE DEF T
  <2> QED BY <1>2, <1>3, <2>1, NaturalsByStep
<1> QED BY <1>1, <1>4

\* The invariant says what the property says, of the entries that are not
\* committed too.
LEMMA VotersWereReached == ASSUME MemberInv PROVE UnreachableNeverVotes
<1> SUFFICES ASSUME NEW i \in 0 .. commit
             PROVE  ConfAt(i).voters \subseteq Servers \cup reachable
  BY DEF UnreachableNeverVotes
<1>1. i \in Nat /\ i <= Len(log) /\ Len(log) \in Nat
  BY DEF MemberInv, MemberTypeOK
<1>2. \A k \in 1 .. i : log[k].op = "add_node" => log[k].node \in Servers \cup reachable
  BY <1>1 DEF MemberInv, PromotedWereReached
<1> QED BY <1>1, <1>2, VotersWereAdded

\* A learner that is_caught_up_learner promotes has answered.
LEMMA CaughtUpWasReached ==
  ASSUME MemberInv, NEW s \in Servers, NEW n \in Members,
         is_caught_up_learner(s, n)
  PROVE  n \in Servers \cup reachable
<1>1. applied[s] \in Nat /\ applied[s] <= commit /\ commit \in Nat
  BY DEF MemberInv, MemberTypeOK
<1>2. applied[s] # 0
  BY ConfAtZero DEF is_caught_up_learner, Founders
<1>3. n \in Joiners => matched[s][n] \in Nat
  BY DEF MemberInv, MemberTypeOK
<1>4. n \in Joiners => matched[s][n] > 0
  BY <1>1, <1>2, <1>3 DEF is_caught_up_learner
<1> QED BY <1>4 DEF MemberInv, PromotedWereReached, Members

----------------------------------------------------------------------------
(* The steps *)

\* At the start nothing is matched and nobody calls.
LEMMA MembershipInit == ASSUME MemberInit PROVE MemberInv
<1>1. MemberTypeOK
  BY MembershipAssumption DEF MemberInit, MemberTypeOK, NoProgress, Idle, Entry,
     Changes
<1>2. PromotedWereReached
  BY DEF MemberInit, PromotedWereReached, NoProgress, Idle
<1> QED BY <1>1, <1>2 DEF MemberInv

\* A step that changes calls only.
Calling ==
  /\ call' \in [Calls -> [pc    : {"idle", "look", "propose", "queued", "waiting", "done"},
                          at    : Servers \cup {None},
                          doing : Changes \cup {"nothing"}]]
  /\ \A c \in Calls :
       /\ call'[c].pc \notin {"idle", "done"} => call'[c].at \in Servers
       /\ call'[c].pc \in {"propose", "queued"} => call'[c].doing # "nothing"
       /\ call'[c].doing = "add_node" => Target[c] \in Servers \cup reachable

\* A step that only moves calls, to good ones, keeps the invariant.
LEMMA CallingInv ==
  ASSUME MemberInv, Calling, UNCHANGED <<raftVars, applied, role, reachable, elections>>,
         waiters' \in [Servers -> [Members -> Calls \cup {None}]]
  PROVE  MemberInv'
  BY DEF MemberInv, MemberTypeOK, PromotedWereReached, Calling, raftVars

\* An entry is committed.
LEMMA MembershipCommit == ASSUME MemberInv, Commit PROVE MemberInv'
<1>1. MemberTypeOK'
  <2>1. commit \in Nat /\ Len(log) \in Nat /\ commit' \in 0 .. Len(log)
    BY DEF MemberInv, MemberTypeOK, Commit
  <2>2. \A s \in Servers : applied[s] \in 0 .. commit'
    BY <2>1 DEF MemberInv, MemberTypeOK, Commit
  <2> QED BY <2>1, <2>2 DEF MemberInv, MemberTypeOK, Commit
<1>2. PromotedWereReached'
  BY DEF MemberInv, PromotedWereReached, Commit
<1> QED BY <1>1, <1>2 DEF MemberInv

\* The leader reaches a joiner.
LEMMA ConnectInv == ASSUME MemberInv, NEW j \in Joiners, Connect(j) PROVE MemberInv'
<1>1. MemberTypeOK'
  BY DEF MemberInv, MemberTypeOK, Connect, raftVars
<1>2. PromotedWereReached'
  BY DEF MemberInv, PromotedWereReached, Connect, raftVars
<1> QED BY <1>1, <1>2 DEF MemberInv

\* Only who is reached matches anything.
LEMMA ReplicateInv == ASSUME MemberInv, NEW j \in Joiners, Replicate(j) PROVE MemberInv'
<1>1. leader \in Servers /\ j \in reachable /\ Len(log) \in Nat
  BY DEF MemberInv, MemberTypeOK, Replicate
<1>2. matched' = [matched EXCEPT ![leader] = [matched[leader] EXCEPT ![j] = Len(log)]]
  BY DEF Replicate
<1>3. matched' \in [Servers -> [Joiners -> Nat]]
  BY <1>1, <1>2 DEF MemberInv, MemberTypeOK
<1>4. \A s \in Servers, k \in Joiners : matched'[s][k] > 0 => k \in reachable
  BY <1>1, <1>2 DEF MemberInv, MemberTypeOK, PromotedWereReached
<1>5. MemberTypeOK'
  BY <1>3 DEF MemberInv, MemberTypeOK, Replicate
<1>6. PromotedWereReached'
  BY <1>4 DEF MemberInv, PromotedWereReached, Replicate
<1> QED BY <1>5, <1>6 DEF MemberInv

\* A progress that is reset says nothing of anybody.
LEMMA ResetProgress ==
  ASSUME MemberInv, NEW s \in Servers, matched' = [matched EXCEPT ![s] = NoProgress]
  PROVE  /\ matched' \in [Servers -> [Joiners -> Nat]]
         /\ \A t \in Servers, j \in Joiners : matched'[t][j] > 0 => j \in reachable
<1>1. NoProgress \in [Joiners -> Nat] /\ \A j \in Joiners : NoProgress[j] = 0
  BY DEF NoProgress
<1> QED BY <1>1 DEF MemberInv, MemberTypeOK, PromotedWereReached

\* The new leader keeps a prefix of the log, and an empty entry promotes nobody.
LEMMA ElectInv ==
  ASSUME MemberInv, NEW s \in Servers, Elect(s)
  PROVE  MemberInv'
<1> DEFINE e == [op |-> "noop", node |-> None, call |-> None]
<1>1. PICK k \in commit .. Len(log) : log' = Append(SubSeq(log, 1, k), e)
  BY DEF Elect
<1>2. /\ log \in Seq(Entry) /\ Len(log) \in Nat /\ commit \in Nat
      /\ k \in Nat /\ k <= Len(log) /\ commit <= k
  BY <1>1 DEF MemberInv, MemberTypeOK
<1>3. e \in Entry /\ e.op # "add_node"
  BY DEF Entry
<1> HIDE DEF e
<1>4. SubSeq(log, 1, k) \in Seq(Entry) /\ Len(SubSeq(log, 1, k)) = k
      /\ \A i \in 1 .. k : SubSeq(log, 1, k)[i] = log[i]
  <2>1. \A i \in 1 .. k : log[i] \in Entry
    BY <1>2
  <2> QED BY <1>2, <2>1
<1>5. /\ log' \in Seq(Entry) /\ Len(log') = k + 1 /\ log'[k + 1] = e
      /\ \A i \in 1 .. k : log'[i] = log[i]
  BY <1>1, <1>2, <1>3, <1>4
<1>6. matched' = [matched EXCEPT ![s] = NoProgress]
  BY DEF Elect
<1>7. MemberTypeOK'
  <2>1. commit' \in 0 .. Len(log') /\ commit' = commit
    BY <1>2, <1>5 DEF Elect
  <2>2. leader' \in Servers /\ UNCHANGED <<applied, waiters, call>>
    BY DEF Elect
  <2>3. matched' \in [Servers -> [Joiners -> Nat]]
    BY <1>6, ResetProgress
  <2> QED BY <1>5, <2>1, <2>2, <2>3 DEF MemberInv, MemberTypeOK
<1>8. \A i \in 1 .. Len(log') : log'[i].op = "add_node" => log'[i].node \in Servers \cup reachable
  <2> TAKE i \in 1 .. Len(log')
  <2>1. i = k + 1 \/ (i \in 1 .. k /\ i \in 1 .. Len(log))
    BY <1>2, <1>5
  <2> QED BY <1>3, <1>5, <2>1 DEF MemberInv, PromotedWereReached
<1>9. PromotedWereReached'
  BY <1>6, <1>8, ResetProgress DEF MemberInv, PromotedWereReached, Elect
<1> QED BY <1>7, <1>9 DEF MemberInv

\* A deposed leader forgets what it knew of others.
LEMMA StepDownInv == ASSUME MemberInv, NEW s \in Servers, StepDown(s) PROVE MemberInv'
<1>1. matched' = [matched EXCEPT ![s] = NoProgress]
  BY DEF StepDown
<1>2. MemberTypeOK'
  BY <1>1, ResetProgress DEF MemberInv, MemberTypeOK, StepDown
<1>3. PromotedWereReached'
  BY <1>1, ResetProgress DEF MemberInv, PromotedWereReached, StepDown
<1> QED BY <1>2, <1>3 DEF MemberInv

\* A call begins without having decided anything.
LEMMA StartInv ==
  ASSUME MemberInv, NEW c \in Calls, NEW s \in Servers, Start(c, s)
  PROVE  MemberInv'
<1> DEFINE x == IF Kind[c] = "remove" THEN [pc |-> "propose", at |-> s, doing |-> "remove"]
                ELSE [pc |-> "look", at |-> s, doing |-> "nothing"]
<1>1. call' = [call EXCEPT ![c] = x]
  BY DEF Start
<1>2. /\ x \in [pc    : {"idle", "look", "propose", "queued", "waiting", "done"},
                at    : Servers \cup {None},
                doing : Changes \cup {"nothing"}]
      /\ x.at \in Servers /\ x.doing # "add_node"
      /\ x.pc \in {"propose", "queued"} => x.doing # "nothing"
  BY DEF Changes
<1> HIDE DEF x
<1>3. Calling
  BY <1>1, <1>2 DEF MemberInv, MemberTypeOK, PromotedWereReached, Calling
<1> QED BY <1>3, CallingInv DEF Start, MemberInv, MemberTypeOK

\* What a step of one call must give it.
GoodCall(c, x) ==
  /\ x \in [pc    : {"idle", "look", "propose", "queued", "waiting", "done"},
            at    : Servers \cup {None},
            doing : Changes \cup {"nothing"}]
  /\ x.pc \notin {"idle", "done"} => x.at \in Servers
  /\ x.pc \in {"propose", "queued"} => x.doing # "nothing"
  /\ x.doing = "add_node" => Target[c] \in Servers \cup reachable

\* The calls of a reachable state are good, and so is one that is over.
LEMMA CallsAreGood == ASSUME MemberInv PROVE \A c \in Calls : GoodCall(c, call[c])
  BY DEF MemberInv, MemberTypeOK, PromotedWereReached, GoodCall

LEMMA IdleIsGood == \A c : GoodCall(c, Idle)
  BY DEF GoodCall, Idle, Changes

\* One call moves, to a good state.
LEMMA OneCall ==
  ASSUME MemberInv, NEW c \in Calls, NEW x, GoodCall(c, x), call' = [call EXCEPT ![c] = x]
  PROVE  Calling
  BY CallsAreGood DEF MemberInv, MemberTypeOK, GoodCall, Calling

\* Only a learner that has caught up gets to "add_node".
LEMMA ClassifyInv ==
  ASSUME MemberInv, NEW c \in Calls, Classify(c)
  PROVE  MemberInv'
<1> DEFINE s == call[c].at
           n == Target[c]
<1>1. GoodCall(c, call[c]) /\ call[c].pc = "look" /\ s \in Servers
  BY CallsAreGood DEF Classify, GoodCall
<1>2. n \in Members
  BY MembershipAssumption
<1>3. PICK x : GoodCall(c, x) /\ call' = [call EXCEPT ![c] = x]
  <2>1. \/ call' = [call EXCEPT ![c] = [call[c] EXCEPT !.pc = "done"]]
        \/ call' = [call EXCEPT ![c] = [call[c] EXCEPT !.pc = "idle"]]
        \/ call' = [call EXCEPT ![c] = [call[c] EXCEPT !.pc = "propose", !.doing = "add_learner"]]
        \/ /\ is_caught_up_learner(s, n)
           /\ call' = [call EXCEPT ![c] = [call[c] EXCEPT !.pc = "propose", !.doing = "add_node"]]
    BY DEF Classify, Answer
  <2>2. CASE call' = [call EXCEPT ![c] = [call[c] EXCEPT !.pc = "done"]]
    <3>1. GoodCall(c, [call[c] EXCEPT !.pc = "done"])
      BY <1>1 DEF GoodCall
    <3> QED BY <2>2, <3>1
  <2>3. CASE call' = [call EXCEPT ![c] = [call[c] EXCEPT !.pc = "idle"]]
    <3>1. GoodCall(c, [call[c] EXCEPT !.pc = "idle"])
      BY <1>1 DEF GoodCall
    <3> QED BY <2>3, <3>1
  <2>4. CASE call' = [call EXCEPT ![c] = [call[c] EXCEPT !.pc = "propose", !.doing = "add_learner"]]
    <3>1. GoodCall(c, [call[c] EXCEPT !.pc = "propose", !.doing = "add_learner"])
      BY <1>1 DEF GoodCall, Changes
    <3> QED BY <2>4, <3>1
  <2>5. CASE /\ is_caught_up_learner(s, n)
             /\ call' = [call EXCEPT ![c] = [call[c] EXCEPT !.pc = "propose", !.doing = "add_node"]]
    <3>1. n \in Servers \cup reachable
      BY <1>1, <1>2, <2>5, CaughtUpWasReached
    <3>2. GoodCall(c, [call[c] EXCEPT !.pc = "propose", !.doing = "add_node"])
      BY <1>1, <3>1 DEF GoodCall, Changes
    <3> QED BY <2>5, <3>2
  <2> QED BY <2>1, <2>2, <2>3, <2>4, <2>5
<1>4. Calling
  BY <1>3, OneCall
<1> QED BY <1>4, CallingInv DEF Classify, MemberInv, MemberTypeOK

\* The change is queued, or the server does not lead.
LEMMA ProposeConfChangeInv ==
  ASSUME MemberInv, NEW c \in Calls, propose_conf_change(c)
  PROVE  MemberInv'
<1> DEFINE p == IF role[call[c].at] THEN "queued" ELSE "idle"
           x == [call[c] EXCEPT !.pc = p]
<1>1. GoodCall(c, call[c]) /\ call[c].pc = "propose" /\ call' = [call EXCEPT ![c] = x]
  BY CallsAreGood DEF propose_conf_change, Answer
<1>2. p \in {"queued", "idle"}
  OBVIOUS
<1> HIDE DEF p
<1>3. GoodCall(c, x)
  BY <1>1, <1>2 DEF GoodCall
<1> HIDE DEF x
<1>4. Calling
  BY <1>1, <1>3, OneCall
<1> QED BY <1>4, CallingInv DEF propose_conf_change, MemberInv, MemberTypeOK

\* A call that waits too long starts over.
LEMMA TimeOutInv ==
  ASSUME MemberInv, NEW c \in Calls, TimeOut(c)
  PROVE  MemberInv'
<1>1. Calling
  BY IdleIsGood, OneCall DEF TimeOut
<1> QED BY <1>1, CallingInv DEF TimeOut, MemberInv, MemberTypeOK

\* What is appended was decided by Classify or is no promotion.
LEMMA MembershipSubmit ==
  ASSUME MemberInv, NEW c \in Calls, Submit(c)
  PROVE  MemberInv'
<1> DEFINE s == call[c].at
           e == [op |-> call[c].doing, node |-> Target[c], call |-> c]
<1>1. GoodCall(c, call[c]) /\ call[c].pc = "queued" /\ s \in Servers /\ Target[c] \in Members
  BY CallsAreGood, MembershipAssumption DEF Submit, GoodCall
<1>2. Calling
  <2> DEFINE x == [call[c] EXCEPT !.pc = "waiting"]
  <2>1. GoodCall(c, x)
    BY <1>1 DEF GoodCall
  <2> HIDE DEF x
  <2>2. call' = [d \in Calls |->
          IF d = c THEN x ELSE IF d \in Dropped(c, s) THEN Idle ELSE call[d]]
    BY DEF Submit, x
  <2>3. \A d \in Calls : GoodCall(d, call'[d])
    BY <2>1, <2>2, CallsAreGood, IdleIsGood
  <2>4. DOMAIN call' = Calls /\ call' = [d \in Calls |-> call'[d]]
    BY <2>2
  <2> QED BY <2>3, <2>4 DEF GoodCall, Calling
<1>3. e \in Entry /\ (e.op = "add_node" => e.node \in Servers \cup reachable)
  BY <1>1 DEF GoodCall, Entry, Changes
<1>4. log' = log \/ log' = Append(log, e)
  BY DEF Submit, AppendChange
<1> HIDE DEF e
<1>5. log \in Seq(Entry) /\ Len(log) \in Nat /\ commit \in 0 .. Len(log)
  BY DEF MemberInv, MemberTypeOK
<1>6. /\ log' \in Seq(Entry) /\ commit \in 0 .. Len(log')
      /\ \A i \in 1 .. Len(log') : log'[i].op = "add_node" => log'[i].node \in Servers \cup reachable
  <2>1. CASE log' = log
    BY <1>5, <2>1 DEF MemberInv, PromotedWereReached
  <2>2. CASE log' = Append(log, e)
    <3>1. log' \in Seq(Entry) /\ Len(log') = Len(log) + 1 /\ log'[Len(log) + 1] = e
          /\ \A i \in 1 .. Len(log) : log'[i] = log[i]
      BY <1>3, <1>5, <2>2
    <3>2. \A i \in 1 .. Len(log') : i \in 1 .. Len(log) \/ i = Len(log) + 1
      BY <1>5, <3>1
    <3> QED BY <1>3, <1>5, <3>1, <3>2 DEF MemberInv, PromotedWereReached
  <2> QED BY <1>4, <2>1, <2>2
<1>7. waiters' \in [Servers -> [Members -> Calls \cup {None}]]
  <2>1. waiters' = [waiters EXCEPT ![s] = [waiters[s] EXCEPT ![Target[c]] = c]]
    BY DEF Submit
  <2> QED BY <1>1, <2>1 DEF MemberInv, MemberTypeOK
<1>8. MemberTypeOK'
  BY <1>2, <1>6, <1>7 DEF MemberInv, MemberTypeOK, Submit, Calling
<1>9. PromotedWereReached'
  BY <1>2, <1>6 DEF MemberInv, PromotedWereReached, Submit, Calling
<1> QED BY <1>8, <1>9 DEF MemberInv

\* Applying answers a call and may forget a progress.
LEMMA ApplyInv ==
  ASSUME MemberInv, NEW s \in Servers, Apply(s)
  PROVE  MemberInv'
<1> DEFINE i == applied[s] + 1
           e == log[i]
           c == IF e.op \in Changes THEN waiters[s][e.node] ELSE None
<1>1. /\ commit \in Nat /\ Len(log) \in Nat /\ commit <= Len(log)
      /\ applied[s] \in Nat /\ applied[s] < commit /\ i \in 1 .. Len(log) /\ i \in 0 .. commit
  BY DEF MemberInv, MemberTypeOK, Apply
<1>2. applied' = [applied EXCEPT ![s] = i]
  BY DEF Apply
<1>3. applied' \in [Servers -> 0 .. commit]
  BY <1>1, <1>2 DEF MemberInv, MemberTypeOK
<1>4. c # None => c \in Calls
  <2> SUFFICES ASSUME c # None PROVE c \in Calls
    OBVIOUS
  <2>1. c = waiters[s][e.node]
    OBVIOUS
  <2>2. waiters[s] \in [Members -> Calls \cup {None}]
    BY DEF MemberInv, MemberTypeOK
  <2>3. e \in Entry
    BY <1>1 DEF MemberInv, MemberTypeOK
  <2>4. e.node \in Members
    BY <2>3 DEF Entry, Changes
  <2> QED BY <2>1, <2>2, <2>4
<1>5. waiters' \in [Servers -> [Members -> Calls \cup {None}]]
  <2>1. CASE c = None
    BY <2>1 DEF MemberInv, MemberTypeOK, Apply
  <2>2. CASE c # None
    <3>1. waiters' = [waiters EXCEPT ![s] = [waiters[s] EXCEPT ![e.node] = None]]
      BY <2>2 DEF Apply
    <3>2. [waiters[s] EXCEPT ![e.node] = None] \in [Members -> Calls \cup {None}]
      BY DEF MemberInv, MemberTypeOK
    <3> QED BY <3>1, <3>2 DEF MemberInv, MemberTypeOK
  <2> QED BY <2>1, <2>2
<1>6. Calling
  <2>1. \/ call' = call
        \/ c \in Calls /\ \E x \in {Idle, Served(c)} : call' = [call EXCEPT ![c] = x]
    BY <1>4 DEF Apply
  <2>2. CASE call' = call
    BY <2>2 DEF MemberInv, MemberTypeOK, PromotedWereReached, Calling
  <2>3. CASE c \in Calls /\ \E x \in {Idle, Served(c)} : call' = [call EXCEPT ![c] = x]
    <3> HIDE DEF c
    <3>1. PICK x \in {Idle, Served(c)} : call' = [call EXCEPT ![c] = x]
      BY <2>3
    <3>2. GoodCall(c, call[c])
      BY <2>3, CallsAreGood
    <3>3. GoodCall(c, Served(c))
      BY <3>2, IdleIsGood DEF Served, GoodCall
    <3>4. GoodCall(c, x)
      BY <3>1, <3>3, IdleIsGood
    <3> QED BY <2>3, <3>1, <3>4, OneCall
  <2> QED BY <2>1, <2>2, <2>3
<1>7. /\ matched' \in [Servers -> [Joiners -> Nat]]
      /\ \A t \in Servers, j \in Joiners : matched'[t][j] > 0 => j \in reachable
  <2>1. CASE matched' = matched
    BY <2>1 DEF MemberInv, MemberTypeOK, PromotedWereReached
  <2>2. CASE matched' = [matched EXCEPT ![s] = [matched[s] EXCEPT ![e.node] = 0]]
    <3> DEFINE row == [matched[s] EXCEPT ![e.node] = 0]
    <3>1. row \in [Joiners -> Nat] /\ \A j \in Joiners : row[j] \in {0, matched[s][j]}
      BY DEF MemberInv, MemberTypeOK
    <3> HIDE DEF row, e
    <3>2. matched' = [matched EXCEPT ![s] = row]
      BY <2>2 DEF row
    <3>3. matched' \in [Servers -> [Joiners -> Nat]]
      BY <3>1, <3>2 DEF MemberInv, MemberTypeOK
    <3>4. ASSUME NEW t \in Servers, NEW j \in Joiners, matched'[t][j] > 0 PROVE j \in reachable
      <4>1. matched'[t] \in {row, matched[t]} /\ (t # s => matched'[t] = matched[t])
        BY <3>2 DEF MemberInv, MemberTypeOK
      <4>2. CASE t = s /\ matched'[t] = row
        <5>1. row[j] = matched[s][j]
          BY <3>1, <3>4, <4>2
        <5> QED BY <3>4, <4>2, <5>1 DEF MemberInv, PromotedWereReached
      <4>3. CASE matched'[t] = matched[t]
        BY <3>4, <4>3 DEF MemberInv, PromotedWereReached
      <4> QED BY <4>1, <4>2, <4>3
    <3> QED BY <3>3, <3>4
  <2> QED BY <2>1, <2>2 DEF Apply
<1>8. MemberTypeOK'
  BY <1>3, <1>5, <1>6, <1>7 DEF MemberInv, MemberTypeOK, Apply, Calling
<1>9. PromotedWereReached'
  BY <1>6, <1>7 DEF MemberInv, PromotedWereReached, Apply, Calling
<1> QED BY <1>8, <1>9 DEF MemberInv

\* Every step keeps the invariant.
LEMMA MembershipStep ==
  ASSUME MemberInv, [MemberNext]_memberVars
  PROVE  MemberInv'
<1>1. CASE UNCHANGED memberVars
  BY <1>1 DEF memberVars, raftVars, MemberInv, MemberTypeOK, PromotedWereReached
<1>2. CASE Commit
  BY <1>2, MembershipCommit
<1>3. CASE \E j \in Joiners : Connect(j) \/ Replicate(j)
  BY <1>3, ConnectInv, ReplicateInv
<1>4. CASE \E s \in Servers : Elect(s) \/ StepDown(s) \/ Apply(s)
  BY <1>4, ElectInv, StepDownInv, ApplyInv
<1>5. CASE \E c \in Calls, s \in Servers : Start(c, s)
  BY <1>5, StartInv
<1>6. CASE \E c \in Calls : Step(c) \/ TimeOut(c)
  BY <1>6, ClassifyInv, ProposeConfChangeInv, MembershipSubmit, TimeOutInv DEF Step
<1> QED BY <1>1, <1>2, <1>3, <1>4, <1>5, <1>6 DEF MemberNext

\* JoinZone never strands the quorum on a node nobody has heard from: whatever
\* calls, elections, lost entries and deposed leaders do, every committed
\* configuration has only founders and nodes that the leader has reached as
\* voters.
THEOREM UnreachableNeverVote == MemberSpec => []UnreachableNeverVotes
<1>1. MemberInit => MemberInv
  BY MembershipInit
<1>2. MemberInv /\ [MemberNext]_memberVars => MemberInv'
  BY MembershipStep
<1>3. MemberInv => UnreachableNeverVotes
  BY VotersWereReached
<1> QED BY <1>1, <1>2, <1>3, PTL DEF MemberSpec

=============================================================================
