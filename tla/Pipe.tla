-------------------------------- MODULE Pipe --------------------------------
(***************************************************************************)
(* One in-memory DT_PIPE: the byte ring of MemoryPipeBackend               *)
(* (kernel/src/core/pipe/mod.rs), the waiting and waking of PipeManager    *)
(* (pipe/manager.rs), and the two ways to write, write_nowait and the      *)
(* direct push of sys_write (kernel/src/kernel/syscall_impl.rs).           *)
(*                                                                         *)
(* A cell of the ring holds byte k of the frame of message m, or a zero.   *)
(* Every atomic load or store that another thread can observe is a step of *)
(* its own; head and tail are the code's monotonic counters.  msg_count,   *)
(* push_count and pop_count decide nothing and are left out.  Nobody waits *)
(* on not_full, so its notifications are left out too.                     *)
(***************************************************************************)
EXTENDS Integers, Sequences

CONSTANTS
  HeaderSize,    \* HEADER_SIZE
  Capacity,      \* user_capacity; the ring is twice as large
  Lens,          \* payload lengths that are written
  Notifying,     \* writers that use write_nowait
  Bare,          \* writers that use sys_write
  Readers,
  MaxMsgs        \* bound on the writes that pass the first checks

Writers == Notifying \cup Bare
Closer == "closer"
Nobody == "nobody"

ASSUME PipeAssumption ==
  /\ HeaderSize \in Nat \ {0} /\ Capacity \in Nat \ {0} /\ MaxMsgs \in Nat
  /\ Lens \subseteq Nat
  /\ Notifying \cap Bare = {} /\ Writers \cap Readers = {}
  /\ {Closer, Nobody} \cap (Writers \cup Readers) = {}

RingCap == 2 * Capacity
Idx(p) == p % RingCap
Messages == (1 .. MaxMsgs) \X Lens
None == <<0, 0>>
Zero == <<None, 0>>

VARIABLES
  ring, head, tail, used,         \* used_bytes; negative stands for wrapped
  closed, registered,
  writer, reader, notify,         \* who holds each of the three mutexes
  pc,
  mode,        \* of a reader: "fast" try, in the wait loop ("held"), "last" try
  seen,        \* the tail a reader loaded
  msg,         \* the message a thread is writing or has copied
  written      \* how many messages have been offered

pipe == <<ring, head, tail, used>>
mutexes == <<writer, reader, notify>>
vars == <<ring, head, tail, used, closed, registered, writer, reader, notify,
          pc, mode, seen, msg, written>>

Init ==
  /\ ring = [i \in 0 .. RingCap - 1 |-> Zero]
  /\ head = 0 /\ tail = 0 /\ used = 0
  /\ closed = FALSE /\ registered = TRUE
  /\ writer = Nobody /\ reader = Nobody /\ notify = Nobody
  /\ pc = [t \in Writers \cup Readers \cup {Closer} |-> "idle"]
  /\ mode = [r \in Readers |-> "fast"]
  /\ seen = [r \in Readers |-> 0]
  /\ msg = [t \in Writers \cup Readers |-> None]
  /\ written = 0

Goto(t, l) == pc' = [pc EXCEPT ![t] = l]

----------------------------------------------------------------------------
(* push *)

FrameLen(m) == HeaderSize + m[2]
Contiguous == RingCap - Idx(tail)
Wraps(m) == FrameLen(m) > Contiguous

\* Mutant: the waste region before the wrap is not counted.
NoRoom_Waste(m) == tail - head + FrameLen(m) > RingCap

\* The frame, and before a wrap the waste region, must fit; a wrap also needs
\* room for the sentinel.
NoRoom(m) ==
  \/ Wraps(m) /\ Contiguous < HeaderSize
  \/ tail - head + FrameLen(m) + (IF Wraps(m) THEN Contiguous ELSE 0) > RingCap

\* The checks before the lock: an empty message is accepted at once, a closed
\* pipe and a message above the capacity are errors.
Write(w, n) ==
  /\ pc[w] = "idle" /\ registered /\ ~closed
  /\ n <= Capacity
  /\ IF n = 0
     THEN Goto(w, IF w \in Notifying THEN "wake" ELSE "idle") /\ UNCHANGED <<msg, written>>
     ELSE /\ written < MaxMsgs
          /\ written' = written + 1
          /\ msg' = [msg EXCEPT ![w] = <<written + 1, n>>]
          /\ Goto(w, "lock")
  /\ UNCHANGED <<pipe, closed, registered, mutexes, mode, seen>>

\* The writer mutex is taken and used_bytes loaded; Full releases it.
LoadUsed(w) ==
  /\ pc[w] = "lock" /\ writer = Nobody
  /\ IF used + msg[w][2] > Capacity
     THEN Goto(w, "idle") /\ msg' = [msg EXCEPT ![w] = None] /\ UNCHANGED writer
     ELSE Goto(w, "room") /\ writer' = w /\ UNCHANGED msg
  /\ UNCHANGED <<pipe, closed, registered, reader, notify, mode, seen, written>>

LoadHead(w) ==
  /\ pc[w] = "room"
  /\ IF NoRoom(msg[w])
     THEN Goto(w, "idle") /\ writer' = Nobody /\ msg' = [msg EXCEPT ![w] = None]
     ELSE Goto(w, IF Wraps(msg[w]) THEN "sentinel" ELSE "frame") /\ UNCHANGED <<writer, msg>>
  /\ UNCHANGED <<pipe, closed, registered, reader, notify, mode, seen, written>>

Sentinel(w) ==
  /\ pc[w] = "sentinel"
  /\ ring' = [i \in 0 .. RingCap - 1 |->
       IF i \in Idx(tail) .. Idx(tail) + HeaderSize - 1 THEN Zero ELSE ring[i]]
  /\ Goto(w, "wrap")
  /\ UNCHANGED <<head, tail, used, closed, registered, mutexes, mode, seen, msg, written>>

Wrap(w) ==
  /\ pc[w] = "wrap"
  /\ tail' = tail + Contiguous
  /\ Goto(w, "frame")
  /\ UNCHANGED <<ring, head, used, closed, registered, mutexes, mode, seen, msg, written>>

WriteFrame(w) ==
  /\ pc[w] = "frame"
  /\ LET at == Idx(tail)
     IN  ring' = [i \in 0 .. RingCap - 1 |->
           IF i \in at .. at + FrameLen(msg[w]) - 1 THEN <<msg[w], i - at>> ELSE ring[i]]
  /\ Goto(w, "publish")
  /\ UNCHANGED <<head, tail, used, closed, registered, mutexes, mode, seen, msg, written>>

Publish(w) ==
  /\ pc[w] = "publish"
  /\ tail' = tail + FrameLen(msg[w])
  /\ Goto(w, "count")
  /\ UNCHANGED <<ring, head, used, closed, registered, mutexes, mode, seen, msg, written>>

\* Mutant: the mutex is released before the bytes are counted.
Count_Late(w) ==
  /\ \/ pc[w] = "count" /\ writer' = Nobody /\ Goto(w, "late") /\ UNCHANGED used
     \/ /\ pc[w] = "late" /\ used' = used + msg[w][2]
        /\ Goto(w, IF w \in Notifying THEN "wake" ELSE "idle") /\ UNCHANGED writer
  /\ UNCHANGED <<ring, head, tail, closed, registered, reader, notify, mode, seen, msg, written>>

Count(w) ==
  /\ pc[w] = "count"
  /\ used' = used + msg[w][2]
  /\ writer' = Nobody
  /\ Goto(w, IF w \in Notifying THEN "wake" ELSE "idle")
  /\ msg' = [msg EXCEPT ![w] = None]
  /\ UNCHANGED <<ring, head, tail, closed, registered, reader, notify, mode, seen, written>>

\* Mutant: the notification does not take the mutex.
wake_readers_Bare(w) ==
  /\ pc[w] = "wake"
  /\ LET parked == {r \in Readers : pc[r] = "parked"}
     IN  IF parked = {} THEN Goto(w, "idle")
         ELSE \E r \in parked : pc' = [pc EXCEPT ![w] = "idle", ![r] = "woken"]
  /\ UNCHANGED <<pipe, closed, registered, mutexes, mode, seen, msg, written>>

\* write_nowait: notify_one under the notify mutex.
wake_readers(w) == notify = Nobody /\ wake_readers_Bare(w)

----------------------------------------------------------------------------
(* pop, and the waiting around it *)

Read(r) ==
  /\ pc[r] = "idle" /\ registered
  /\ Goto(r, "pop")
  /\ mode' = [mode EXCEPT ![r] = "fast"]
  /\ UNCHANGED <<pipe, closed, registered, mutexes, seen, msg, written>>

PopLoad(r) ==
  /\ pc[r] = "pop" /\ reader = Nobody
  /\ reader' = r
  /\ seen' = [seen EXCEPT ![r] = tail]
  /\ Goto(r, "scan")
  /\ UNCHANGED <<pipe, closed, registered, writer, notify, mode, msg, written>>

\* The notify mutex of a reader in the wait loop is free once it returns.
LetGo(r) == notify' = IF notify = r THEN Nobody ELSE notify

\* ClosedEmpty ends the call.  Empty: read_nowait and an expired wait return,
\* the first try of read_blocking goes to the wait loop, and in the loop the
\* reader parks, giving up the mutex in the same step.
PopEmpty(r) ==
  /\ pc[r] = "scan" /\ head = seen[r]
  /\ reader' = Nobody
  /\ \/ closed /\ Goto(r, "closed") /\ LetGo(r)
     \/ ~closed /\ Goto(r, "idle") /\ LetGo(r)
     \/ ~closed /\ mode[r] = "fast" /\ Goto(r, "slow") /\ UNCHANGED notify
     \/ ~closed /\ mode[r] = "held" /\ Goto(r, "parked") /\ LetGo(r)
  /\ seen' = [seen EXCEPT ![r] = 0]
  /\ UNCHANGED <<pipe, closed, registered, writer, mode, msg, written>>

AtHead == ring[Idx(head)]

PopSkip(r) ==
  /\ pc[r] = "scan" /\ head # seen[r] /\ AtHead = Zero
  /\ head' = head + RingCap - Idx(head)
  /\ UNCHANGED <<ring, tail, used, closed, registered, mutexes, pc, mode, seen, msg, written>>

PopCopy(r) ==
  /\ pc[r] = "scan" /\ head # seen[r] /\ AtHead # Zero
  /\ msg' = [msg EXCEPT ![r] = AtHead[1]]
  /\ Goto(r, "copied")
  /\ UNCHANGED <<pipe, closed, registered, mutexes, mode, seen, written>>

commit_pop(r) ==
  /\ pc[r] = "copied"
  /\ head' = head + FrameLen(msg[r])
  /\ Goto(r, "taken")
  /\ UNCHANGED <<ring, tail, used, closed, registered, mutexes, mode, seen, msg, written>>

Uncount(r) ==
  /\ pc[r] = "taken"
  /\ used' = used - msg[r][2]
  /\ reader' = Nobody
  /\ LetGo(r)
  /\ Goto(r, "idle")
  /\ msg' = [msg EXCEPT ![r] = None]
  /\ seen' = [seen EXCEPT ![r] = 0]
  /\ UNCHANGED <<ring, head, tail, closed, registered, writer, mode, written>>

\* The wait loop of read_blocking tries again with the notify mutex held:
\* when it starts, when the reader is woken, and for the last time when the
\* wait times out.
TryHeld(r, from, m) ==
  /\ pc[r] = from /\ notify = Nobody
  /\ notify' = r
  /\ mode' = [mode EXCEPT ![r] = m]
  /\ Goto(r, "pop")
  /\ UNCHANGED <<pipe, closed, registered, writer, reader, seen, msg, written>>

EnterWait(r) == TryHeld(r, "slow", "held")
Resume(r) == TryHeld(r, "woken", "held")
TimeOut(r) == TryHeld(r, "parked", "last")

----------------------------------------------------------------------------
(* close, destroy *)

\* destroy takes the pipe out of the registry before it closes it.
Destroy ==
  /\ pc[Closer] = "idle" /\ registered
  /\ registered' = FALSE
  /\ Goto(Closer, "close")
  /\ UNCHANGED <<pipe, closed, mutexes, mode, seen, msg, written>>

Close ==
  /\ pc[Closer] \in {"idle", "close"} /\ ~closed
  /\ closed' = TRUE
  /\ Goto(Closer, "wake")
  /\ UNCHANGED <<pipe, registered, mutexes, mode, seen, msg, written>>

wake_all ==
  /\ pc[Closer] = "wake" /\ notify = Nobody
  /\ pc' = [t \in DOMAIN pc |->
       IF t = Closer THEN "done" ELSE IF pc[t] = "parked" THEN "woken" ELSE pc[t]]
  /\ UNCHANGED <<pipe, closed, registered, mutexes, mode, seen, msg, written>>

----------------------------------------------------------------------------
Push(w) ==
  LoadUsed(w) \/ LoadHead(w) \/ Sentinel(w) \/ Wrap(w) \/ WriteFrame(w) \/ Publish(w) \/ Count(w)

Pop(r) == PopLoad(r) \/ PopEmpty(r) \/ PopSkip(r) \/ PopCopy(r) \/ commit_pop(r) \/ Uncount(r)

\* Everybody has returned from a call on a pipe that is gone or spent.
Over ==
  /\ \A t \in Writers \cup Readers : pc[t] \in {"idle", "closed"}
  /\ closed
  /\ UNCHANGED vars

Next ==
  \/ \E w \in Writers : \/ \E n \in Lens : Write(w, n)
                        \/ Push(w)
                        \/ wake_readers(w)
  \/ \E r \in Readers : Read(r) \/ Pop(r) \/ EnterWait(r) \/ Resume(r) \/ TimeOut(r)
  \/ Destroy \/ Close \/ wake_all
  \/ Over

Spec == Init /\ [][Next]_vars

\* A call that has started goes on; parking_lot's mutexes are eventually fair,
\* hence the strong fairness.  Nobody has to call, and no wait has to time out.
Fairness ==
  /\ \A w \in Writers : SF_vars(Push(w) \/ wake_readers(w))
  /\ \A r \in Readers : SF_vars(Pop(r) \/ EnterWait(r) \/ Resume(r))
  /\ SF_vars(wake_all \/ (Close /\ pc[Closer] = "close"))

FairSpec == Spec /\ Fairness

----------------------------------------------------------------------------
(* Properties *)

\* The frame that starts at position p of ring g's history is whole, and ends
\* at t or before.
Whole(g, t, p) ==
  LET i == Idx(p)
      m == g[i][1]
  IN  /\ i + FrameLen(m) <= RingCap /\ p + FrameLen(m) <= t
      /\ \A k \in 0 .. FrameLen(m) - 1 : g[i + k] = <<m, k>>

\* The messages of ring g from each position to t; a damaged frame is no
\* message.
Parse(g, t) ==
  LET from[p \in 0 .. t] ==
        IF p = t THEN <<>>
        ELSE IF g[Idx(p)] = Zero
        THEN IF p + RingCap - Idx(p) <= t THEN from[p + RingCap - Idx(p)] ELSE <<None>>
        ELSE IF Whole(g, t, p) THEN <<g[Idx(p)][1]>> \o from[p + FrameLen(g[Idx(p)][1])]
        ELSE <<None>>
  IN  from

\* The messages between head and tail.
Frames == Parse(ring, tail)[head]

\* What commit_pop is about to return to each reader.
Delivered == [r \in Readers |-> IF pc[r] = "taken" THEN msg[r] ELSE None]

Queue == INSTANCE PipeQueue WITH queue <- Frames, delivered <- Delivered

\* The ring is a FIFO queue of whole messages: no write lands on an unread
\* frame, no frame is read before it is whole, twice or never, whatever the
\* wraps and whoever reads or writes at the same time.
ImplementsQueue == Queue!Spec

\* The payload bytes of the first messages of q.
Sums(q) ==
  LET sum[i \in 0 .. Len(q)] == IF i = 0 THEN 0 ELSE sum[i - 1] + q[i][2]
  IN  sum

Bytes(q) == Sums(q)[Len(q)]
QueuedBytes == Bytes(Frames)

\* push checks used_bytes, which readers decrement and writers increment after
\* the frame is visible: whoever takes the writer mutex finds a count that has
\* not wrapped, that covers the messages in the ring and respects the capacity.
UsedCoversRing ==
  writer = Nobody => used \in QueuedBytes .. Capacity

Pushing == {"room", "sentinel", "wrap", "frame", "publish", "count"}
Popping == {"scan", "copied", "taken"}
Labels == Pushing \cup Popping \cup
  {"idle", "lock", "wake", "pop", "slow", "parked", "woken", "closed", "close", "done"}

TypeOK ==
  /\ ring \in [0 .. RingCap - 1 -> ({None} \cup Messages) \X Nat]
  /\ head \in Nat /\ tail \in Nat /\ used \in Int /\ written \in 0 .. MaxMsgs
  /\ writer \in Writers \cup {Nobody} /\ reader \in Readers \cup {Nobody}
  /\ pc \in [Writers \cup Readers \cup {Closer} -> Labels]
  /\ seen \in [Readers -> Nat]
  /\ msg \in [Writers \cup Readers -> {None} \cup Messages]

\* The writer mutex is held from the check of used_bytes to its update, the
\* reader mutex from the load of tail to the return; both with a message.
Guarded ==
  /\ \A w \in Writers : /\ pc[w] \in Pushing <=> writer = w
                        /\ pc[w] \in Pushing \cup {"lock"} => msg[w] \in Messages
  /\ \A r \in Readers : /\ pc[r] \in Popping <=> reader = r
                        /\ pc[r] = "taken" => msg[r] \in Messages

\* What lies between head and tail is whole frames and skipped ends of the
\* ring; so is what lies between head and the tail that a reader loaded, and
\* the reader has copied the frame at head.
Framed ==
  /\ head <= tail /\ Frames \in Seq(Messages)
  /\ \A r \in Readers : pc[r] \in {"scan", "copied"} =>
       /\ head <= seen[r] /\ seen[r] <= tail
       /\ Parse(ring, seen[r])[head] \in Seq(Messages)
       /\ pc[r] = "copied" => head # seen[r] /\ AtHead # Zero /\ msg[r] = AtHead[1]

\* The place of the writer that holds the mutex is free and in one piece, and
\* it has written there what it is about to publish.
Placed ==
  \A w \in Writers :
    /\ pc[w] \in {"sentinel", "wrap"} =>
         HeaderSize <= Contiguous /\ tail - head + FrameLen(msg[w]) + Contiguous <= RingCap
    /\ pc[w] = "wrap" => ring[Idx(tail)] = Zero
    /\ pc[w] \in {"frame", "publish"} =>
         FrameLen(msg[w]) <= Contiguous /\ tail - head + FrameLen(msg[w]) <= RingCap
    /\ pc[w] = "publish" =>
         \A k \in 0 .. FrameLen(msg[w]) - 1 : ring[Idx(tail) + k] = <<msg[w], k>>

\* used_bytes exceeds what is in the ring by the message that is out of it and
\* not yet subtracted, less the one that is in it and not yet added.
Taken == IF reader # Nobody /\ pc[reader] = "taken" THEN msg[reader][2] ELSE 0
Uncounted == IF writer # Nobody /\ pc[writer] = "count" THEN msg[writer][2] ELSE 0

Counted ==
  /\ used = QueuedBytes + Taken - Uncounted
  /\ used <= Capacity
  /\ \A w \in Writers : pc[w] \in Pushing => used + msg[w][2] <= Capacity

\* Inductive; it implies UsedCoversRing, and with it every step is a step of
\* the queue or none.
IndInv == TypeOK /\ Guarded /\ Framed /\ Placed /\ Counted

\* manager.rs: "`PipeNotify` wakes the blocked side after each `push` / `pop`
\* (or after `close`)".  A parked reader does not stay parked, until a timeout,
\* beside a message it could have or on a closed pipe.
ParkedReadersWake ==
  \A r \in Readers :
    /\ (pc[r] = "parked" /\ Frames # <<>>) ~> (pc[r] # "parked" \/ Frames = <<>>)
    /\ (pc[r] = "parked" /\ closed) ~> pc[r] # "parked"

\* "Signal close (keep in registry for drain)" and test_drain_before_closed_error:
\* a reader is told that the pipe is closed only when it is drained.
ClosedMeansDrained ==
  [][\A r \in Readers : pc[r] # "closed" /\ pc'[r] = "closed" => Frames = <<>>]_vars

\* A drained pipe takes a message: Full is backpressure, over once the reader
\* has caught up.
DrainedPipeAccepts ==
  (head = tail /\ writer = Nobody) => \E n \in 1 .. Capacity : ~NoRoom(<<1, n>>)
=============================================================================
