-------------------------- MODULE LinearizableReads --------------------------
(***************************************************************************)
(* ZoneConsensus::read_linearizable (raft/src/raft/node.rs) on top of the  *)
(* replica of ZoneReplica: a caller asks the driver for a ReadIndex, the   *)
(* driver stashes it under a request context, raft-rs's answer brings an   *)
(* index the leader had committed, and the caller reads the state machine  *)
(* once last_applied covers that index.                                    *)
(*                                                                         *)
(* The leader and the network are raft-rs's and the transport's: a request *)
(* is answered with the leader's commit index at that time, and answers    *)
(* take as long as they like.  LateAnswers says whether an answer may be   *)
(* delivered to a process started after the one that asked.                *)
(***************************************************************************)
EXTENDS ZoneReplica

CONSTANTS
  Readers,       \* calls of read_linearizable
  LateAnswers    \* whether answers outlive the process that asked

ASSUME ReadsAssumption == LateAnswers \in BOOLEAN

VARIABLES
  read,          \* each call: where it is, the log at its start, what it read
  counter,       \* read_request_counter
  byCtx,         \* pending_reads_by_ctx: context -> call
  byIndex,       \* pending_reads_by_index: <<index, call>>
  asked,         \* MsgReadIndex on the way to the leader: contexts
  answers        \* MsgReadIndexResp on the way back: <<context, index>>

readVars == <<read, counter, byCtx, byIndex, asked, answers>>
allVars  == <<vars, readVars>>

NotStarted == [pc |-> "start", floor |-> 0, got |-> NoMeta]

ReadInit ==
  /\ Init
  /\ read = [r \in Readers |-> NotStarted]
  /\ counter = 0
  /\ byCtx = [c \in {} |-> {}]
  /\ byIndex = {} /\ asked = {} /\ answers = {}

\* handle_msg(ReadIndex), in the driver between two Readys.
ReadIndex(r) ==
  /\ pc = "idle"
  /\ read[r].pc = "start"
  /\ read' = [read EXCEPT ![r] = [@ EXCEPT !.pc = "waiting", !.floor = Len(log)]]
  /\ byCtx' = [c \in DOMAIN byCtx \cup {counter} |-> IF c = counter THEN r ELSE byCtx[c]]
  /\ counter' = counter + 1
  /\ asked' = asked \cup {counter}
  /\ UNCHANGED <<vars, byIndex, answers>>

\* The leader confirms itself by a heartbeat round and answers with its
\* commit index.
Confirm(c) ==
  /\ c \in asked
  /\ asked' = asked \ {c}
  /\ answers' = answers \cup {<<c, Len(log)>>}
  /\ UNCHANGED <<vars, read, counter, byCtx, byIndex>>

Wake(rd, rs) == [r \in Readers |-> IF r \in rs THEN [rd[r] EXCEPT !.pc = "ready"] ELSE rd[r]]

\* Mutant: the read waits for the entries to be committed here, not applied.
Covered_Committed(i) == i <= commit

\* The state machine has applied entry i.
Covered(i) == i <= lastApplied

\* promote_read_states, in a Ready that carries the answer.  A context nobody
\* waits under is dropped.
promote_read_states(a) ==
  /\ pc = "idle"
  /\ a \in answers
  /\ answers' = answers \ {a}
  /\ IF a[1] \notin DOMAIN byCtx
     THEN UNCHANGED <<read, byCtx, byIndex>>
     ELSE LET r == byCtx[a[1]]
          IN  /\ byCtx' = [c \in DOMAIN byCtx \ {a[1]} |-> byCtx[c]]
              /\ IF Covered(a[2])
                 THEN read' = Wake(read, {r}) /\ UNCHANGED byIndex
                 ELSE byIndex' = byIndex \cup {<<a[2], r>>} /\ UNCHANGED read
  /\ pc' = "applying"
  /\ UNCHANGED <<zoneVars, diskVars, tableVars, memVars, crashes, counter, asked>>

\* resolve_ready_reads, once a Ready's committed entries are applied.
resolve_ready_reads ==
  LET due == {p \in byIndex : p[1] <= lastApplied'}
  IN  /\ read' = Wake(read, {p[2] : p \in due})
      /\ byIndex' = byIndex \ due

\* apply_entries on a Ready's entries, and resolve_ready_reads after the last.
ApplyAndResolve ==
  /\ ApplyEntry
  /\ IF raftApplied' = commit THEN resolve_ready_reads ELSE UNCHANGED <<read, byIndex>>
  /\ UNCHANGED <<counter, byCtx, asked, answers>>

\* The caller's closure, under the state machine's read lock.
Read(r) ==
  /\ Up
  /\ read[r].pc = "ready"
  /\ read' = [read EXCEPT ![r] = [@ EXCEPT !.pc = "done", !.got = meta]]
  /\ UNCHANGED <<vars, counter, byCtx, byIndex, asked, answers>>

\* A crash ends the calls of the process and its driver's maps; a new driver
\* counts its request contexts from 0.
CrashReads ==
  /\ Crash
  /\ read' = [r \in Readers |->
       IF read[r].pc \in {"waiting", "ready"} THEN [read[r] EXCEPT !.pc = "failed"] ELSE read[r]]
  /\ counter' = 0
  /\ byCtx' = [c \in {} |-> {}]
  /\ byIndex' = {}
  /\ asked' = IF LateAnswers THEN asked ELSE {}
  /\ answers' = IF LateAnswers THEN answers ELSE {}

----------------------------------------------------------------------------
\* The rest of the replica's steps leave the reads alone; the install of a
\* snapshot among them.
Elsewhere ==
  /\ \/ \E c \in Commands : Commit(c)
     \/ EmptyReady \/ Deliver
     \/ SkipSnapshot \/ StoreSnapshot \/ CompactEntries \/ CompactFirst
     \/ RestoreInstalled \/ Restart
  /\ UNCHANGED readVars

Answering == (\E c \in asked : Confirm(c)) \/ (\E a \in answers : promote_read_states(a))

ReadNext ==
  \/ Elsewhere
  \/ ApplyAndResolve
  \/ CrashReads
  \/ Answering
  \/ \E r \in Readers : ReadIndex(r) \/ Read(r)

ReadSpec == ReadInit /\ [][ReadNext]_allVars

\* The driver loop and the leader run as in ZoneReplica, the leader's answer
\* arrives, and a woken caller runs.
FairReadSpec ==
  /\ ReadSpec
  /\ WF_allVars(Loop /\ ReadNext)
  /\ SF_allVars(Deliver /\ UNCHANGED readVars)
  /\ SF_allVars(Answering)
  /\ \A r \in Readers : WF_allVars(Read(r))

----------------------------------------------------------------------------
\* read_linearizable: "The resulting read observes every write that was
\* committed cluster-wide before this call was issued."  What a caller read
\* is the metadata after some prefix of the log that holds every entry that
\* was committed when the call was made, over restarts, installs, replays
\* and reads that overlap.
ReadsAreLinearizable ==
  \A r \in Readers : read[r].pc = "done" =>
    \E i \in read[r].floor .. Len(log) : read[r].got = image[i].meta

\* What it rests on: the index a call waits for, on its way or in the driver's
\* maps, covers the call's start, request contexts of a process are unique,
\* and a call is woken only on a running replica that has applied its index.
ReadRecord ==
  [pc : {"start", "waiting", "ready", "done", "failed"}, floor : Nat,
   got : [Keys -> Values \cup {NoValue}]]

CallsCovered ==
  /\ read \in [Readers -> ReadRecord]
  /\ \A r \in Readers : /\ read[r].floor <= Len(log)
                        /\ read[r].pc = "ready" => Up /\ read[r].floor <= lastApplied

RequestsCovered ==
  /\ counter \in Nat
  /\ \A c \in asked \cup DOMAIN byCtx : c \in 0 .. counter - 1
  /\ \A c \in DOMAIN byCtx : byCtx[c] \in Readers /\ read[byCtx[c]].pc # "start"
  /\ \A a \in answers :
       /\ a[1] \in 0 .. counter - 1 /\ a[2] \in Nat
       /\ a[1] \in DOMAIN byCtx => read[byCtx[a[1]]].floor <= a[2]
  /\ \A q \in byIndex :
       /\ q[1] \in Nat /\ q[2] \in Readers
       /\ read[q[2]].pc # "start" /\ read[q[2]].floor <= q[1]

ReadInv == MetaInv /\ CallsCovered /\ RequestsCovered /\ ReadsAreLinearizable

\* read_linearizable: "Driver resolves the oneshot as soon as the read is
\* safe": a call that waits does not wait for ever on a replica that runs and
\* catches up.
ReadsReturn == \A r \in Readers : read[r].pc = "waiting" ~> read[r].pc # "waiting"
=============================================================================
