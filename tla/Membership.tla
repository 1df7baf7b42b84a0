----------------------------- MODULE Membership ------------------------------
(***************************************************************************)
(* Membership changes of a zone: the JoinZone and RemoveVoter handlers     *)
(* (raft/src/transport/server.rs), ZoneConsensus::propose_conf_change and  *)
(* the driver's table of waiting callers (raft/src/raft/node.rs).          *)
(*                                                                         *)
(* log holds the entries that matter to the membership; a change that      *)
(* raft-rs turns into an empty entry because another one is not applied    *)
(* yet leaves no trace in it.  A call is a client that repeats its request *)
(* until it succeeds.  MaxLog and MaxElections bound a run.                *)
(***************************************************************************)
EXTENDS Integers, Sequences

CONSTANTS
  Servers,       \* the founding voters, which serve the calls
  Joiners,       \* nodes that join
  Calls,         \* clients, by name
  Kind,          \* call -> "voter", "learner" or "remove"
  Target,        \* call -> the node it is about
  None,          \* no call, no node
  MaxLog, MaxElections

Members == Servers \cup Joiners

ASSUME MembershipAssumption ==
  /\ Servers \cap Joiners = {} /\ Servers # {}
  /\ Kind \in [Calls -> {"voter", "learner", "remove"}]
  /\ Target \in [Calls -> Members]
  /\ None \notin Members \cup Calls
  /\ {MaxLog, MaxElections} \subseteq Nat

VARIABLES
  log, commit,   \* the leader's log and how much of it is committed
  leader,        \* the node that leads
  pendingIndex,  \* raft-rs: the leader's pending_conf_index
  matched,       \* per server: raft-rs's Progress.matched of the joiners
  applied,       \* per server: entries applied
  role,          \* per server: cached is_leader()
  waiters,       \* per server: pending_conf_changes, target -> call
  call,          \* per call: where it is, its server, the change it asks for
  reachable,     \* joiners that the leader can replicate to
  elections

raftVars == <<log, commit, leader, pendingIndex, matched>>
memberVars == <<raftVars, applied, role, waiters, call, reachable, elections>>

Changes == {"add_learner", "add_node", "remove"}
NoProgress == [j \in Joiners |-> 0]
Idle == [pc |-> "idle", at |-> None, doing |-> "nothing"]

MemberInit ==
  /\ log = <<>> /\ commit = 0
  /\ leader \in Servers
  /\ pendingIndex = 0
  /\ matched = [s \in Servers |-> NoProgress]
  /\ applied = [s \in Servers |-> 0]
  /\ role = [s \in Servers |-> s = leader]
  /\ waiters = [s \in Servers |-> [n \in Members |-> None]]
  /\ call = [c \in Calls |-> Idle]
  /\ reachable = {}
  /\ elections = 0

----------------------------------------------------------------------------
(* The configuration *)

\* raft-rs refuses to remove the last voter; the entry is applied as a Noop.
Rejected(cs, e) == e.op = "remove" /\ cs.voters = {e.node}

ConfAfter(cs, e) ==
  CASE Rejected(cs, e)       -> cs
    [] e.op = "add_learner" -> [voters |-> cs.voters \ {e.node}, learners |-> cs.learners \cup {e.node}]
    [] e.op = "add_node"    -> [voters |-> cs.voters \cup {e.node}, learners |-> cs.learners \ {e.node}]
    [] e.op = "remove"      -> [voters |-> cs.voters \ {e.node}, learners |-> cs.learners \ {e.node}]
    [] OTHER                -> cs

\* The ConfState after the first i entries.
ConfAt(i) ==
  LET conf[k \in 0 .. i] ==
        IF k = 0 THEN [voters |-> Servers, learners |-> {}] ELSE ConfAfter(conf[k - 1], log[k])
  IN  conf[i]

----------------------------------------------------------------------------
(* raft-rs *)

\* The leader appends a change, unless one is not applied yet.
AppendChange(op, n, c) ==
  IF pendingIndex > applied[leader]
  THEN UNCHANGED <<log, pendingIndex>>
  ELSE /\ Len(log) < MaxLog
       /\ log' = Append(log, [op |-> op, node |-> n, call |-> c])
       /\ pendingIndex' = Len(log) + 1

Commit ==
  /\ commit < Len(log)
  /\ commit' = commit + 1
  /\ UNCHANGED <<log, leader, pendingIndex, matched, applied, role, waiters, call, reachable, elections>>

\* A joiner comes up, or the network to it does.
Connect(j) ==
  /\ j \notin reachable
  /\ reachable' = reachable \cup {j}
  /\ UNCHANGED <<raftVars, applied, role, waiters, call, elections>>

\* A member that the leader reaches has acknowledged the whole log.
Replicate(j) ==
  /\ LET cs == ConfAt(applied[leader]) IN j \in (cs.voters \cup cs.learners) \cap reachable
  /\ matched[leader][j] < Len(log)
  /\ matched' = [matched EXCEPT ![leader][j] = Len(log)]
  /\ UNCHANGED <<log, commit, leader, pendingIndex, applied, role, waiters, call, reachable, elections>>

\* Another server wins an election and appends an empty entry; entries that
\* are not committed may be lost.
Elect(s) ==
  /\ elections < MaxElections
  /\ s # leader /\ s \in ConfAt(applied[s]).voters
  /\ elections' = elections + 1
  /\ leader' = s
  /\ role' = [role EXCEPT ![s] = TRUE]
  /\ \E k \in commit .. Len(log) :
       /\ log' = Append(SubSeq(log, 1, k), [op |-> "noop", node |-> None, call |-> None])
       /\ pendingIndex' = k
  /\ matched' = [matched EXCEPT ![s] = NoProgress]
  /\ UNCHANGED <<commit, applied, waiters, call, reachable>>

\* A deposed leader hears of the new term (update_cached_status).
StepDown(s) ==
  /\ role[s] /\ s # leader
  /\ role' = [role EXCEPT ![s] = FALSE]
  /\ matched' = [matched EXCEPT ![s] = NoProgress]
  /\ UNCHANGED <<log, commit, leader, pendingIndex, applied, waiters, call, reachable, elections>>

----------------------------------------------------------------------------
(* The handlers *)

Answer(c, pc) == call' = [call EXCEPT ![c] = [@ EXCEPT !.pc = pc]]

\* JoinZone and RemoveVoter redirect unless the server leads.
Start(c, s) ==
  /\ call[c].pc = "idle"
  /\ role[s]
  /\ call' = [call EXCEPT ![c] =
       IF Kind[c] = "remove" THEN [pc |-> "propose", at |-> s, doing |-> "remove"]
       ELSE [pc |-> "look", at |-> s, doing |-> "nothing"]]
  /\ UNCHANGED <<raftVars, applied, role, waiters, reachable, elections>>

\* Mutant: any learner may be promoted.
is_caught_up_learner_Any(s, n) == n \in ConfAt(applied[s]).learners

\* Mutant: the learner must be ahead of the commit index.
is_caught_up_learner_Ahead(s, n) ==
  n \in ConfAt(applied[s]).learners /\ matched[s][n] > commit

\* read_membership's caught_up_learners: matched has reached the commit index
\* that server s knows.
is_caught_up_learner(s, n) ==
  /\ n \in ConfAt(applied[s]).learners
  /\ matched[s][n] >= IF s = leader THEN commit ELSE applied[s]

\* JoinZone reads the membership and decides what the join needs.
Classify(c) ==
  LET s  == call[c].at
      n  == Target[c]
      cs == ConfAt(applied[s])
  IN  /\ call[c].pc = "look"
      /\ \/ /\ n \in cs.voters
            /\ Answer(c, "done")
         \/ /\ n \notin cs.voters \cup cs.learners
            /\ call' = [call EXCEPT ![c] = [@ EXCEPT !.pc = "propose", !.doing = "add_learner"]]
         \/ /\ n \in cs.learners /\ Kind[c] = "learner"
            /\ Answer(c, "done")
         \/ /\ n \in cs.learners /\ Kind[c] = "voter"
            /\ IF is_caught_up_learner(s, n)
               THEN call' = [call EXCEPT ![c] = [@ EXCEPT !.pc = "propose", !.doing = "add_node"]]
               ELSE Answer(c, "idle")
      /\ UNCHANGED <<raftVars, applied, role, waiters, reachable, elections>>

\* propose_conf_change: NotLeader, or the change is queued for the driver.
propose_conf_change(c) ==
  /\ call[c].pc = "propose"
  /\ Answer(c, IF role[call[c].at] THEN "queued" ELSE "idle")
  /\ UNCHANGED <<raftVars, applied, role, waiters, reachable, elections>>

\* The caller whose sender a change on the same node replaces in
\* pending_conf_changes gets ProposalDropped.
Dropped(c, s) ==
  {d \in Calls \ {c} : waiters[s][Target[c]] = d /\ call[d].pc = "waiting" /\ call[d].at = s}

\* handle_msg(ProposeConfChange).  A deposed leader that does not know it yet
\* appends to a log of its own that goes nowhere; a follower forwards to the
\* leader it knows.
Submit(c) ==
  LET s == call[c].at
  IN  /\ call[c].pc = "queued"
      /\ IF s = leader \/ ~role[s]
         THEN AppendChange(call[c].doing, Target[c], c)
         ELSE UNCHANGED <<log, pendingIndex>>
      /\ waiters' = [waiters EXCEPT ![s][Target[c]] = c]
      /\ call' = [d \in Calls |->
           IF d = c THEN [call[c] EXCEPT !.pc = "waiting"]
           ELSE IF d \in Dropped(c, s) THEN Idle ELSE call[d]]
      /\ UNCHANGED <<commit, leader, matched, applied, role, reachable, elections>>

\* PROPOSAL_TIMEOUT_SECS pass.  The driver keeps the sender.
TimeOut(c) ==
  /\ call[c].pc = "waiting"
  /\ call' = [call EXCEPT ![c] = Idle]
  /\ UNCHANGED <<raftVars, applied, role, waiters, reachable, elections>>

\* What the handler makes of Ok(conf_state): a voter that was only added as a
\* learner is told to join again.
Served(c) ==
  IF Kind[c] = "voter" /\ call[c].doing = "add_learner" THEN Idle
  ELSE [call[c] EXCEPT !.pc = "done"]

\* apply_entries on server s: the new ConfState is in force and whoever waits
\* for a change of that node is answered.
Apply(s) ==
  LET i   == applied[s] + 1
      e   == log[i]
      old == ConfAt(applied[s])
      c   == IF e.op \in Changes THEN waiters[s][e.node] ELSE None
  IN  /\ applied[s] < commit
      /\ applied' = [applied EXCEPT ![s] = i]
      /\ waiters' = IF c = None THEN waiters ELSE [waiters EXCEPT ![s][e.node] = None]
      /\ call' = IF c = None THEN call
                 ELSE IF call[c].pc # "waiting" \/ call[c].at # s THEN call
                 ELSE [call EXCEPT ![c] = IF Rejected(old, e) THEN Idle ELSE Served(c)]
      /\ matched' = IF e.op \in Changes /\ e.node \in Joiners \ (old.voters \cup old.learners)
                    THEN [matched EXCEPT ![s][e.node] = 0] ELSE matched
      /\ UNCHANGED <<log, commit, leader, pendingIndex, role, reachable, elections>>

----------------------------------------------------------------------------
Step(c) == Classify(c) \/ propose_conf_change(c) \/ Submit(c)

MemberNext ==
  \/ Commit
  \/ \E j \in Joiners : Connect(j) \/ Replicate(j)
  \/ \E s \in Servers : Elect(s) \/ StepDown(s) \/ Apply(s)
  \/ \E c \in Calls, s \in Servers : Start(c, s)
  \/ \E c \in Calls : Step(c) \/ TimeOut(c)

MemberSpec == MemberInit /\ [][MemberNext]_memberVars

\* The driver and the handlers run, the quorum commits, the timer of a call
\* fires, and a client asks again after a failure.  A joiner is asked to come
\* back until it has caught up; it catches up between two of its rounds again
\* and again while the leader keeps replicating to it.
FairMemberSpec ==
  /\ MemberSpec
  /\ WF_memberVars(Commit)
  /\ \A j \in Joiners : WF_memberVars(Connect(j)) /\ WF_memberVars(Replicate(j))
  /\ \A s \in Servers : WF_memberVars(Apply(s)) /\ WF_memberVars(StepDown(s))
  /\ \A c \in Calls : /\ WF_memberVars(\E s \in Servers : Start(c, s))
                      /\ WF_memberVars(Step(c)) /\ WF_memberVars(TimeOut(c))

----------------------------------------------------------------------------
(* Properties *)

\* JoinZone: "an unreachable joiner is simply never caught up, hence never
\* promoted: it stays a harmless learner and never strands quorum", whatever
\* calls and elections run beside its own.
UnreachableNeverVotes ==
  \A i \in 0 .. commit : ConfAt(i).voters \subseteq Servers \cup reachable

Entry == [op : Changes, node : Members, call : Calls] \cup {[op |-> "noop", node |-> None, call |-> None]}

MemberTypeOK ==
  /\ log \in Seq(Entry) /\ commit \in 0 .. Len(log)
  /\ leader \in Servers
  /\ matched \in [Servers -> [Joiners -> Nat]]
  /\ applied \in [Servers -> 0 .. commit]
  /\ waiters \in [Servers -> [Members -> Calls \cup {None}]]
  /\ call \in [Calls -> [pc    : {"idle", "look", "propose", "queued", "waiting", "done"},
                         at    : Servers \cup {None},
                         doing : Changes \cup {"nothing"}]]

\* Whom a change makes a voter was reached, from the decision to the log:
\* matched moves only when a joiner answers, a learner is in the configuration
\* only behind the entry that added it, and its promotion needs that entry
\* matched.
PromotedWereReached ==
  /\ \A s \in Servers, j \in Joiners : matched[s][j] > 0 => j \in reachable
  /\ \A c \in Calls :
       /\ call[c].pc \notin {"idle", "done"} => call[c].at \in Servers
       /\ call[c].pc \in {"propose", "queued"} => call[c].doing # "nothing"
       /\ call[c].doing = "add_node" => Target[c] \in Servers \cup reachable
  /\ \A i \in 1 .. Len(log) : log[i].op = "add_node" => log[i].node \in Servers \cup reachable

\* Inductive, and it implies UnreachableNeverVotes.
MemberInv == MemberTypeOK /\ PromotedWereReached

\* propose_conf_change: "Returns the resulting `ConfState` after the change is
\* applied": a handler that reports success saw its own change committed.
SuccessMeansApplied ==
  \A c \in Calls : call[c].pc = "done" /\ call[c].doing # "nothing" =>
    \E i \in 1 .. commit : log[i].call = c /\ log[i].op = call[c].doing

\* JoinZone: "get-before-put (#139): a blind AddLearnerNode on a sitting voter
\* would DEMOTE it": no committed change makes a learner of a voter.
NoDemotion ==
  \A i \in 1 .. commit : log[i].op = "add_learner" => log[i].node \notin ConfAt(i - 1).voters

\* JoinZone: "The joiner's join loop re-calls us each round": a client whose
\* target the leader reaches does not ask for ever, over refused changes,
\* timeouts and a change of leader.
JoinsEnd ==
  \A c \in Calls : <>(call[c].pc = "done")
=============================================================================
