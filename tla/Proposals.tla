------------------------------ MODULE Proposals ------------------------------
(***************************************************************************)
(* The path of one call of ZoneConsensus::propose (raft/src/raft/node.rs): *)
(* the handle's leader check on a cached role, the driver's queue, the     *)
(* forwarding RPC to the node believed to lead, the retries after a        *)
(* refusal (proposal.rs), and apply_entries, which answers the caller      *)
(* found in the pending map under the id the entry carries.                *)
(*                                                                         *)
(* The quorum is external: an entry a leader has appended is committed at  *)
(* some later point or is lost.  MaxElections and MaxCrashes bound TLC's   *)
(* runs.                                                                   *)
(***************************************************************************)
EXTENDS Integers, Sequences, FiniteSets

CONSTANTS
  Nodes,          \* nodes that take proposals; the zone may have more voters
  NoNode,         \* no leader known
  Calls,          \* calls of propose(), each with a command of its own
  MaxElections,   \* bound on the elections
  MaxCrashes      \* bound on the crashes

ASSUME ProposalsAssumption ==
  /\ NoNode \notin Nodes
  /\ MaxElections \in Nat
  /\ MaxCrashes \in Nat

VARIABLES
  call,      \* what each caller knows
  net,       \* forwarded requests under way: [call, node]
  queue,     \* RaftMsg::Propose in a driver's channel: [call, node]
  nextId,    \* proposal_id of each driver
  pending,   \* the pending maps: [node, id, call]
  tail,      \* entries appended by some leader and not committed
  log,       \* committed entries
  done,      \* how much of log each node has applied
  led,       \* raw_node.raft.leader_id of each driver
  hint,      \* the handle's cached leader id
  elections, crashes

callVars == <<call, net, queue>>
logVars  == <<tail, log>>
roleVars == <<led, hint, elections>>
proposalVars == <<callVars, nextId, pending, logVars, done, roleVars, crashes>>

\* A call is not made yet; without an attempt under way, about to look for the
\* leader; waiting for the answer to an attempt; or over.  answer is the index
\* of the entry whose result an "ok" call was given.
CallState ==
  [st : {"idle", "forward", "waiting", "ok", "refused", "unknown"},
   home : Nodes \cup {NoNode}, answer : Nat]

Request == [call : Calls, node : Nodes]
Entry   == [id : Nat, call : Calls, by : Nodes]
Waiter  == [node : Nodes, id : Nat, call : Calls]

ProposalTypeOK ==
  /\ call \in [Calls -> CallState]
  /\ net \subseteq Request /\ queue \subseteq Request
  /\ nextId \in [Nodes -> Nat]
  /\ pending \subseteq Waiter
  /\ tail \subseteq Entry
  /\ log \in Seq(Entry)
  /\ done \in [Nodes -> Nat]
  /\ led \in [Nodes -> Nodes \cup {NoNode}]
  /\ hint \in [Nodes -> Nodes \cup {NoNode}]
  /\ elections \in Nat /\ crashes \in Nat

ProposalInit ==
  /\ call = [c \in Calls |-> [st |-> "idle", home |-> NoNode, answer |-> 0]]
  /\ net = {} /\ queue = {} /\ pending = {} /\ tail = {} /\ log = <<>>
  /\ nextId = [n \in Nodes |-> 0]
  /\ done = [n \in Nodes |-> 0]
  /\ led = [n \in Nodes |-> NoNode]
  /\ hint = [n \in Nodes |-> NoNode]
  /\ elections = 0 /\ crashes = 0

SetCall(c, st) == [call EXCEPT ![c].st = st]

----------------------------------------------------------------------------
(* The caller *)

\* propose() on node n: enqueue_proposal if the cached role says leader,
\* forward_to_leader otherwise.
Propose(c, n) ==
  /\ call[c].st = "idle"
  /\ call' = [call EXCEPT ![c] =
       [st |-> IF hint[n] = n THEN "waiting" ELSE "forward", home |-> n, answer |-> 0]]
  /\ queue' = IF hint[n] = n THEN queue \cup {[call |-> c, node |-> n]} ELSE queue
  /\ UNCHANGED <<net, nextId, pending, logVars, done, roleVars, crashes>>

\* forward_to_leader_once: into the own channel if this node leads by now, or
\* an RPC to the leader.
ForwardOnce(c) ==
  LET home == call[c].home
      req  == [call |-> c, node |-> hint[home]]
  IN  /\ call[c].st = "forward"
      /\ hint[home] # NoNode
      /\ call' = SetCall(c, "waiting")
      /\ queue' = IF hint[home] = home THEN queue \cup {req} ELSE queue
      /\ net' = IF hint[home] = home THEN net ELSE net \cup {req}
      /\ UNCHANGED <<nextId, pending, logVars, done, roleVars, crashes>>

\* Mutant: an attempt that timed out is repeated.
OutcomeAtDeadline_Retry(st) == IF st = "waiting" THEN "forward" ELSE "unknown"

\* What propose() returns at its deadline.  Between two attempts it is the
\* refusal of the last one, NotLeader; during an attempt it is Timeout.
OutcomeAtDeadline(st) == IF st = "forward" THEN "refused" ELSE "unknown"

Deadline(c) ==
  /\ call[c].st \in {"forward", "waiting"}
  /\ call' = SetCall(c, OutcomeAtDeadline(call[c].st))
  /\ UNCHANGED <<net, queue, nextId, pending, logVars, done, roleVars, crashes>>

\* Mutant: a lost answer is taken for a refusal and the attempt repeated.
AfterLostAnswer_Retry == "forward"

\* Only NotLeader is retried; a transport error ends the call.
AfterLostAnswer == "unknown"

\* The connection to the leader breaks, or the driver drops the sender.  The
\* request may have arrived.
LoseAnswer(c) ==
  /\ call[c].st = "waiting"
  /\ call' = SetCall(c, AfterLostAnswer)
  /\ UNCHANGED <<net, queue, nextId, pending, logVars, done, roleVars, crashes>>

\* A refusal reaches the caller, if it still waits, and is retried.
Refuse(c) == IF call[c].st = "waiting" THEN SetCall(c, "forward") ELSE call

----------------------------------------------------------------------------
(* The node that gets the proposal *)

\* The Propose RPC with forwarded set: submit_to_channel, no further hop.
Serve(r) ==
  /\ r \in net
  /\ net' = net \ {r}
  /\ IF hint[r.node] = r.node
     THEN queue' = queue \cup {r} /\ UNCHANGED call
     ELSE call' = Refuse(r.call) /\ UNCHANGED queue
  /\ UNCHANGED <<nextId, pending, logVars, done, roleVars, crashes>>

\* handle_msg(Propose) checks the role again before anything is submitted.
RefuseQueued(r) ==
  /\ r \in queue
  /\ led[r.node] # r.node
  /\ queue' = queue \ {r}
  /\ call' = Refuse(r.call)
  /\ hint' = [hint EXCEPT ![r.node] = led[r.node]]
  /\ UNCHANGED <<net, nextId, pending, logVars, done, led, elections, crashes>>

Submit(r) ==
  LET id == nextId[r.node]
  IN  /\ r \in queue
      /\ led[r.node] = r.node
      /\ queue' = queue \ {r}
      /\ nextId' = [nextId EXCEPT ![r.node] = id + 1]
      /\ tail' = tail \cup {[id |-> id, call |-> r.call, by |-> r.node]}
      /\ pending' = pending \cup {[node |-> r.node, id |-> id, call |-> r.call]}
      /\ UNCHANGED <<call, net, log, done, roleVars, crashes>>

\* Whoever waits on node n under the id of entry e.
Waiting(n, e) == {w \in pending : w.node = n /\ w.id = e.id}

\* apply_entries on node n: the entry's result goes to whoever waits under
\* the entry's id on this node.
ApplyEntry(n) ==
  LET i == done[n] + 1
      answered == {w.call : w \in Waiting(n, log[i])}
  IN  /\ done[n] < Len(log)
      /\ done' = [done EXCEPT ![n] = i]
      /\ pending' = pending \ Waiting(n, log[i])
      /\ call' = [c \in Calls |->
           IF c \in answered /\ call[c].st = "waiting"
           THEN [call[c] EXCEPT !.st = "ok", !.answer = i] ELSE call[c]]
      /\ UNCHANGED <<net, queue, nextId, logVars, roleVars, crashes>>

----------------------------------------------------------------------------
(* raft-rs and the process *)

Commit(e) ==
  /\ e \in tail
  /\ tail' = tail \ {e}
  /\ log' = Append(log, e)
  /\ UNCHANGED <<callVars, nextId, pending, done, roleVars, crashes>>

\* The next leader's log does not have the entry.
Lose(e) ==
  /\ e \in tail
  /\ led[e.by] # e.by \/ \E n \in Nodes : n # e.by /\ led[n] = n
  /\ tail' = tail \ {e}
  /\ UNCHANGED <<callVars, nextId, pending, log, done, roleVars, crashes>>

\* Node n wins an election.  A leader cut off from the quorum still takes
\* itself for the leader.
Elect(n) ==
  /\ elections < MaxElections
  /\ elections' = elections + 1
  /\ led' = [led EXCEPT ![n] = n]
  /\ UNCHANGED <<callVars, nextId, pending, logVars, done, hint, crashes>>

\* Node n hears of another leader, or of an election and so of none.
Follow(n, m) ==
  /\ m \in {NoNode} \cup {x \in Nodes \ {n} : led[x] = x}
  /\ led[n] # m
  /\ led' = [led EXCEPT ![n] = m]
  /\ UNCHANGED <<callVars, nextId, pending, logVars, done, hint, elections, crashes>>

\* update_cached_status at the end of the next Ready.
update_cached_status(n) ==
  /\ hint[n] # led[n]
  /\ hint' = [hint EXCEPT ![n] = led[n]]
  /\ UNCHANGED <<callVars, nextId, pending, logVars, done, led, elections, crashes>>

\* The process of node n dies: its callers, its channel, its pending map and
\* its proposal_id go with it, and it applies its log from some earlier index.
Crash(n) ==
  /\ crashes < MaxCrashes
  /\ crashes' = crashes + 1
  /\ call' = [c \in Calls |->
       IF call[c].home = n /\ call[c].st \in {"forward", "waiting"}
       THEN [call[c] EXCEPT !.st = "unknown"] ELSE call[c]]
  /\ net' = {r \in net : r.node # n}
  /\ queue' = {r \in queue : r.node # n}
  /\ pending' = {w \in pending : w.node # n}
  /\ nextId' = [nextId EXCEPT ![n] = 0]
  /\ \E i \in 0 .. done[n] : done' = [done EXCEPT ![n] = i]
  /\ led' = [led EXCEPT ![n] = NoNode]
  /\ hint' = [hint EXCEPT ![n] = NoNode]
  /\ UNCHANGED <<logVars, elections>>

----------------------------------------------------------------------------
ProposalNext ==
  \/ \E c \in Calls, n \in Nodes : Propose(c, n)
  \/ \E c \in Calls : ForwardOnce(c)
  \/ \E c \in Calls : Deadline(c)
  \/ \E c \in Calls : LoseAnswer(c)
  \/ \E r \in net : Serve(r)
  \/ \E r \in queue : RefuseQueued(r)
  \/ \E r \in queue : Submit(r)
  \/ \E n \in Nodes : ApplyEntry(n)
  \/ \E e \in tail : Commit(e)
  \/ \E e \in tail : Lose(e)
  \/ \E n \in Nodes : Elect(n)
  \/ \E n \in Nodes, m \in Nodes \cup {NoNode} : Follow(n, m)
  \/ \E n \in Nodes : update_cached_status(n)
  \/ \E n \in Nodes : Crash(n)

ProposalSpec == ProposalInit /\ [][ProposalNext]_proposalVars

----------------------------------------------------------------------------
(* Properties *)

Committed(c) == {i \in DOMAIN log : log[i].call = c}

\* retry_leader_refusals ("a_lost_reply_after_applying_a_counter_never_replays
\* _it"): however often a call is refused, forwarded and retried, and whatever
\* answers are lost, its command is committed at most once, so a counter
\* adjustment is never applied twice.
AtMostOnce ==
  \A i, j \in DOMAIN log : log[i].call = log[j].call => i = j

\* An attempt to get c committed is still under way somewhere.
UnderWay(c) ==
  \/ \E r \in net \cup queue : r.call = c
  \/ \E e \in tail : e.call = c

\* RaftError::proposal_outcome_unknown: NotLeader is a definite refusal.  A
\* call that ended with it was not committed and never will be.
RefusalIsDefinite ==
  \A c \in Calls :
    call[c].st = "refused" => Committed(c) = {} /\ ~UnderWay(c)

\* apply_entries ("Notify waiting proposal"): a call that returned a result
\* was given the result of its own command.
AnswersMatch ==
  \A c \in Calls : call[c].st = "ok" => log[call[c].answer].call = c
----------------------------------------------------------------------------
\* What makes the first two inductive: a call has at most one attempt under way
\* or committed, and none while it is idle, between attempts or refused.
OneAttempt ==
  /\ \A r \in net : r \notin queue
  /\ \A r, s \in net \cup queue : r.call = s.call => r = s
  /\ \A e, f \in tail : e.call = f.call => e = f
  /\ \A r \in net \cup queue, e \in tail : r.call # e.call
  /\ \A i \in DOMAIN log : ~UnderWay(log[i].call)

NoAttempt ==
  \A c \in Calls :
    call[c].st \in {"idle", "forward", "refused"} =>
      Committed(c) = {} /\ ~UnderWay(c)

\* A call that has been made was made on some node.
HomeKnown == \A c \in Calls : call[c].st # "idle" => call[c].home \in Nodes

ProposalInv == ProposalTypeOK /\ HomeKnown /\ AtMostOnce /\ OneAttempt /\ NoAttempt
=============================================================================
