------------------------------- MODULE RaftLog -------------------------------
(***************************************************************************)
(* The log a zone's voters agree on: raft-rs, which decides who leads,     *)
(* what is replicated and what is committed, over RaftStorage              *)
(* (raft/src/raft/storage.rs), which keeps the entries.  raft-rs is not    *)
(* part of the repository and is modelled from the Storage calls it makes  *)
(* in ZoneConsensusDriver: an election and the delivery of one             *)
(* MsgAppend, with its persistence, are one step each; messages may be     *)
(* lost, and a leader that is cut off keeps its log.                       *)
(*                                                                         *)
(* The entries table is a map from index to entry and append inserts the   *)
(* given entries and nothing else: entries of an older term that lie past  *)
(* the last one inserted stay in the table, and last_index is its greatest *)
(* key.                                                                    *)
(***************************************************************************)
EXTENDS Integers, FiniteSets, FiniteSetsExt

CONSTANTS
  Voters,     \* voters of the zone
  MaxTerm,    \* bound on the elections
  MaxIndex    \* bound on the log

VARIABLES
  entries,    \* entries[n]: the raft_entries table, index -> term
  term,       \* HardState.term
  leads,      \* n believes to be leader of term[n]
  commit,     \* raft_log.committed
  match       \* match[n][m]: what leader n knows of m's log

vars == <<entries, term, leads, commit, match>>

\* Two entries with the same index and term are the same entry.
last_index(n) == Max(DOMAIN entries[n] \cup {0})

TermAt(n, i) == IF i \in DOMAIN entries[n] THEN entries[n][i] ELSE 0

\* storage.append
append(table, new) ==
  [i \in DOMAIN table \cup DOMAIN new |->
     IF i \in DOMAIN new THEN new[i] ELSE table[i]]

Init ==
  /\ entries = [n \in Voters |-> [i \in {} |-> 0]]
  /\ term = [n \in Voters |-> 0]
  /\ leads = [n \in Voters |-> FALSE]
  /\ commit = [n \in Voters |-> 0]
  /\ match = [n \in Voters |-> [m \in Voters |-> 0]]

----------------------------------------------------------------------------
\* is_up_to_date: a voter compares the last entry of its own log.
UpToDate(n, m) ==
  \/ TermAt(n, last_index(n)) > TermAt(m, last_index(m))
  \/ /\ TermAt(n, last_index(n)) = TermAt(m, last_index(m))
     /\ last_index(n) >= last_index(m)

\* n campaigns and wins the votes of the quorum Q; become_leader appends an
\* empty entry of the new term.
Elect(n, Q) ==
  LET t == term[n] + 1
      i == last_index(n) + 1
  IN  /\ n \in Q
      /\ 2 * Cardinality(Q) > Cardinality(Voters)
      /\ t <= MaxTerm /\ i <= MaxIndex
      /\ \A m \in Q \ {n} : term[m] < t /\ UpToDate(n, m)
      /\ term' = [m \in Voters |-> IF m \in Q THEN t ELSE term[m]]
      /\ leads' = [m \in Voters |-> m = n \/ (m \notin Q /\ leads[m])]
      /\ entries' = [entries EXCEPT ![n] = append(@, [j \in {i} |-> t])]
      /\ match' = [match EXCEPT ![n] = [m \in Voters |-> IF m = n THEN i ELSE 0]]
      /\ UNCHANGED commit

\* The leader appends a proposal.
Propose(n) ==
  LET i == last_index(n) + 1
  IN  /\ leads[n]
      /\ i <= MaxIndex
      /\ entries' = [entries EXCEPT ![n] = append(@, [j \in {i} |-> term[n]])]
      /\ match' = [match EXCEPT ![n][n] = i]
      /\ UNCHANGED <<term, leads, commit>>

\* The first index in prev + 1 .. last at which m's log differs from n's.
Conflicts(n, m, prev, last) ==
  {i \in prev + 1 .. last : TermAt(m, i) # TermAt(n, i)}

\* m handles a MsgAppend of leader n with the entries prev + 1 .. last:
\* maybe_append finds the first conflicting entry and appends from there on.
\* The answer may get lost.
Replicate(n, m, prev, last) ==
  LET bad == Conflicts(n, m, prev, last)
      new == [i \in (IF bad = {} THEN {} ELSE Min(bad) .. last) |-> TermAt(n, i)]
  IN  /\ leads[n] /\ n # m
      /\ term[m] <= term[n]
      /\ TermAt(m, prev) = TermAt(n, prev)
      /\ \A i \in bad : i > commit[m]
      /\ entries' = [entries EXCEPT ![m] = append(@, new)]
      /\ term' = [term EXCEPT ![m] = term[n]]
      /\ leads' = [leads EXCEPT ![m] = FALSE]
      /\ commit' = [commit EXCEPT ![m] = Max({@, Min({commit[n], last})})]
      /\ \/ match' = [match EXCEPT ![n][m] = Max({@, last})]
         \/ UNCHANGED match

\* The leader commits what a quorum has, if it is of its own term.
AdvanceCommit(n, i) ==
  /\ leads[n]
  /\ i > commit[n]
  /\ TermAt(n, i) = term[n]
  /\ 2 * Cardinality({m \in Voters : match[n][m] >= i}) > Cardinality(Voters)
  /\ commit' = [commit EXCEPT ![n] = i]
  /\ UNCHANGED <<entries, term, leads, match>>

Next ==
  \/ \E n \in Voters, Q \in SUBSET Voters : Elect(n, Q)
  \/ \E n \in Voters : Propose(n)
  \/ \E n, m \in Voters : \E prev, last \in 0 .. last_index(n) :
       prev < last /\ Replicate(n, m, prev, last)
  \/ \E n \in Voters : \E i \in 1 .. last_index(n) : AdvanceCommit(n, i)

Spec == Init /\ [][Next]_vars

----------------------------------------------------------------------------
\* StateMachine::apply "is called when a log entry is committed (replicated to
\* a quorum)" and "all nodes must reach the same state": no two voters commit
\* different entries at the same index.
CommittedLogsAgree ==
  \A n, m \in Voters : \A i \in 1 .. Min({commit[n], commit[m]}) :
    TermAt(n, i) = TermAt(m, i)
=============================================================================
