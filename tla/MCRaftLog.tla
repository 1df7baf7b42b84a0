------------------------------ MODULE MCRaftLog ------------------------------
(* RaftLog with interchangeable voters.                                      *)
EXTENDS RaftLog, TLC

Symm == Permutations(Voters)
=============================================================================
