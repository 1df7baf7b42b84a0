----------------------------- MODULE MCProposals -----------------------------
(* Proposals with interchangeable nodes and calls.                           *)
EXTENDS Proposals, TLC

Symm == Permutations(Nodes) \cup Permutations(Calls)
=============================================================================
