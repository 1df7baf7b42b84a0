----------------------------- MODULE MCWalStream -----------------------------
(* WalStream with a budget of one cold segment of one or two entries.         *)
EXTENDS WalStream, TLC

Symm == Permutations(Nodes)
=============================================================================
