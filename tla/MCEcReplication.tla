--------------------------- MODULE MCEcReplication ---------------------------
(* EcReplication with interchangeable keys, writers and peers.               *)
EXTENDS EcReplication, TLC

Symm == Permutations(Keys) \cup Permutations(Writers)
=============================================================================
