------------------------------- MODULE MCPipe -------------------------------
(* Pipe with the header of the code and small capacities.                    *)
EXTENDS Pipe, TLC

Symm == Permutations(Notifying) \cup Permutations(Readers)
=============================================================================
