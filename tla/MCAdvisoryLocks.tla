--------------------------- MODULE MCAdvisoryLocks ---------------------------
(* AdvisoryLocks on the path tree "/", "/a", "/a/b".                         *)
EXTENDS AdvisoryLocks, TLC

CONSTANTS root, a, ab

MCPaths == {root, a, ab}
MCAncestors == (root :> {}) @@ (a :> {root}) @@ (ab :> {root, a})

Symm == Permutations(LockIds) \cup Permutations(Nodes)
=============================================================================
