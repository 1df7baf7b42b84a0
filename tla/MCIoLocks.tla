------------------------------ MODULE MCIoLocks ------------------------------
(* IoLocks on two trees: "/", "/a", "/a/b", "/b" and, for the order of        *)
(* strings, "/a", "/a-b", "/a-b/c", "/a/z".                                   *)
EXTENDS IoLocks, TLC

CONSTANTS root, a, ab, b, dash, dashc, az

MCPaths == {root, a, ab, b, dash, dashc, az}
MCAncestors ==
  (root :> {}) @@ (a :> {root}) @@ (ab :> {root, a}) @@ (b :> {root}) @@
  (dash :> {root}) @@ (dashc :> {root, dash}) @@ (az :> {root, a})

\* "/" < "/a" < "/a-b" < "/a-b/c" < "/a/b" < "/a/z" < "/b": "-" comes before "/".
MCRank ==
  (root :> 1) @@ (a :> 2) @@ (dash :> 3) @@ (dashc :> 4) @@ (ab :> 5) @@ (az :> 6) @@ (b :> 7)

R(p) == [path |-> p, mode |-> "read"]
W(p) == [path |-> p, mode |-> "write"]

\* Reads, writes, and renames between the subtrees of "/a" and "/b".
MCCalls == {<<R(root)>>, <<R(ab)>>, <<W(a)>>, <<W(b), W(ab)>>, <<W(a), W(b)>>}

\* Renames of "/a" to "/a-b" and of "/a-b/c" to "/a/z".
DashCalls == {<<W(a), W(dash)>>, <<W(dashc), W(az)>>}

\* A batch that writes one path twice.
BatchCalls == {<<W(a), W(a)>>}

SmallCalls == {<<W(a)>>}

\* What the absence of circular waits rests on, and what the dash takes away.
ASSUME OrderAssumption ==
  /\ Calls = MCCalls => TreeOrder /\ \A c \in Calls : Spread(c)
  /\ Calls = DashCalls => ~TreeOrder

Symm == Permutations(Threads)
=============================================================================
