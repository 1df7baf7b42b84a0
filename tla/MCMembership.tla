---------------------------- MODULE MCMembership -----------------------------
(* Membership with two founders and a joiner.                                *)
EXTENDS Membership, TLC

CONSTANTS s1, s2, j1, c1, c2, c3

Symm == Permutations(Servers)

\* A node that joins as a voter and as a learner while an operator removes it.
MixedKind   == c1 :> "voter" @@ c2 :> "learner" @@ c3 :> "remove"
MixedTarget == c1 :> j1 @@ c2 :> j1 @@ c3 :> j1

\* One node joins.
OneKind   == c1 :> "voter"
OneTarget == c1 :> j1

\* Two clients join the same node as a voter.
TwiceKind   == c1 :> "voter" @@ c2 :> "voter"
TwiceTarget == c1 :> j1 @@ c2 :> j1

\* A join and a removal of the same node.
RemoveKind   == c1 :> "voter" @@ c2 :> "remove"
RemoveTarget == c1 :> j1 @@ c2 :> j1
=============================================================================
