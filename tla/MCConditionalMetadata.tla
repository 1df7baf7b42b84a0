------------------------ MODULE MCConditionalMetadata ------------------------
(* ConditionalMetadata with a managed path, an ordinary one and the renames  *)
(* between them.                                                            *)
EXTENDS ConditionalMetadata, TLC

CONSTANTS m1, m2, r1, r2, r3

\* Within, out of and into the managed subtree.
MCRenames == {m1 :> r1, r1 :> m1}

=============================================================================
