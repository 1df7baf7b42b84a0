-------------------------- MODULE MCZoneOperations ---------------------------
(* ZoneOperations with two nodes and a retry of the first operation.         *)
EXTENDS ZoneOperations, TLC

CONSTANTS n1, n2, a1, a2, a3, o1, o2

\* a1 and its retry a2, served by another node, beside a3.
RetryOp == a1 :> o1 @@ a2 :> o1 @@ a3 :> o2
RetryAt == a1 :> n1 @@ a2 :> n2 @@ a3 :> n2

Deprovisions(k) == a1 :> "deprovision" @@ a2 :> "deprovision" @@ a3 :> k
Mounts(k)       == a1 :> "mount" @@ a2 :> "mount" @@ a3 :> k

\* A deprovision beside every other request, and a mount beside an unmount.
MixedRequests ==
  {Deprovisions(k) : k \in {"mount", "unmount", "create", "join"}} \cup {Mounts("unmount")}

\* A deprovision and a mount; nobody creates the zone again.
NoCreate == {Deprovisions("mount")}

\* Two retries of one operation at a time.
TwiceOp == a1 :> o1 @@ a2 :> o1 @@ a3 :> o1
TwiceRequests == {Mounts("mount")}
=============================================================================
