------------------------- MODULE MCLinearizableReads -------------------------
(* A replica with one lockable path, one metadata key and one reader.        *)
EXTENDS LinearizableReads, TLC

CONSTANTS root, p, i1, i2, k, v1, r1, r2

MCPaths == {root, p}
MCAncestors == (root :> {}) @@ (p :> {root})

Acq(id) == [op |-> "acquire", path |-> p, id |-> id, max |-> 1, ttl |-> 9, now |-> 0]
SetTo   == [op |-> "set", key |-> k, val |-> v1]

ZoneCommands  == {Acq(i1), Acq(i2), [op |-> "release", path |-> p, id |-> i1], SetTo}
WriteCommands == {SetTo, [op |-> "delete", key |-> k]}
=============================================================================
