---------------------------- MODULE MCZoneReplica ----------------------------
(* ZoneReplica with one lockable path, one metadata key and few commands.    *)
EXTENDS ZoneReplica, TLC

CONSTANTS root, p, i1, i2, k, v1, v2, m

MCPaths == {root, p}
MCAncestors == (root :> {}) @@ (p :> {root})

Acq(id) == [op |-> "acquire", path |-> p, id |-> id, max |-> 1, ttl |-> 9, now |-> 0]
Rel(id) == [op |-> "release", path |-> p, id |-> id]
SetTo(v) == [op |-> "set", key |-> k, val |-> v]

Joins  == [op |-> "join", node |-> m]
Leaves == [op |-> "leave", node |-> m]

LockCommands    == {Acq(i1), Acq(i2), Rel(i1), Joins, Leaves}
TableCommands   == {Acq(i1), SetTo(v1), [op |-> "delete", key |-> k], Joins}
ReplayCommands  == {Acq(i1), Acq(i2), Rel(i1)}
CounterCommands == {[op |-> "noop"], [op |-> "adjust"]}
=============================================================================
