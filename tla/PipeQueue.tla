------------------------------ MODULE PipeQueue ------------------------------
(***************************************************************************)
(* What a DT_PIPE promises (kernel/src/core/stream/mod.rs: "DT_PIPE (FIFO, *)
(* destructive pop, ..."): messages leave in the order they were accepted, *)
(* each to one reader, whole.                                              *)
(***************************************************************************)
EXTENDS Sequences

CONSTANTS Messages, Readers, None

VARIABLES
  queue,
  delivered     \* what a reader is being given

Send ==
  /\ \E m \in Messages : queue' = Append(queue, m)
  /\ UNCHANGED delivered

Receive ==
  \E r \in Readers :
    /\ queue # <<>> /\ delivered[r] = None
    /\ delivered' = [delivered EXCEPT ![r] = Head(queue)]
    /\ queue' = Tail(queue)

\* A reader takes what it was given away.
Return ==
  /\ \E r \in Readers : delivered' = [delivered EXCEPT ![r] = None]
  /\ UNCHANGED queue

Init == queue = <<>> /\ delivered = [r \in Readers |-> None]

Spec == Init /\ [][Send \/ Receive \/ Return]_<<queue, delivered>>
=============================================================================
