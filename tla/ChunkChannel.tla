---------------------------- MODULE ChunkChannel ----------------------------
(***************************************************************************)
(* What chunk_pipe promises: a FIFO channel of at most Depth chunks that   *)
(* the producer may close; the consumer takes every chunk once, in order,  *)
(* and learns of the end only when nothing is left.                        *)
(***************************************************************************)
EXTENDS Integers, Sequences

CONSTANTS Depth, Chunks

VARIABLES
    chan,       \* published and not released, oldest first
    closed,
    eof         \* the consumer was told that nothing more will come

chanVars == <<chan, closed, eof>>

Init == chan = <<>> /\ closed = FALSE /\ eof = FALSE

Put ==
    /\ ~closed /\ Len(chan) < Depth
    /\ \E v \in Chunks : chan' = Append(chan, v)
    /\ UNCHANGED <<closed, eof>>

Close == ~closed /\ closed' = TRUE /\ UNCHANGED <<chan, eof>>

Take == chan # <<>> /\ chan' = Tail(chan) /\ UNCHANGED <<closed, eof>>

Finish == closed /\ chan = <<>> /\ ~eof /\ eof' = TRUE /\ UNCHANGED <<chan, closed>>

Next == Put \/ Close \/ Take \/ Finish

(* The consumer takes what is there and notices the end.                   *)
Spec == Init /\ [][Next]_chanVars /\ WF_chanVars(Take \/ Finish)
==============================================================================
