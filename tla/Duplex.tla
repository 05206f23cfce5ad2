-------------------------------- MODULE Duplex --------------------------------
(***************************************************************************)
(* The two sockets between the parties.  Each is used in one direction by  *)
(* the exchanges (io by the garbler, sib by the evaluator); io_back is the *)
(* other direction of io, for the sequential steps.  NetIO keeps a digest  *)
(* of what was sent and received on each socket.                           *)
(***************************************************************************)
EXTENDS Blocks, SequencesExt

VARIABLES
    wire,       \* wire[c]: messages in flight on channel c, oldest first
    seen        \* seen[p][c]: how much of channel c party p has sent or read

comm == <<wire, seen>>

Channel == {"io", "io_back", "sib"}

send_io(p) == IF p = Garbler THEN "io" ELSE "sib"

recv_io(p) == send_io(Peer(p))

CommInit ==
    /\ wire = [c \in Channel |-> <<>>]
    /\ seen = [p \in Party |-> [c \in Channel |-> 0]]

Send(p, c, msg) ==
    /\ wire' = [wire EXCEPT ![c] = Append(@, msg)]
    /\ seen' = [seen EXCEPT ![p][c] = @ + 1]

Arrived(c) == wire[c] # <<>>

Recv(p, c) ==
    /\ wire' = [wire EXCEPT ![c] = Tail(@)]
    /\ seen' = [seen EXCEPT ![p][c] = @ + 1]

(* Read the next message of channel in, and send msg on channel out.       *)
RecvSend(p, in, out, msg) ==
    /\ wire' = [wire EXCEPT ![in] = Tail(@), ![out] = Append(@, msg)]
    /\ seen' = [seen EXCEPT ![p][in] = @ + 1, ![p][out] = @ + 1]

(* Bug: each party absorbs its own channel first.                          *)
TranscriptByRole(p) ==
    <<<<send_io(p), seen[p][send_io(p)]>>, <<recv_io(p), seen[p][recv_io(p)]>>>>

(* What the digests of io and sib commit to.                               *)
Transcript(p) == seen[p]
===============================================================================
