------------------------------ MODULE PipeClient ------------------------------
(***************************************************************************)
(* A chunk_pipe between the two threads it is made for.  The producer      *)
(* fills and publishes chunks 1, 2, ... and closes when it likes, possibly *)
(* with a slot in hand that it never publishes (AG2PCGarblePass::end with  *)
(* an empty chunk); the consumer takes chunks until it is told of the end  *)
(* (the loop of AG2PCGarblePass::begin).                                   *)
(***************************************************************************)
EXTENDS ChunkPipe, Sequences

CONSTANT MaxChunks      \* bound on the chunks the producer publishes

ASSUME MaxChunksAssumption == MaxChunks \in Nat

VARIABLES
    made,               \* chunks published
    taken               \* chunks released

vars == <<pipeVars, made, taken>>

Init == PipeInit(0) /\ made = 0 /\ taken = 0

Fill ==
    /\ made < MaxChunks
    /\ ppos = "hold" /\ slots[pidx] # made + 1
    /\ Write(made + 1)
    /\ UNCHANGED <<made, taken>>

Publish ==
    /\ slots[pidx] = made + 1
    /\ producer_publish
    /\ made' = made + 1
    /\ UNCHANGED taken

Producer ==
    \/ producer_slot /\ UNCHANGED <<made, taken>>
    \/ Fill
    \/ Publish
    \/ producer_close /\ UNCHANGED <<made, taken>>
    \/ NotifyFull /\ UNCHANGED <<made, taken>>

Release == consumer_release /\ taken' = taken + 1 /\ UNCHANGED made

Consumer ==
    \/ consumer_slot /\ UNCHANGED <<made, taken>>
    \/ Release
    \/ NotifyFree /\ UNCHANGED <<made, taken>>

Ended == ppos = "done" /\ cpos = "eof" /\ UNCHANGED vars

Next ==
    \/ Producer
    \/ Consumer
    \/ SpuriousWakeup /\ UNCHANGED <<made, taken>>
    \/ Ended

(* Both threads keep running: each takes a step when it stays able to.     *)
Fairness == WF_vars(Producer) /\ WF_vars(Consumer)

Spec == Init /\ [][Next]_vars /\ Fairness
-------------------------------------------------------------------------------
(* The state has the shape the code declares; neither index leaves the     *)
(* ring and the unsigned count_ never wraps below 0 or above the ring.     *)
PipeTypeOK ==
    /\ head \in SlotIndex
    /\ count \in 0 .. Depth
    /\ closed \in BOOLEAN
    /\ slots \in [SlotIndex -> Nat]
    /\ ppos \in {"out", "asleep", "woken", "hold", "notify", "last", "done"}
    /\ cpos \in {"out", "asleep", "woken", "hold", "notify", "eof"}
    /\ pidx \in SlotIndex /\ cidx \in SlotIndex
    /\ made \in Nat /\ taken \in Nat

(* The two threads never have the same slot in hand: the producer writes   *)
(* its slot and the consumer reads its own without the mutex.              *)
NoSlotRace == ppos = "hold" /\ cpos = "hold" => pidx # cidx

(* The consumer finds in its slot the next chunk in publication order,     *)
(* however the ring wrapped; nothing is lost, repeated or overwritten.     *)
InOrder ==
    /\ taken + count = made
    /\ cpos = "hold" => slots[cidx] = taken + 1

(* No lost wakeup: a thread sleeps on a condition that holds only while    *)
(* the other one is still on its way to notify_one.                        *)
NoLostWakeup ==
    /\ ppos = "asleep" /\ Free => cpos = "notify"
    /\ cpos = "asleep" /\ Full => ppos \in {"notify", "last"}

(* The consumer is told of the end only when every chunk was taken.        *)
EofMeansDrained == cpos = "eof" => closed /\ taken = made

(* The pipe implements the abstract channel, its fairness included: under  *)
(* fair threads what is published is taken, the producer's close gets      *)
(* through and the consumer leaves (sender_fut.get() in end() returns).    *)
Channel == INSTANCE ChunkChannel WITH
    Chunks <- 1 .. MaxChunks,
    chan   <- [i \in 1 .. count |-> slots[(head + i - 1) % Depth]],
    eof    <- (cpos = "eof")

ImplementsChannel == Channel!Spec
==============================================================================
