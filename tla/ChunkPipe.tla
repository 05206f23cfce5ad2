------------------------------ MODULE ChunkPipe ------------------------------
(***************************************************************************)
(* chunk_pipe<T> (backend/helper.h): a bounded single-producer /           *)
(* single-consumer ring of Depth slots behind one mutex and two condition  *)
(* variables, with in-place access to the slots outside the mutex.         *)
(*                                                                         *)
(* A step is what happens under one hold of the mutex, or one notify_one   *)
(* after it was released.  Where each thread is with respect to the pipe:  *)
(*   "out"     outside any call          "asleep"  in cv.wait              *)
(*   "woken"   wait returned, predicate to be tested again                 *)
(*   "hold"    between the return of its slot and publish / release        *)
(*   "notify"  mutex released, notify_one still to come ("last": the one   *)
(*             of producer_close)                                          *)
(* and finally "done" (producer closed) or "eof" (consumer got nullptr).   *)
(***************************************************************************)
EXTENDS Integers

CONSTANT Depth          \* slots_.size()

ASSUME DepthAssumption == Depth \in Nat \ {0}

VARIABLES
    head,               \* consumer_head_
    count,              \* count_
    closed,             \* closed_
    slots,              \* slots_, indexed from 0
    ppos, pidx,         \* the producer's place, and the slot it was given
    cpos, cidx          \* the consumer's place, and the slot it was given

pipeVars == <<head, count, closed, slots, ppos, pidx, cpos, cidx>>

SlotIndex == 0 .. (Depth - 1)

PipeInit(empty) ==
    /\ head = 0 /\ count = 0 /\ closed = FALSE
    /\ slots = [i \in SlotIndex |-> empty]
    /\ ppos = "out" /\ pidx = 0
    /\ cpos = "out" /\ cidx = 0
-------------------------------------------------------------------------------
(* Bug: the ring is allowed one chunk more than it has slots.              *)
FreeOffByOne == count <= Depth

(* Bug: the classic ring that keeps one slot unused.                       *)
FreeLessOne == count < Depth - 1

(* The predicate of cv_free_.wait.                                         *)
Free == count < Depth

(* The predicate of cv_full_.wait.                                         *)
Full == count > 0 \/ closed

producer_slot ==
    /\ ppos \in {"out", "woken"}
    /\ IF Free THEN ppos' = "hold" /\ pidx' = (head + count) % Depth
               ELSE ppos' = "asleep" /\ UNCHANGED pidx
    /\ UNCHANGED <<head, count, closed, slots, cpos, cidx>>

(* The producer fills the slot it was given, outside the mutex.            *)
Write(v) ==
    /\ ppos = "hold"
    /\ slots' = [slots EXCEPT ![pidx] = v]
    /\ UNCHANGED <<head, count, closed, ppos, pidx, cpos, cidx>>

producer_publish ==
    /\ ppos = "hold"
    /\ count' = count + 1
    /\ ppos' = "notify"
    /\ UNCHANGED <<head, closed, slots, pidx, cpos, cidx>>

producer_close ==
    /\ ppos \in {"out", "hold"}
    /\ closed' = TRUE
    /\ ppos' = "last"
    /\ UNCHANGED <<head, count, slots, pidx, cpos, cidx>>

(* Bug: producer_close does not notify.                                    *)
NotifyNotLast ==
    /\ ppos \in {"notify", "last"}
    /\ ppos' = IF ppos = "last" THEN "done" ELSE "out"
    /\ cpos' = IF cpos = "asleep" /\ ppos # "last" THEN "woken" ELSE cpos
    /\ UNCHANGED <<head, count, closed, slots, pidx, cidx>>

(* cv_full_.notify_one, after publish or close.                            *)
NotifyFull ==
    /\ ppos \in {"notify", "last"}
    /\ ppos' = IF ppos = "last" THEN "done" ELSE "out"
    /\ cpos' = IF cpos = "asleep" THEN "woken" ELSE cpos
    /\ UNCHANGED <<head, count, closed, slots, pidx, cidx>>

(* Bug: a closed pipe is taken to be drained.                              *)
ConsumerSlotClosedIsEof ==
    /\ cpos \in {"out", "woken"}
    /\ IF ~Full THEN cpos' = "asleep" /\ UNCHANGED cidx
       ELSE IF closed THEN cpos' = "eof" /\ UNCHANGED cidx
       ELSE cpos' = "hold" /\ cidx' = head
    /\ UNCHANGED <<head, count, closed, slots, ppos, pidx>>

consumer_slot ==
    /\ cpos \in {"out", "woken"}
    /\ IF ~Full THEN cpos' = "asleep" /\ UNCHANGED cidx
       ELSE IF count = 0 THEN cpos' = "eof" /\ UNCHANGED cidx
       ELSE cpos' = "hold" /\ cidx' = head
    /\ UNCHANGED <<head, count, closed, slots, ppos, pidx>>

(* Bug: the head runs past the end of the ring by one.                     *)
ReleaseNoWrap ==
    /\ cpos = "hold"
    /\ head' = IF head = Depth - 1 THEN head ELSE head + 1
    /\ count' = count - 1
    /\ cpos' = "notify"
    /\ UNCHANGED <<closed, slots, ppos, pidx, cidx>>

consumer_release ==
    /\ cpos = "hold"
    /\ head' = (head + 1) % Depth
    /\ count' = count - 1
    /\ cpos' = "notify"
    /\ UNCHANGED <<closed, slots, ppos, pidx, cidx>>

(* cv_free_.notify_one, after release.                                     *)
NotifyFree ==
    /\ cpos = "notify"
    /\ cpos' = "out"
    /\ ppos' = IF ppos = "asleep" THEN "woken" ELSE ppos
    /\ UNCHANGED <<head, count, closed, slots, pidx, cidx>>

(* A condition variable may wake a waiter for no reason.                   *)
SpuriousWakeup ==
    /\ \/ ppos = "asleep" /\ ppos' = "woken" /\ UNCHANGED cpos
       \/ cpos = "asleep" /\ cpos' = "woken" /\ UNCHANGED ppos
    /\ UNCHANGED <<head, count, closed, slots, pidx, cidx>>
==============================================================================
