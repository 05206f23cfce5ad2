--------------------------- MODULE PipeClient_proofs ---------------------------
(***************************************************************************)
(* Proofs about PipeClient, for every ring size and every number of        *)
(* chunks.                                                                 *)
(***************************************************************************)
EXTENDS PipeClient, SequenceTheorems, TLAPS

(* Position of the i-th published chunk, counted from the oldest.          *)
At(i) == (head + i) % Depth

(* What a thread inside the pipe may rely on while it is outside the mutex.*)
HoldInv ==
    /\ ppos = "hold" => count < Depth /\ pidx = At(count)
    /\ cpos = "hold" => count > 0 /\ cidx = head

(* The ring holds the published chunks in order, oldest at head.           *)
RingInv ==
    /\ taken + count = made
    /\ \A i \in 0 .. (count - 1) : slots[At(i)] = taken + 1 + i

CloseInv ==
    /\ closed <=> ppos \in {"last", "done"}
    /\ cpos = "eof" => closed /\ count = 0

IInv == PipeTypeOK /\ HoldInv /\ RingInv /\ CloseInv /\ NoLostWakeup
-------------------------------------------------------------------------------
(* One wrap around a ring of D slots.                                      *)
LEMMA ModOnce ==
    ASSUME NEW D \in Nat \ {0}, NEW h \in 0 .. (D - 1), NEW i \in 0 .. D
    PROVE  (h + i) % D = IF h + i < D THEN h + i ELSE h + i - D
OBVIOUS

(* Where the chunks are, without the modulus; distinct positions are       *)
(* distinct slots.                                                         *)
LEMMA AtSlot ==
    ASSUME PipeTypeOK
    PROVE  /\ \A i \in 0 .. Depth : /\ At(i) \in SlotIndex
                                    /\ At(i) = IF head + i < Depth THEN head + i
                                               ELSE head + i - Depth
           /\ \A i, j \in 0 .. (Depth - 1) : i # j => At(i) # At(j)
           /\ At(0) = head
<1>1. Depth \in Nat \ {0} /\ head \in 0 .. (Depth - 1)
  BY DepthAssumption DEF PipeTypeOK, SlotIndex
<1>2. ASSUME NEW i \in 0 .. Depth
      PROVE  At(i) = IF head + i < Depth THEN head + i ELSE head + i - Depth
  BY <1>1, ModOnce DEF At
<1>3. ASSUME NEW i \in 0 .. Depth PROVE At(i) \in SlotIndex
  BY <1>1, <1>2 DEF SlotIndex
<1>4. ASSUME NEW i \in 0 .. (Depth - 1), NEW j \in 0 .. (Depth - 1), i # j
      PROVE  At(i) # At(j)
  <2>1. /\ At(i) = IF head + i < Depth THEN head + i ELSE head + i - Depth
        /\ At(j) = IF head + j < Depth THEN head + j ELSE head + j - Depth
    BY <1>1, <1>2
  <2> QED
    BY <1>1, <1>4, <2>1
<1>5. At(0) = head
  BY <1>1, <1>2
<1> QED
  BY <1>2, <1>3, <1>4, <1>5

(* Releasing the oldest chunk shifts every position by one.                *)
LEMMA AtAfterRelease ==
    ASSUME PipeTypeOK, consumer_release
    PROVE  /\ head' \in SlotIndex
           /\ \A i \in 0 .. (Depth - 1) : (head' + i) % Depth = At(i + 1)
<1>0. Depth \in Nat \ {0} /\ head \in 0 .. (Depth - 1)
  BY DepthAssumption DEF PipeTypeOK, SlotIndex
<1>1. head' = IF head + 1 < Depth THEN head + 1 ELSE 0
  BY <1>0 DEF consumer_release
<1>2. head' \in SlotIndex
  BY <1>0, <1>1 DEF SlotIndex
<1>3. ASSUME NEW i \in 0 .. (Depth - 1) PROVE (head' + i) % Depth = At(i + 1)
  <2>1. head' \in 0 .. (Depth - 1) /\ i \in 0 .. Depth
    BY <1>0, <1>2 DEF SlotIndex
  <2>2. (head' + i) % Depth = IF head' + i < Depth THEN head' + i ELSE head' + i - Depth
    BY <1>0, <2>1, ModOnce
  <2>3. At(i + 1) = IF head + (i + 1) < Depth THEN head + (i + 1) ELSE head + (i + 1) - Depth
    BY AtSlot, DepthAssumption
  <2> QED
    BY <1>0, <1>1, <2>2, <2>3
<1> QED
  BY <1>2, <1>3

(* The constructor of chunk_pipe establishes the invariant.                *)
LEMMA InitIInv == Init => IInv
<1> SUFFICES ASSUME Init PROVE IInv
  OBVIOUS
<1>1. PipeTypeOK
  <2>1. slots \in [SlotIndex -> Nat]
    BY DEF Init, PipeInit
  <2>2. 0 \in SlotIndex /\ 0 \in 0 .. Depth
    BY DepthAssumption DEF SlotIndex
  <2> QED
    BY <2>1, <2>2 DEF Init, PipeInit, PipeTypeOK
<1>2. HoldInv /\ RingInv /\ CloseInv /\ NoLostWakeup
  BY DepthAssumption
  DEF Init, PipeInit, HoldInv, RingInv, CloseInv, NoLostWakeup, Free, Full
<1> QED
  BY <1>1, <1>2 DEF IInv

(* Every step of either thread preserves it.                               *)
LEMMA StepIInv == IInv /\ [Next]_vars => IInv'
<1> SUFFICES ASSUME IInv, [Next]_vars PROVE IInv'
  OBVIOUS
<1> USE DepthAssumption
<1> DEFINE Rest == UNCHANGED <<made, taken>>
<1>1. CASE producer_slot /\ Rest
  <2>1. pidx' \in SlotIndex /\ (ppos' = "hold" => count < Depth /\ pidx' = At(count))
    BY <1>1, AtSlot DEF IInv, PipeTypeOK, producer_slot, Free, At
  <2>2. PipeTypeOK'
    BY <1>1, <2>1 DEF IInv, PipeTypeOK, producer_slot
  <2>3. HoldInv' /\ RingInv' /\ CloseInv'
    BY <1>1, <2>1 DEF IInv, HoldInv, RingInv, CloseInv, producer_slot, At
  <2>4. NoLostWakeup'
    BY <1>1 DEF IInv, NoLostWakeup, producer_slot, Free, Full
  <2> QED
    BY <2>2, <2>3, <2>4 DEF IInv
<1>2. CASE Fill
  <2>1. /\ slots' = [slots EXCEPT ![At(count)] = made + 1] /\ count < Depth
        /\ UNCHANGED <<head, count, closed, ppos, pidx, cpos, cidx, made, taken>>
    BY <1>2 DEF IInv, HoldInv, Fill, Write
  <2>2. PipeTypeOK'
    <3>1. slots \in [SlotIndex -> Nat] /\ made + 1 \in Nat
      BY DEF IInv, PipeTypeOK
    <3>2. slots' \in [SlotIndex -> Nat]
      BY <2>1, <3>1
    <3> QED
      BY <2>1, <3>2 DEF IInv, PipeTypeOK
  <2>3. \A i \in 0 .. (count - 1) : slots'[At(i)] = slots[At(i)]
    BY <2>1, AtSlot DEF IInv, PipeTypeOK
  <2>4. RingInv'
    BY <2>1, <2>3 DEF IInv, RingInv, At
  <2>5. HoldInv' /\ CloseInv' /\ NoLostWakeup'
    BY <2>1 DEF IInv, HoldInv, CloseInv, NoLostWakeup, At, Free, Full
  <2> QED
    BY <2>2, <2>4, <2>5 DEF IInv
<1>3. CASE Publish
  <2>1. /\ count < Depth /\ slots[At(count)] = made + 1 /\ ~closed
        /\ ppos' = "notify" /\ count' = count + 1 /\ made' = made + 1
        /\ UNCHANGED <<head, closed, slots, pidx, cpos, cidx, taken>>
    BY <1>3 DEF IInv, HoldInv, CloseInv, Publish, producer_publish
  <2>2. PipeTypeOK'
    BY <2>1 DEF IInv, PipeTypeOK
  <2>3. RingInv'
    BY <2>1 DEF IInv, PipeTypeOK, RingInv, At
  <2>4. HoldInv' /\ CloseInv'
    BY <2>1 DEF IInv, PipeTypeOK, HoldInv, CloseInv, At
  <2>5. NoLostWakeup'
    BY <2>1 DEF IInv, PipeTypeOK, NoLostWakeup, Free, Full
  <2> QED
    BY <2>2, <2>3, <2>4, <2>5 DEF IInv
<1>4. CASE producer_close /\ Rest
  BY <1>4 DEF IInv, PipeTypeOK, HoldInv, RingInv, CloseInv, NoLostWakeup, producer_close,
              At, Free, Full
<1>5. CASE NotifyFull /\ Rest
  BY <1>5 DEF IInv, PipeTypeOK, HoldInv, RingInv, CloseInv, NoLostWakeup, NotifyFull,
              At, Free, Full
<1>6. CASE consumer_slot /\ Rest
  BY <1>6 DEF IInv, PipeTypeOK, HoldInv, RingInv, CloseInv, NoLostWakeup, consumer_slot,
              At, Free, Full
<1>7. CASE Release
  <2>1. /\ consumer_release /\ count > 0
        /\ cpos' = "notify" /\ count' = count - 1 /\ taken' = taken + 1
        /\ UNCHANGED <<closed, slots, ppos, pidx, cidx, made>>
    BY <1>7 DEF IInv, HoldInv, Release, consumer_release
  <2>2. PipeTypeOK'
    BY <2>1, AtAfterRelease DEF IInv, PipeTypeOK
  <2>3. \A i \in 0 .. (Depth - 1) : (head' + i) % Depth = At(i + 1)
    BY <2>1, AtAfterRelease DEF IInv
  <2>4. RingInv'
    <3>1. taken' + count' = made'
      BY <2>1 DEF IInv, PipeTypeOK, RingInv
    <3>2. ASSUME NEW i \in 0 .. (count' - 1)
          PROVE  slots'[(head' + i) % Depth] = taken' + 1 + i
      <4>1. i + 1 \in 0 .. (count - 1) /\ i \in 0 .. (Depth - 1)
        BY <2>1 DEF IInv, PipeTypeOK
      <4>2. slots[At(i + 1)] = taken + 1 + (i + 1)
        BY <4>1 DEF IInv, RingInv
      <4> QED
        BY <2>1, <2>3, <4>1, <4>2 DEF IInv, PipeTypeOK
    <3> QED
      BY <3>1, <3>2 DEF RingInv, At
  <2>5. HoldInv'
    <3>1. count' \in 0 .. (Depth - 1) /\ count' + 1 = count
      BY <2>1 DEF IInv, PipeTypeOK
    <3>2. (head' + count') % Depth = At(count)
      BY <2>3, <3>1
    <3> QED
      BY <2>1, <3>1, <3>2 DEF IInv, HoldInv, At
  <2>6. CloseInv' /\ NoLostWakeup'
    BY <2>1 DEF IInv, PipeTypeOK, CloseInv, NoLostWakeup, Free, Full
  <2> QED
    BY <2>2, <2>4, <2>5, <2>6 DEF IInv
<1>8. CASE NotifyFree /\ Rest
  BY <1>8 DEF IInv, PipeTypeOK, HoldInv, RingInv, CloseInv, NoLostWakeup, NotifyFree,
              At, Free, Full
<1>9. CASE SpuriousWakeup /\ Rest
  BY <1>9 DEF IInv, PipeTypeOK, HoldInv, RingInv, CloseInv, NoLostWakeup, SpuriousWakeup,
              At, Free, Full
<1>10. CASE UNCHANGED vars
  BY <1>10 DEF IInv, PipeTypeOK, HoldInv, RingInv, CloseInv, NoLostWakeup, vars, pipeVars,
               At, Free, Full
<1> QED
  BY <1>1, <1>2, <1>3, <1>4, <1>5, <1>6, <1>7, <1>8, <1>9, <1>10
  DEF Next, Producer, Consumer, Ended

(* The invariant holds throughout.                                         *)
LEMMA IInvAlways == Spec => []IInv
BY InitIInv, StepIInv, PTL DEF Spec

(* Type correctness: indices stay in the ring, count_ between 0 and its    *)
(* size, for a pipe of any depth and any number of chunks.                 *)
THEOREM PipeTypeCorrect == Spec => []PipeTypeOK
<1>1. IInv => PipeTypeOK
  BY DEF IInv
<1> QED
  BY <1>1, IInvAlways, PTL

(* The producer and the consumer of a chunk_pipe never touch the same slot *)
(* at the same time, although neither holds the mutex while it does.       *)
THEOREM PipeRaceFree == Spec => []NoSlotRace
<1>1. IInv => NoSlotRace
  <2> SUFFICES ASSUME IInv, ppos = "hold", cpos = "hold" PROVE pidx # cidx
    BY DEF NoSlotRace
  <2>1. /\ PipeTypeOK /\ 0 < count /\ count < Depth
        /\ pidx = At(count) /\ cidx = At(0)
    BY AtSlot DEF IInv, HoldInv
  <2> QED
    BY <2>1, AtSlot, DepthAssumption DEF PipeTypeOK
<1> QED
  BY <1>1, IInvAlways, PTL

(* Chunks leave in the order they were published, each exactly once.       *)
THEOREM PipeInOrder == Spec => []InOrder
<1>1. IInv => InOrder
  <2> SUFFICES ASSUME IInv PROVE InOrder
    OBVIOUS
  <2>1. cpos = "hold" => count > 0 /\ cidx = At(0)
    BY AtSlot DEF IInv, HoldInv
  <2> QED
    BY <2>1 DEF IInv, PipeTypeOK, RingInv, InOrder
<1> QED
  BY <1>1, IInvAlways, PTL

(* No wakeup is lost: a thread sleeps on a condition that holds only while *)
(* the other is still about to notify it.                                  *)
THEOREM PipeNoLostWakeup == Spec => []NoLostWakeup
<1>1. IInv => NoLostWakeup
  BY DEF IInv
<1> QED
  BY <1>1, IInvAlways, PTL

(* consumer_slot returns nullptr only after every published chunk was      *)
(* taken and the producer closed.                                          *)
THEOREM PipeEofDrained == Spec => []EofMeansDrained
<1>1. IInv => EofMeansDrained
  BY DEF IInv, PipeTypeOK, RingInv, CloseInv, EofMeansDrained
<1> QED
  BY <1>1, IInvAlways, PTL
-------------------------------------------------------------------------------
(* Only chunks of the producer's run are ever written into a slot.         *)
SlotsBounded == \A i \in SlotIndex : slots[i] <= MaxChunks

(* The channel that a ring with head h, n chunks and slots s stands for.   *)
Published(h, n, s) == [i \in 1 .. n |-> s[(h + i - 1) % Depth]]

(* What the pipe promises, step by step: ChunkChannel without fairness.    *)
ChannelSteps == Channel!Init /\ [][Channel!Next]_(Channel!chanVars)

(* The published chunks are a sequence of as many elements as count_ says. *)
LEMMA PublishedSeq ==
    ASSUME NEW h \in SlotIndex, NEW n \in 0 .. Depth, NEW s \in [SlotIndex -> Nat]
    PROVE  /\ Published(h, n, s) \in Seq(Nat) /\ Len(Published(h, n, s)) = n
           /\ \A i \in 1 .. n : Published(h, n, s)[i] = s[(h + (i - 1)) % Depth]
<1>1. Depth \in Nat \ {0} /\ h \in 0 .. (Depth - 1)
  BY DepthAssumption DEF SlotIndex
<1>2. ASSUME NEW i \in 1 .. n
      PROVE  /\ Published(h, n, s)[i] = s[(h + (i - 1)) % Depth]
             /\ Published(h, n, s)[i] \in Nat
  <2>1. i - 1 \in 0 .. Depth /\ h + i - 1 = h + (i - 1)
    BY <1>1
  <2>2. (h + (i - 1)) % Depth \in SlotIndex
    BY <1>1, <2>1, ModOnce DEF SlotIndex
  <2> QED
    BY <2>1, <2>2 DEF Published
<1>3. Published(h, n, s) \in [1 .. n -> Nat]
  BY <1>2 DEF Published
<1> QED
  BY <1>2, <1>3

(* Filling slots with chunks of the run keeps them within the run.         *)
LEMMA StepSlotsBounded == IInv /\ SlotsBounded /\ [Next]_vars => SlotsBounded'
<1> SUFFICES ASSUME IInv, SlotsBounded, [Next]_vars PROVE SlotsBounded'
  OBVIOUS
<1>1. CASE Fill
  <2>1. slots' = [slots EXCEPT ![pidx] = made + 1] /\ made + 1 <= MaxChunks
    BY <1>1, MaxChunksAssumption DEF Fill, Write, IInv, PipeTypeOK
  <2> QED
    BY <2>1 DEF SlotsBounded, IInv, PipeTypeOK
<1>2. CASE UNCHANGED slots
  BY <1>2 DEF SlotsBounded
<1> QED
  BY <1>1, <1>2
  DEF Next, Producer, Consumer, Ended, Publish, Release, vars, pipeVars, producer_slot,
      producer_publish, producer_close, NotifyFull, consumer_slot, consumer_release,
      NotifyFree, SpuriousWakeup

(* Each step of a thread is one step of the channel, or none: a publish    *)
(* puts, a close closes, a release takes, nullptr finishes; filling a slot *)
(* that is not published yet, sleeping and waking are invisible.           *)
LEMMA StepChannel ==
    IInv /\ IInv' /\ SlotsBounded /\ [Next]_vars => [Channel!Next]_(Channel!chanVars)
<1> SUFFICES ASSUME IInv, IInv', SlotsBounded, [Next]_vars
             PROVE  [Channel!Next]_(Channel!chanVars)
  OBVIOUS
<1> USE DepthAssumption
<1> DEFINE chan == Published(head, count, slots)
           eof  == cpos = "eof"
           Same == UNCHANGED <<chan, closed, eof>>
<1>1. /\ chan \in Seq(Nat) /\ Len(chan) = count
      /\ \A i \in 1 .. count : chan[i] = slots[At(i - 1)]
  BY PublishedSeq DEF IInv, PipeTypeOK, At
<1>2. /\ chan' \in Seq(Nat) /\ Len(chan') = count'
      /\ \A i \in 1 .. count' : chan'[i] = slots'[(head' + (i - 1)) % Depth]
  BY PublishedSeq DEF IInv, PipeTypeOK
<1>3. UNCHANGED <<head, count, slots>> => UNCHANGED chan
  BY DEF Published
<1> HIDE DEF chan
<1>4. CASE Fill
  <2>1. /\ slots' = [slots EXCEPT ![At(count)] = made + 1] /\ count < Depth
        /\ UNCHANGED <<head, count, closed, cpos>>
    BY <1>4 DEF IInv, HoldInv, Fill, Write
  <2>2. \A i \in 1 .. count : slots'[At(i - 1)] = slots[At(i - 1)]
    BY <2>1, AtSlot DEF IInv, PipeTypeOK
  <2>3. \A i \in 1 .. count : chan'[i] = chan[i]
    BY <1>1, <1>2, <2>1, <2>2 DEF At
  <2>4. chan' = chan
    BY <1>1, <1>2, <2>1, <2>3, SeqEqual
  <2> QED
    BY <2>1, <2>4 DEF Channel!chanVars, Published, chan
<1>5. CASE Publish
  <2>1. /\ count < Depth /\ slots[At(count)] = made + 1 /\ ~closed
        /\ count' = count + 1 /\ UNCHANGED <<head, closed, slots, cpos>>
    BY <1>5 DEF IInv, HoldInv, CloseInv, Publish, producer_publish
  <2>2. made + 1 \in 1 .. MaxChunks
    BY <2>1, AtSlot, MaxChunksAssumption DEF SlotsBounded, IInv, PipeTypeOK
  <2>3. \A i \in 1 .. count + 1 : chan'[i] = slots[At(i - 1)]
    BY <1>2, <2>1 DEF At
  <2>4. chan' = Append(chan, made + 1)
    <3>1. count \in Nat /\ made + 1 \in Nat
      BY <2>2 DEF IInv, PipeTypeOK
    <3>2. /\ Append(chan, made + 1) \in Seq(Nat)
          /\ Len(Append(chan, made + 1)) = count + 1
          /\ \A i \in 1 .. count : Append(chan, made + 1)[i] = chan[i]
          /\ Append(chan, made + 1)[count + 1] = made + 1
      BY <1>1, <3>1, AppendProperties
    <3>3. \A i \in 1 .. count + 1 : chan'[i] = Append(chan, made + 1)[i]
      <4> SUFFICES ASSUME NEW i \in 1 .. count + 1
                   PROVE  chan'[i] = Append(chan, made + 1)[i]
        OBVIOUS
      <4>1. CASE i \in 1 .. count
        BY <1>1, <2>3, <3>2, <4>1
      <4>2. CASE i = count + 1
        <5>1. i - 1 = count
          BY <3>1, <4>2
        <5> QED
          BY <2>1, <2>3, <3>2, <4>2, <5>1
      <4>3. i \in 1 .. count \/ i = count + 1
        BY <3>1
      <4> QED
        BY <4>1, <4>2, <4>3
    <3> QED
      BY <1>2, <2>1, <3>2, <3>3, SeqEqual
  <2>5. Channel!Put
    BY <1>1, <2>1, <2>2, <2>4 DEF Channel!Put, Published, chan
  <2> QED
    BY <2>5 DEF Channel!Next
<1>6. CASE Release
  <2>1. /\ consumer_release /\ count > 0 /\ count' = count - 1
        /\ UNCHANGED <<slots, closed>> /\ cpos # "eof" /\ cpos' # "eof"
    BY <1>6 DEF IInv, HoldInv, Release, consumer_release
  <2>2. \A i \in 1 .. count' : chan'[i] = slots[At(i)]
    <3> SUFFICES ASSUME NEW i \in 1 .. count' PROVE chan'[i] = slots[At(i)]
      OBVIOUS
    <3>1. i - 1 \in 0 .. (Depth - 1) /\ (i - 1) + 1 = i
      BY <2>1 DEF IInv, PipeTypeOK
    <3> QED
      BY <1>2, <2>1, <3>1, AtAfterRelease DEF IInv
  <2>3. \A i \in 1 .. count' : chan[i + 1] = slots[At(i)]
    <3> SUFFICES ASSUME NEW i \in 1 .. count' PROVE chan[i + 1] = slots[At(i)]
      OBVIOUS
    <3>1. i + 1 \in 1 .. count /\ (i + 1) - 1 = i
      BY <2>1 DEF IInv, PipeTypeOK
    <3> QED
      BY <1>1, <3>1
  <2>4. chan # <<>> /\ chan' = Tail(chan)
    <3>1. /\ chan # <<>> /\ Tail(chan) \in Seq(Nat) /\ Len(Tail(chan)) = count'
          /\ \A i \in 1 .. count' : Tail(chan)[i] = chan[i + 1]
      BY <1>1, <2>1, HeadTailProperties DEF IInv, PipeTypeOK
    <3>2. \A i \in 1 .. count' : chan'[i] = Tail(chan)[i]
      BY <2>2, <2>3, <3>1
    <3> QED
      BY <1>2, <3>1, <3>2, SeqEqual
  <2>5. Channel!Take
    BY <2>1, <2>4 DEF Channel!Take, Published, chan
  <2> QED
    BY <2>5 DEF Channel!Next
<1>7. CASE producer_close
  <2>1. ~closed /\ closed' = TRUE /\ UNCHANGED <<chan, eof>>
    BY <1>3, <1>7 DEF IInv, CloseInv, producer_close
  <2>2. Channel!Close
    BY <2>1 DEF Channel!Close, Published, chan
  <2> QED
    BY <2>2 DEF Channel!Next
<1>8. CASE consumer_slot /\ cpos' = "eof"
  <2>1. closed /\ count = 0 /\ ~eof /\ eof' /\ UNCHANGED <<chan, closed>>
    BY <1>3, <1>8 DEF IInv, PipeTypeOK, consumer_slot, Full
  <2>2. chan = <<>>
    BY <1>1, <2>1
  <2>3. Channel!Finish
    BY <2>1, <2>2 DEF Channel!Finish, Published, chan
  <2> QED
    BY <2>3 DEF Channel!Next
<1>9. CASE UNCHANGED <<head, count, slots, closed>> /\ (eof' <=> eof)
  BY <1>3, <1>9 DEF Channel!chanVars, Published, chan
<1>10. CASE consumer_slot /\ cpos' # "eof"
  <2>1. UNCHANGED <<head, count, slots, closed>> /\ (eof' <=> eof)
    BY <1>10 DEF consumer_slot
  <2> QED
    BY <1>9, <2>1
<1>11. CASE producer_slot \/ NotifyFull \/ NotifyFree \/ SpuriousWakeup \/ UNCHANGED vars
  <2>1. UNCHANGED <<head, count, slots, closed>> /\ (eof' <=> eof)
    BY <1>11 DEF producer_slot, NotifyFull, NotifyFree, SpuriousWakeup, vars, pipeVars
  <2> QED
    BY <1>9, <2>1
<1> QED
  BY <1>4, <1>5, <1>6, <1>7, <1>8, <1>10, <1>11 DEF Next, Producer, Consumer, Ended

(* chunk_pipe implements the bounded FIFO channel: every behaviour of the  *)
(* ring, its mutex, its condition variables and its two threads is, seen   *)
(* through the published chunks, a behaviour of ChunkChannel.              *)
THEOREM PipeIsChannel == Spec => ChannelSteps
<1>1. Init => Channel!Init
  <2> SUFFICES ASSUME Init PROVE Channel!Init
    OBVIOUS
  <2>1. PipeTypeOK /\ count = 0
    BY InitIInv DEF IInv, Init, PipeInit
  <2>2. Published(head, count, slots) = <<>>
    BY <2>1, PublishedSeq DEF PipeTypeOK
  <2> QED
    BY <2>2 DEF Channel!Init, Published, Init, PipeInit
<1>2. Init => SlotsBounded
  BY MaxChunksAssumption DEF Init, PipeInit, SlotsBounded
<1> QED
  BY <1>1, <1>2, IInvAlways, StepSlotsBounded, StepChannel, PTL DEF Spec, ChannelSteps
===============================================================================
