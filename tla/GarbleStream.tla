----------------------------- MODULE GarbleStream -----------------------------
(***************************************************************************)
(* Pass 2 of a run, seen as a stream (backend/pass_ctx.h): the garbler's   *)
(* compute thread fills chunks of at most KBatch rows, its sender thread   *)
(* ships them, the evaluator's receiver thread rebuilds them and its       *)
(* compute thread consumes one row per AND gate.  Four threads, two        *)
(* chunk_pipes, and a connection that holds NetCap rows.                   *)
(*                                                                         *)
(* A row of ciphertexts is <<"G", k>>, a row of permutation bits <<"b", k>>*)
(* with k the AND gate it was made for; the connection carries bare rows.  *)
(***************************************************************************)
EXTENDS Integers, Sequences

CONSTANTS
    KBatch,         \* kBatch
    Depth,          \* slots of each pipe (2 in both passes)
    NetCap,         \* bound: rows in flight between the two parties
    MaxAnds,        \* bound on the AND gates of the run
    Throws          \* whose source may throw: subset of {"garbler", "evaluator"}

ASSUME StreamAssumption ==
    /\ {KBatch, Depth, NetCap} \subseteq Nat \ {0}
    /\ MaxAnds \in Nat
    /\ Throws \subseteq {"garbler", "evaluator"}

VARIABLES
    num_ands,       \* s.num_ands, the same at both parties
    faulty,         \* the party whose source may throw in this run, or "none"
    net,            \* rows sent and not received
    (* The garbler: its pipe, AND gates garbled, whether cur is ready to be *)
    (* filled, where it is, and rows of the current chunk its sender sent.  *)
    ghead, gcount, gclosed, gslots, gppos, gpidx, gcpos, gcidx,
    garbled, gready, gstage, sent,
    (* The evaluator: its pipe, recv_base, rows of the current chunk        *)
    (* received, AND gates evaluated, loc, and where it is.                 *)
    ehead, ecount, eclosed, eslots, eppos, epidx, ecpos, ecidx,
    recv_base, got, evaluated, loc, estage

run   == <<num_ands, faulty>>
gpipe == <<ghead, gcount, gclosed, gslots, gppos, gpidx, gcpos, gcidx>>
epipe == <<ehead, ecount, eclosed, eslots, eppos, epidx, ecpos, ecidx>>
gvars == <<gpipe, garbled, gready, gstage, sent>>
evars == <<epipe, recv_base, got, evaluated, loc, estage>>
vars  == <<run, net, gvars, evars>>

GPipe == INSTANCE ChunkPipe WITH
    head <- ghead, count <- gcount, closed <- gclosed, slots <- gslots,
    ppos <- gppos, pidx <- gpidx, cpos <- gcpos, cidx <- gcidx

EPipe == INSTANCE ChunkPipe WITH
    head <- ehead, count <- ecount, closed <- eclosed, slots <- eslots,
    ppos <- eppos, pidx <- epidx, cpos <- ecpos, cidx <- ecidx

Row   == {"G", "b"} \X (0 .. MaxAnds)
Chunk == [n : 0 .. KBatch, G : [1 .. KBatch -> Row], b : [1 .. KBatch -> Row]]

(* AG2PCStreamChunk, as the pipe's constructor makes it.                   *)
EmptyChunk ==
    [n |-> 0, G |-> [i \in 1 .. KBatch |-> <<"G", 0>>],
              b |-> [i \in 1 .. KBatch |-> <<"b", 0>>]]

Init ==
    /\ num_ands \in 0 .. MaxAnds
    /\ faulty \in Throws \cup {"none"}
    /\ net = <<>>
    /\ GPipe!PipeInit(EmptyChunk) /\ EPipe!PipeInit(EmptyChunk)
    /\ garbled = 0 /\ gready = FALSE /\ gstage = "run" /\ sent = 0
    /\ recv_base = 0 /\ got = 0
    /\ evaluated = 0 /\ loc = 0 /\ estage = "run"
-------------------------------------------------------------------------------
(* The garbler's compute thread.                                           *)

gcur == gslots[gpidx]

(* cur = &pipe.producer_slot(), in begin and after a full chunk.           *)
GarblerSlot ==
    /\ gstage = "run" /\ ~gready
    /\ GPipe!producer_slot
    /\ UNCHANGED <<garbled, gready, gstage, sent>>

(* Bug: cur->n keeps the value of the chunk that used the slot before.     *)
GarblerResetMissing ==
    /\ gstage = "run" /\ ~gready
    /\ gppos = "hold"
    /\ gready' = TRUE
    /\ UNCHANGED <<gpipe, garbled, gstage, sent>>

(* cur->n = 0.                                                             *)
GarblerReset ==
    /\ gstage = "run" /\ ~gready
    /\ GPipe!Write([gcur EXCEPT !.n = 0])
    /\ gready' = TRUE
    /\ UNCHANGED <<garbled, gstage, sent>>

(* and_gate up to ++cur->n.                                                *)
GarbleAnd ==
    /\ gstage = "run" /\ gready /\ gcur.n < KBatch
    /\ garbled < num_ands
    /\ GPipe!Write([gcur EXCEPT !.n = @ + 1,
                                !.G[gcur.n + 1] = <<"G", garbled + 1>>,
                                !.b[gcur.n + 1] = <<"b", garbled + 1>>])
    /\ garbled' = garbled + 1
    /\ UNCHANGED <<gready, gstage, sent>>

(* The rest of and_gate when the chunk is full.                            *)
GarblerPublish ==
    /\ gready /\ gcur.n = KBatch
    /\ GPipe!producer_publish
    /\ gready' = FALSE
    /\ UNCHANGED <<garbled, gstage, sent>>

GarblerNotify == GPipe!NotifyFull /\ UNCHANGED <<garbled, gready, gstage, sent>>

(* Bug: a partly filled last chunk is not published.                       *)
GarblerEndDropsTail ==
    /\ gstage \in {"run", "thrown"} /\ gready /\ gcur.n < KBatch
    /\ gstage = "run" => garbled = num_ands
    /\ gstage' = "closing" /\ UNCHANGED gpipe
    /\ gready' = FALSE
    /\ UNCHANGED <<garbled, sent>>

(* Bug: end is called after source(pass), not by a scope guard.            *)
GarblerEndUnguarded ==
    /\ gstage = "run" /\ gready /\ gcur.n < KBatch
    /\ garbled = num_ands
    /\ gstage' = "closing"
    /\ IF gcur.n > 0 THEN GPipe!producer_publish ELSE UNCHANGED gpipe
    /\ gready' = FALSE
    /\ UNCHANGED <<garbled, sent>>

(* end, from the end of the source or a throw: publish what cur holds.     *)
GarblerEnd ==
    /\ gstage \in {"run", "thrown"} /\ gready /\ gcur.n < KBatch
    /\ gstage = "run" => garbled = num_ands
    /\ gstage' = "closing"
    /\ IF gcur.n > 0 THEN GPipe!producer_publish ELSE UNCHANGED gpipe
    /\ gready' = FALSE
    /\ UNCHANGED <<garbled, sent>>

GarblerClose ==
    /\ gstage = "closing"
    /\ GPipe!producer_close
    /\ gstage' = "joining"
    /\ UNCHANGED <<garbled, gready, sent>>

(* sender_fut.get().                                                       *)
GarblerJoin ==
    /\ gstage = "joining" /\ gppos = "done" /\ gcpos = "eof"
    /\ gstage' = "done"
    /\ UNCHANGED <<gpipe, garbled, gready, sent>>

Garbler ==
    /\ \/ GarblerSlot \/ GarblerReset \/ GarbleAnd \/ GarblerPublish
       \/ GarblerNotify \/ GarblerEnd \/ GarblerClose \/ GarblerJoin
    /\ UNCHANGED <<run, net, evars>>

(* source(pass) throws between two gates.                                  *)
GarblerThrow ==
    /\ faulty = "garbler"
    /\ gstage = "run" /\ gready /\ gcur.n < KBatch
    /\ garbled < num_ands
    /\ gstage' = "thrown"
    /\ UNCHANGED <<run, net, gpipe, garbled, gready, sent, evars>>
-------------------------------------------------------------------------------
(* The sender thread, enqueued by AG2PCGarblePass::begin.                  *)

schunk == gslots[gcidx]

SenderSlot == GPipe!consumer_slot /\ UNCHANGED <<net, garbled, gready, gstage, sent>>

(* send_data of the chunk's G rows, then of its b rows; it blocks while    *)
(* the connection is full.                                                 *)
SendRow ==
    /\ gcpos = "hold" /\ sent < 2 * schunk.n
    /\ Len(net) < NetCap
    /\ net' = Append(net, IF sent < schunk.n THEN schunk.G[sent + 1]
                                             ELSE schunk.b[sent - schunk.n + 1])
    /\ sent' = sent + 1
    /\ UNCHANGED <<gpipe, garbled, gready, gstage>>

SenderRelease ==
    /\ gcpos = "hold" /\ sent = 2 * schunk.n
    /\ GPipe!consumer_release
    /\ sent' = 0
    /\ UNCHANGED <<net, garbled, gready, gstage>>

SenderNotify == GPipe!NotifyFree /\ UNCHANGED <<net, garbled, gready, gstage, sent>>

Sender ==
    /\ SenderSlot \/ SendRow \/ SenderRelease \/ SenderNotify
    /\ UNCHANGED <<run, evars>>
-------------------------------------------------------------------------------
(* The receiver thread, enqueued by AG2PCEvaluatePass::begin.              *)

rchunk == eslots[epidx]

(* slot.n = std::min(kBatch, s.num_ands - recv_base).                      *)
ChunkRows == IF num_ands - recv_base < KBatch THEN num_ands - recv_base ELSE KBatch

ReceiverSlot ==
    /\ recv_base < num_ands
    /\ EPipe!producer_slot
    /\ UNCHANGED <<net, recv_base, got>>

(* recv_data of the G rows, then of the b rows; it blocks while nothing    *)
(* has come.  The first row is preceded by the assignment of slot.n.       *)
RecvRow ==
    /\ eppos = "hold" /\ got < 2 * ChunkRows
    /\ net # <<>>
    /\ EPipe!Write(IF got < ChunkRows
                   THEN [rchunk EXCEPT !.n = ChunkRows, !.G[got + 1] = Head(net)]
                   ELSE [rchunk EXCEPT !.b[got - ChunkRows + 1] = Head(net)])
    /\ net' = Tail(net)
    /\ got' = got + 1
    /\ UNCHANGED recv_base

(* producer_publish, and recv_base += slot.n (the consumer only reads n).  *)
ReceiverPublish ==
    /\ eppos = "hold" /\ got = 2 * ChunkRows
    /\ EPipe!producer_publish
    /\ recv_base' = recv_base + ChunkRows
    /\ got' = 0
    /\ UNCHANGED net

ReceiverClose ==
    /\ recv_base >= num_ands
    /\ EPipe!producer_close
    /\ UNCHANGED <<net, recv_base, got>>

ReceiverNotify == EPipe!NotifyFull /\ UNCHANGED <<net, recv_base, got>>

Receiver ==
    /\ ReceiverSlot \/ RecvRow \/ ReceiverPublish \/ ReceiverClose \/ ReceiverNotify
    /\ UNCHANGED <<run, gvars, evaluated, loc, estage>>
-------------------------------------------------------------------------------
(* The evaluator's compute thread; cur is the slot it holds, if any.       *)

ecur == eslots[ecidx]

(* and_gate at a chunk boundary: release the chunk that is used up.        *)
EvaluatorRelease ==
    /\ estage = "run" /\ evaluated < num_ands
    /\ loc = ecur.n
    /\ EPipe!consumer_release
    /\ UNCHANGED <<evaluated, loc, estage>>

(* Bug: loc is not reset for the new chunk.                                *)
EvaluatorSlotKeepsLoc ==
    /\ estage = "run" /\ evaluated < num_ands
    /\ EPipe!consumer_slot
    /\ UNCHANGED <<evaluated, loc, estage>>

EvaluatorSlot ==
    /\ estage = "run" /\ evaluated < num_ands
    /\ EPipe!consumer_slot
    /\ loc' = 0
    /\ UNCHANGED <<evaluated, estage>>

(* The rest of and_gate: it uses row loc of cur.                           *)
EvaluateAnd ==
    /\ estage = "run" /\ evaluated < num_ands
    /\ ecpos = "hold" /\ loc < ecur.n
    /\ evaluated' = evaluated + 1 /\ loc' = loc + 1
    /\ UNCHANGED <<epipe, estage>>

EvaluatorNotify == EPipe!NotifyFree /\ UNCHANGED <<evaluated, loc, estage>>

(* end: if (cur != nullptr) pipe.consumer_release().                       *)
EvaluatorEnd ==
    /\ estage \in {"run", "thrown"} /\ ecpos \in {"out", "hold"}
    /\ estage = "run" => evaluated = num_ands
    /\ estage' = "joining"
    /\ IF ecpos = "hold" THEN EPipe!consumer_release ELSE UNCHANGED epipe
    /\ UNCHANGED <<evaluated, loc>>

(* recv_fut.get().                                                         *)
EvaluatorJoin ==
    /\ estage = "joining" /\ ecpos = "out" /\ eppos = "done"
    /\ estage' = "done"
    /\ UNCHANGED <<epipe, evaluated, loc>>

Evaluator ==
    /\ \/ EvaluatorRelease \/ EvaluatorSlot \/ EvaluateAnd \/ EvaluatorNotify
       \/ EvaluatorEnd \/ EvaluatorJoin
    /\ UNCHANGED <<run, net, gvars, recv_base, got>>

(* source(pass) throws between two gates, with or without a chunk in hand. *)
EvaluatorThrow ==
    /\ faulty = "evaluator"
    /\ estage = "run" /\ evaluated < num_ands
    /\ IF ecpos = "hold" THEN 0 < loc ELSE evaluated = 0 /\ ecpos = "out"
    /\ estage' = "thrown"
    /\ UNCHANGED <<run, net, gvars, epipe, recv_base, got, evaluated, loc>>
-------------------------------------------------------------------------------
Wakeups ==
    /\ \/ GPipe!SpuriousWakeup /\ UNCHANGED epipe
       \/ EPipe!SpuriousWakeup /\ UNCHANGED gpipe
    /\ UNCHANGED <<run, net, garbled, gready, gstage, sent,
                   recv_base, got, evaluated, loc, estage>>

(* Both passes are over, or the garbler left and its peer waits for rows   *)
(* that will not come (until the connection breaks).                       *)
Ended ==
    /\ gstage = "done"
    /\ estage = "done" \/ garbled < num_ands
    /\ UNCHANGED vars

Next ==
    \/ Garbler \/ Sender \/ Receiver \/ Evaluator
    \/ GarblerThrow \/ EvaluatorThrow
    \/ Wakeups \/ Ended

(* The four threads keep running; throwing and waking up are no duty.      *)
Fairness ==
    WF_vars(Garbler) /\ WF_vars(Sender) /\ WF_vars(Receiver) /\ WF_vars(Evaluator)

Spec == Init /\ [][Next]_vars /\ Fairness
-------------------------------------------------------------------------------
(* The evaluator derives the label of AND gate k from the ciphertexts and  *)
(* the permutation bit the garbler made for gate k, although chunks are    *)
(* cut and cached independently at the two ends (pass_ctx.h: cur->G[2*loc],*)
(* cur->b[loc]) and the bytes on the connection carry no index.            *)
RowsAligned ==
    estage = "run" /\ ecpos = "hold" /\ loc < ecur.n =>
        /\ ecur.G[loc + 1] = <<"G", evaluated + 1>>
        /\ ecur.b[loc + 1] = <<"b", evaluated + 1>>

(* and_gate never dereferences the null slot consumer_slot returns at the  *)
(* end of the stream: there is a chunk for every AND gate left.            *)
NoNullChunk == ecpos # "eof"

(* Unless a body throws, both passes end, however small the pipes and the  *)
(* connection.                                                             *)
BothPassesEnd ==
    <>(gstage = "thrown" \/ estage = "thrown" \/ (gstage = "done" /\ estage = "done"))

(* run_pass: if the garbler's source throws, end() closes the pipe and the *)
(* sender is joined.                                                       *)
GarblerThrowJoins == gstage = "thrown" ~> gstage = "done"

(* A throwing evaluator is joined too if the chunks of the run fit the     *)
(* ring: end() takes nothing more out of the pipe (pass_ctx.h:370), but    *)
(* the receiver needs no more room than there is.                          *)
ShortThrowJoins ==
    num_ands <= Depth * KBatch => (estage = "thrown" ~> estage = "done")

(* run_pass, of the other side: if the evaluator's source throws, the      *)
(* receiver is joined rather than left live, however long the run.         *)
EvaluatorThrowJoins == estage = "thrown" ~> estage = "done"
===============================================================================
