-------------------------- MODULE AG2PCSession_proofs --------------------------
(***************************************************************************)
(* Proofs about the session, for every number of ids, every set of stored  *)
(* programs and every bound on calls.  First the recorder and the          *)
(* bookkeeping of ids (SInv), which rest on nothing the engine computes;   *)
(* then, with it, what the carried wires hold (WInv); last, what           *)
(* PlanReference says of the plans.                                        *)
(***************************************************************************)
EXTENDS AG2PCSession, PlanReference, Engine_proofs

(* Every id the session knows of was handed out by the recorder.           *)
AllocInv ==
    /\ batch \in [phase : {"none", "open", "finished"},
                  adds  : Seq([owner : Parties \cup {BadParty}, id : Nat])]
    /\ DOMAIN carried \subseteq Ids
    /\ Reserved \subseteq Ids

(* The inductive invariant.                                                *)
SInv == CtxInv /\ AllocInv /\ IdsPartitioned

(* The body of StaleForever.                                               *)
NoRevival ==
    status' = "open" =>
      /\ next_id <= next_id'
      /\ \A id \in Ids : id \notin Usable => id \notin Usable'
-------------------------------------------------------------------------------
(* record_ on allocated operands keeps the chunk and pending_ in step and  *)
(* the chunk in order.                                                     *)
LEMMA RecordKeepsChunk ==
    ASSUME CtxTypeOK, PendingIsChunk, ChunkOrdered, CanAlloc(1), MaxId \in Nat,
           NEW a \in Nat, NEW b \in Nat, NEW op \in Op,
           NEW g, g = [in0 |-> a, in1 |-> b, out |-> next_id, op |-> op],
           \A w \in Reads(g) : w < next_id,
           record_(a, b, op)
    PROVE  /\ next_id' \in 0 .. MaxId /\ chunk_gates' \in Seq(Gate)
           /\ pending' \subseteq 0 .. (next_id' - 1)
           /\ PendingIsChunk' /\ ChunkOrdered'
<1>1. next_id \in Nat /\ next_id + 1 \in 0 .. MaxId /\ g \in Gate /\ chunk_gates \in Seq(Gate)
  BY DEF CtxTypeOK, CanAlloc, Gate
<1>2. /\ chunk_gates' = Append(chunk_gates, g)
      /\ pending' = pending \cup {next_id} /\ next_id' = next_id + 1
  BY DEF record_
<1>3. /\ chunk_gates' \in Seq(Gate) /\ Len(chunk_gates') = Len(chunk_gates) + 1
      /\ DOMAIN chunk_gates = 1 .. Len(chunk_gates)
      /\ DOMAIN chunk_gates' = 1 .. Len(chunk_gates')
      /\ \A i \in DOMAIN chunk_gates : chunk_gates'[i] = chunk_gates[i]
      /\ chunk_gates'[Len(chunk_gates')] = g
      /\ Len(chunk_gates) \in Nat
  BY <1>1, <1>2
<1>4. \A i \in DOMAIN chunk_gates : chunk_gates[i].out < next_id
  <2>1. \A i \in DOMAIN chunk_gates : chunk_gates[i].out \in pending
    BY DEF PendingIsChunk
  <2>2. \A id \in pending : id < next_id
    BY <1>1 DEF CtxTypeOK
  <2> QED
    BY <2>1, <2>2
<1>5. g.out = next_id
  OBVIOUS
<1>6. PendingIsChunk'
  BY <1>2, <1>3, <1>5 DEF PendingIsChunk
<1>7. ChunkOrdered'
  BY <1>2, <1>3, <1>4, <1>5 DEF ChunkOrdered
<1>8. pending' \subseteq 0 .. (next_id' - 1)
  BY <1>1, <1>2 DEF CtxTypeOK
<1> QED
  BY <1>1, <1>2, <1>3, <1>6, <1>7, <1>8

(* The operation public_bit records is one of the two constants.           *)
LEMMA ConstOps == \A v \in BOOLEAN : ConstOp(v) \in {"Const0", "Const1"} /\ ConstOp(v) \in Op
BY DEF ConstOp, Op

(* AND, XOR and NOT calls, and a constant recorded for the first time.     *)
LEMMA GateKeepsCtx ==
    ASSUME CtxInv, NEW a \in Nat, NEW b \in Nat, NEW op \in {"And", "Xor"},
           Gate2(a, b, op)
    PROVE  CtxInv'
<1> DEFINE g == [in0 |-> a, in1 |-> b, out |-> next_id, op |-> op]
<1>1. Reads(g) = {a, b} /\ op \in Op
  BY DEF Reads, IsConst, IsNot, Op
<1>2. \A w \in Reads(g) : w < next_id
  BY <1>1 DEF Gate2, require_allocated_
<1>3. /\ next_id' \in 0 .. MaxId /\ chunk_gates' \in Seq(Gate)
      /\ pending' \subseteq 0 .. (next_id' - 1)
      /\ PendingIsChunk' /\ ChunkOrdered'
  BY <1>1, <1>2, RecordKeepsChunk, MaxIdAssumption DEF CtxInv, Gate2
<1>4. ConstCached'
  <2>1. /\ chunk_gates' = Append(chunk_gates, g) /\ chunk_gates \in Seq(Gate)
        /\ pending' = pending \cup {next_id} /\ const_wire' = const_wire
    BY DEF Gate2, record_, CtxInv, CtxTypeOK
  <2>2. \A v \in BOOLEAN : const_wire[v] # next_id
    BY DEF CtxInv, CtxTypeOK, ConstCached, NoWire
  <2>3. \A v \in BOOLEAN : ConstOp(v) # op
    BY DEF ConstOp
  <2> QED
    BY <2>1, <2>2, <2>3 DEF ConstCached, CtxInv
<1> QED
  BY <1>3, <1>4 DEF CtxInv, CtxTypeOK, Gate2

(* A NOT call preserves the recorder's invariant.                          *)
LEMMA NotKeepsCtx ==
    ASSUME CtxInv, NEW a \in Nat, not_gate(a)
    PROVE  CtxInv'
<1> DEFINE g == [in0 |-> a, in1 |-> 0, out |-> next_id, op |-> "Not"]
<1>1. Reads(g) = {a} /\ "Not" \in Op
  BY DEF Reads, IsConst, IsNot, Op
<1>2. \A w \in Reads(g) : w < next_id
  BY <1>1 DEF not_gate, require_allocated_
<1>3. /\ next_id' \in 0 .. MaxId /\ chunk_gates' \in Seq(Gate)
      /\ pending' \subseteq 0 .. (next_id' - 1)
      /\ PendingIsChunk' /\ ChunkOrdered'
  BY <1>1, <1>2, RecordKeepsChunk, MaxIdAssumption DEF CtxInv, not_gate
<1>4. ConstCached'
  <2>1. /\ chunk_gates' = Append(chunk_gates, g) /\ chunk_gates \in Seq(Gate)
        /\ pending' = pending \cup {next_id} /\ const_wire' = const_wire
    BY DEF not_gate, record_, CtxInv, CtxTypeOK
  <2>2. \A v \in BOOLEAN : const_wire[v] # next_id
    BY DEF CtxInv, CtxTypeOK, ConstCached, NoWire
  <2>3. \A v \in BOOLEAN : ConstOp(v) # "Not"
    BY DEF ConstOp
  <2> QED
    BY <2>1, <2>2, <2>3 DEF ConstCached, CtxInv
<1> QED
  BY <1>3, <1>4 DEF CtxInv, CtxTypeOK, not_gate

(* public_bit, when the constant is not cached, preserves it: the new gate *)
(* is the only one of its kind in the chunk and the cache points at it.    *)
LEMMA ConstKeepsCtx ==
    ASSUME CtxInv, NEW v \in BOOLEAN, public_bit(v)
    PROVE  CtxInv'
<1> DEFINE g == [in0 |-> 0, in1 |-> 0, out |-> next_id, op |-> ConstOp(v)]
<1>1. Reads(g) = {} /\ ConstOp(v) \in Op
  BY ConstOps DEF Reads, IsConst
<1>2. /\ next_id' \in 0 .. MaxId /\ chunk_gates' \in Seq(Gate)
      /\ pending' \subseteq 0 .. (next_id' - 1)
      /\ PendingIsChunk' /\ ChunkOrdered'
  BY <1>1, RecordKeepsChunk, MaxIdAssumption DEF CtxInv, public_bit
<1>3. /\ chunk_gates' = Append(chunk_gates, g) /\ chunk_gates \in Seq(Gate)
      /\ pending' = pending \cup {next_id} /\ next_id \in Nat
      /\ const_wire \in [BOOLEAN -> Nat \cup {NoWire}] /\ const_wire[v] = NoWire
      /\ const_wire' = [const_wire EXCEPT ![v] = next_id]
  BY DEF public_bit, record_, CtxInv, CtxTypeOK
<1>4. ConstCached'
  <2> SUFFICES ASSUME NEW u \in BOOLEAN
               PROVE  /\ const_wire'[u] # NoWire => const_wire'[u] \in pending'
                      /\ \A i \in DOMAIN chunk_gates' :
                           chunk_gates'[i].op = ConstOp(u) <=> chunk_gates'[i].out = const_wire'[u]
    BY DEF ConstCached
  <2>1. \A i \in DOMAIN chunk_gates : chunk_gates[i].out \in Nat /\ chunk_gates[i].out # next_id
    BY DEF CtxInv, CtxTypeOK, PendingIsChunk
  <2>2. /\ const_wire[u] # NoWire => const_wire[u] \in pending
        /\ \A i \in DOMAIN chunk_gates :
             chunk_gates[i].op = ConstOp(u) <=> chunk_gates[i].out = const_wire[u]
    BY DEF CtxInv, ConstCached
  <2>3. CASE u = v
    BY <1>3, <2>1, <2>2, <2>3 DEF NoWire
  <2>4. CASE u # v
    <3>1. const_wire'[u] = const_wire[u] /\ ConstOp(u) # ConstOp(v)
      BY <1>3, <2>4 DEF ConstOp
    <3>2. const_wire[u] # next_id
      BY <1>3, <2>2 DEF CtxInv, CtxTypeOK, NoWire
    <3> QED
      BY <1>3, <2>2, <3>1, <3>2
  <2> QED
    BY <2>3, <2>4
<1>5. const_wire' \in [BOOLEAN -> Nat \cup {NoWire}]
  BY <1>3
<1> QED
  BY <1>2, <1>4, <1>5 DEF CtxInv, CtxTypeOK

(* An empty chunk, as drop_chunk and the end of the process leave it.      *)
LEMMA EmptyChunkCtx ==
    ASSUME next_id' \in 0 .. MaxId, chunk_gates' = <<>>, pending' = {},
           const_wire' = [v \in BOOLEAN |-> NoWire]
    PROVE  CtxInv'
<1>1. CtxTypeOK'
  BY DEF CtxTypeOK, NoWire
<1>2. PendingIsChunk' /\ ChunkOrdered' /\ ConstCached'
  BY DEF PendingIsChunk, ChunkOrdered, ConstCached
<1> QED
  BY <1>1, <1>2 DEF CtxInv

(* reserve_ids preserves it: the ids it skips belong to no chunk.          *)
LEMMA ReserveKeepsCtx ==
    ASSUME CtxInv, NEW n \in Nat, reserve_ids(n)
    PROVE  CtxInv' /\ next_id' = next_id + n
<1>1. next_id' \in 0 .. MaxId /\ next_id' = next_id + n /\ pending' \subseteq 0 .. (next_id' - 1)
  BY MaxIdAssumption DEF CtxInv, CtxTypeOK, reserve_ids, CanAlloc
<1>2. CtxTypeOK'
  BY <1>1 DEF CtxInv, CtxTypeOK, reserve_ids
<1>3. PendingIsChunk' /\ ChunkOrdered' /\ ConstCached'
  BY DEF CtxInv, PendingIsChunk, ChunkOrdered, ConstCached, reserve_ids
<1> QED
  BY <1>1, <1>2, <1>3 DEF CtxInv
-------------------------------------------------------------------------------
(* Each kind of step keeps the invariant and revives no id.                *)

(* The end of the process, or of the session object.                       *)
LEMMA GoneStep ==
    ASSUME CtxGone, SessionGone, status' # "open"
    PROVE  SInv' /\ NoRevival
<1>1. CtxInv'
  BY EmptyChunkCtx, MaxIdAssumption DEF CtxGone
<1>2. batch' = [phase |-> "none", adds |-> <<>>] /\ DOMAIN carried' = {} /\ pending' = {}
  BY DEF SessionGone, CtxGone, NoBatch
<1>3. Reserved' = {}
  BY <1>2 DEF Reserved
<1>4. AllocInv' /\ IdsPartitioned'
  BY <1>2, <1>3 DEF AllocInv, IdsPartitioned
<1> QED
  BY <1>1, <1>4 DEF SInv, NoRevival

(* A recorded gate: one fresh pending id.                                  *)
LEMMA RecordStep ==
    ASSUME SInv, CtxInv', UNCHANGED <<carried, batch>>,
           next_id' = next_id + 1, pending' = pending \cup {next_id}
    PROVE  SInv' /\ NoRevival
<1>1. Reserved' = Reserved
  BY DEF Reserved
<1>2. next_id \in Nat /\ DOMAIN carried \subseteq Ids /\ Reserved \subseteq Ids
  BY DEF SInv, AllocInv, CtxInv, CtxTypeOK
<1>3. AllocInv'
  BY <1>1, <1>2 DEF SInv, AllocInv, Ids
<1>4. IdsPartitioned'
  BY <1>1, <1>2 DEF SInv, IdsPartitioned, Ids
<1>5. NoRevival
  BY <1>1, <1>2 DEF NoRevival, Usable, Ids
<1> QED
  BY <1>3, <1>4, <1>5 DEF SInv

(* n fresh ids that are materialized at once (input, run).                 *)
LEMMA MaterializeStep ==
    ASSUME SInv, NEW n \in Nat, reserve_ids(n), UNCHANGED batch,
           DOMAIN carried' = DOMAIN carried \cup (next_id .. (next_id + n - 1))
    PROVE  SInv' /\ NoRevival
<1>1. Reserved' = Reserved /\ pending' = pending
  BY DEF Reserved, reserve_ids
<1>2. CtxInv' /\ next_id' = next_id + n
  BY ReserveKeepsCtx DEF SInv
<1>3. /\ next_id \in Nat /\ DOMAIN carried \subseteq Ids /\ Reserved \subseteq Ids
      /\ pending \subseteq Ids
  BY DEF SInv, AllocInv, CtxInv, CtxTypeOK, Ids
<1>4. AllocInv'
  BY <1>1, <1>2, <1>3 DEF SInv, AllocInv, Ids
<1>5. IdsPartitioned'
  BY <1>1, <1>3 DEF SInv, IdsPartitioned, Ids
<1>6. NoRevival
  BY <1>1, <1>2, <1>3 DEF NoRevival, Usable, Ids
<1> QED
  BY <1>2, <1>4, <1>5, <1>6 DEF SInv

(* The end of a flush: the chunk is gone, pending ids are kept or stale.   *)
LEMMA FlushStep ==
    ASSUME SInv, NEW f, NEW kept, FlushDone(f, kept),
           kept \subseteq DOMAIN carried \cup pending
    PROVE  SInv' /\ NoRevival
<1>1. /\ Reserved' = Reserved /\ pending' = {} /\ DOMAIN carried' = kept
      /\ next_id' = next_id /\ batch' = batch
  BY DEF FlushDone, drop_chunk, Reserved
<1>2. CtxInv'
  BY EmptyChunkCtx DEF SInv, CtxInv, CtxTypeOK, FlushDone, drop_chunk
<1>3. pending \subseteq Ids /\ next_id \in Nat
  BY DEF SInv, CtxInv, CtxTypeOK, Ids
<1>4. AllocInv'
  BY <1>1, <1>3 DEF SInv, AllocInv, Ids
<1>5. IdsPartitioned'
  BY <1>1 DEF SInv, IdsPartitioned
<1>6. NoRevival
  BY <1>1, <1>3 DEF NoRevival, Usable, Ids
<1> QED
  BY <1>2, <1>4, <1>5, <1>6 DEF SInv

(* What flush_ hands back, whatever was planned and run.                   *)
LEMMA FlushShape ==
    ASSUME NEW keep
    PROVE  /\ flush_(keep).err \in {"", "stale keep", "stale operand", "plan not canonical"}
           /\ DOMAIN flush_(keep).carried \subseteq DOMAIN carried \cup pending
<1>1. \A e : Untouched(e).err = e /\ Untouched(e).carried = carried
  BY DEF Untouched
<1>2. ASSUME NEW ids, NEW run
      PROVE  /\ FlushRun(keep, ids, run).err \in {"", "plan not canonical"}
             /\ DOMAIN FlushRun(keep, ids, run).carried \subseteq DOMAIN carried \cup pending
  BY <1>1 DEF FlushRun, Extend
<1>3. ASSUME NEW plan
      PROVE  /\ FlushPlanned(keep, plan).err \in {"", "stale operand", "plan not canonical"}
             /\ DOMAIN FlushPlanned(keep, plan).carried \subseteq DOMAIN carried \cup pending
  BY <1>1, <1>2 DEF FlushPlanned
<1> QED
  BY <1>1, <1>3 DEF flush_

(* The adds of a batch reserve ids; finish materializes exactly those.     *)
LEMMA BatchStep ==
    ASSUME SInv, NEW owner \in Parties \cup {BadParty},
           InputBatch \/ BatchAdd(owner) \/ BatchFinish
    PROVE  SInv' /\ NoRevival
<1> USE DEF NoBatch
<1>1. /\ next_id \in Nat /\ pending \subseteq Ids
      /\ DOMAIN carried \subseteq Ids /\ Reserved \subseteq Ids
      /\ batch \in [phase : {"none", "open", "finished"},
                    adds  : Seq([owner : Parties \cup {BadParty}, id : Nat])]
  BY DEF SInv, AllocInv, CtxInv, CtxTypeOK, Ids
<1>2. CASE InputBatch
  <2>1. /\ batch' = [phase |-> "open", adds |-> <<>>]
        /\ UNCHANGED <<next_id, chunk_gates, pending, const_wire, carried>>
    BY <1>2 DEF InputBatch, ctxVars
  <2>2. Reserved' = {}
    BY <2>1 DEF Reserved
  <2>3. CtxInv'
    BY <2>1 DEF SInv, CtxInv, CtxTypeOK, PendingIsChunk, ChunkOrdered, ConstCached
  <2>4. AllocInv' /\ IdsPartitioned' /\ NoRevival
    BY <1>1, <2>1, <2>2 DEF SInv, AllocInv, IdsPartitioned, NoRevival, Usable, Ids
  <2> QED
    BY <2>3, <2>4 DEF SInv
<1>3. CASE BatchAdd(owner)
  <2>1. CASE \E why \in {"add after finish", "wire id overflow"} : Abort(why)
    BY <2>1, GoneStep DEF Abort, Fail
  <2>2. CASE /\ batch.phase = "open" /\ reserve_ids(1) /\ UNCHANGED carried
             /\ batch' = [batch EXCEPT !.adds = Append(@, [owner |-> owner, id |-> next_id])]
    <3> DEFINE add == [owner |-> owner, id |-> next_id]
    <3>1. CtxInv' /\ next_id' = next_id + 1 /\ pending' = pending
      BY <2>2, ReserveKeepsCtx DEF SInv, reserve_ids
    <3>2. /\ add \in [owner : Parties \cup {BadParty}, id : Nat]
          /\ Append(batch.adds, add) \in Seq([owner : Parties \cup {BadParty}, id : Nat])
          /\ DOMAIN Append(batch.adds, add) = DOMAIN batch.adds \cup {Len(batch.adds) + 1}
          /\ \A i \in DOMAIN batch.adds : Append(batch.adds, add)[i] = batch.adds[i]
          /\ Append(batch.adds, add)[Len(batch.adds) + 1] = add
      BY <1>1
    <3>3. /\ batch'.phase = "open" /\ batch'.adds = Append(batch.adds, add)
          /\ batch' \in [phase : {"none", "open", "finished"},
                         adds  : Seq([owner : Parties \cup {BadParty}, id : Nat])]
      BY <1>1, <2>2, <3>2
    <3>4. add.id = next_id
      OBVIOUS
    <3> HIDE DEF add
    <3>5. Reserved' = Reserved \cup {next_id}
      <4>1. Reserved = {batch.adds[i].id : i \in DOMAIN batch.adds}
        BY <2>2 DEF Reserved
      <4>2. Reserved' = {Append(batch.adds, add)[i].id : i \in DOMAIN Append(batch.adds, add)}
        BY <3>3 DEF Reserved
      <4> QED
        BY <3>2, <3>4, <4>1, <4>2
    <3>6. AllocInv'
      BY <1>1, <2>2, <3>1, <3>3, <3>5 DEF AllocInv, Ids
    <3>7. IdsPartitioned'
      BY <1>1, <2>2, <3>1, <3>5 DEF SInv, IdsPartitioned, Ids
    <3>8. NoRevival
      BY <1>1, <2>2, <3>1, <3>5 DEF NoRevival, Usable, Ids
    <3> QED
      BY <3>1, <3>6, <3>7, <3>8 DEF SInv
  <2> QED
    BY <1>1, <1>3, <2>1, <2>2 DEF BatchAdd
<1>4. CASE BatchFinish
  <2>1. CASE \E why \in {"finish twice", "batch owner"} : Abort(why)
    BY <2>1, GoneStep DEF Abort, Fail
  <2>2. CASE /\ batch.phase = "open"
             /\ DOMAIN carried' = DOMAIN carried \cup Reserved
             /\ batch' = [batch EXCEPT !.phase = "finished"]
             /\ UNCHANGED <<next_id, chunk_gates, pending, const_wire>>
    <3>1. /\ batch'.phase = "finished"
          /\ batch' \in [phase : {"none", "open", "finished"},
                         adds  : Seq([owner : Parties \cup {BadParty}, id : Nat])]
      BY <1>1, <2>2
    <3>2. Reserved' = {}
      BY <3>1 DEF Reserved
    <3>3. CtxInv'
      BY <2>2 DEF SInv, CtxInv, CtxTypeOK, PendingIsChunk, ChunkOrdered, ConstCached
    <3>4. AllocInv'
      BY <1>1, <2>2, <3>1, <3>2 DEF AllocInv, Ids
    <3>5. IdsPartitioned'
      BY <2>2, <3>2 DEF SInv, IdsPartitioned
    <3>6. NoRevival
      BY <1>1, <2>2, <3>2 DEF NoRevival, Usable, Ids
    <3> QED
      BY <3>3, <3>4, <3>5, <3>6 DEF SInv
  <2> QED
    BY <1>1, <1>4, <2>1, <2>2 DEF BatchFinish, Extend, ctxVars
<1> QED
  BY <1>2, <1>3, <1>4

(* reveal and checkpoint.                                                  *)
LEMMA RevealStep ==
    ASSUME SInv, NEW v, NEW keep, Reveal(v, keep)
    PROVE  SInv' /\ NoRevival
<1> DEFINE f == flush_(<<v>> \o keep)
<1>1. /\ f.err \in {"", "stale keep", "stale operand", "plan not canonical"}
      /\ DOMAIN f.carried \subseteq DOMAIN carried \cup pending
  BY FlushShape
<1> HIDE DEF f
<1>2. CASE \E why \in {"reveal recipient", "gather", "stale keep", "stale operand",
                       "plan not canonical", "c_gamma"} : Abort(why)
  BY <1>2, GoneStep DEF Abort, Fail
<1>3. CASE FlushDone(f, DOMAIN f.carried)
  BY <1>1, <1>3, FlushStep
<1>4. Abort("reveal recipient") \/ RevealAfter(f, v)
  BY DEF Reveal, f
<1> QED
  BY <1>1, <1>2, <1>3, <1>4 DEF RevealAfter, FlushFails

(* checkpoint: a flush, then carried_ pruned to the keep list.             *)
LEMMA CheckpointStep ==
    ASSUME SInv, NEW keep, Checkpoint(keep)
    PROVE  SInv' /\ NoRevival
<1> DEFINE f == flush_(keep)
<1>1. /\ f.err \in {"", "stale keep", "stale operand", "plan not canonical"}
      /\ DOMAIN f.carried \subseteq DOMAIN carried \cup pending
  BY FlushShape
<1> HIDE DEF f
<1>2. CASE \E why \in {"stale keep", "stale operand", "plan not canonical", "c_gamma"} :
             Abort(why)
  BY <1>2, GoneStep DEF Abort, Fail
<1>3. CASE FlushDone(f, DOMAIN f.carried \cap ToSet(keep))
  <2>1. DOMAIN f.carried \cap ToSet(keep) \subseteq DOMAIN carried \cup pending
    BY <1>1
  <2> QED
    BY <1>3, <2>1, FlushStep
<1>4. CheckpointAfter(f, keep)
  BY DEF Checkpoint, f
<1> QED
  BY <1>1, <1>2, <1>3, <1>4 DEF CheckpointAfter, FlushFails

(* An eager input materializes one fresh id.                               *)
LEMMA InputStep ==
    ASSUME SInv, NEW owner, Input(owner)
    PROVE  SInv' /\ NoRevival
<1>1. CASE \E why \in {"input owner", "wire id overflow"} : Abort(why)
  BY <1>1, GoneStep DEF Abort, Fail
<1>2. CASE /\ reserve_ids(1) /\ UNCHANGED batch
           /\ DOMAIN carried' = DOMAIN carried \cup {next_id}
  <2>1. {next_id} = next_id .. (next_id + 1 - 1)
    BY DEF SInv, CtxInv, CtxTypeOK
  <2> QED
    BY <1>2, <2>1, MaterializeStep
<1> QED
  BY <1>1, <1>2 DEF Input, Extend

(* run of a stored program materializes fresh ids for its outputs.         *)
LEMMA RunStep ==
    ASSUME SInv, NEW prog \in Programs, NEW args, RunProgram(prog, args)
    PROVE  SInv' /\ NoRevival
<1>1. CASE \E why \in {"unflushed argument", "argument width", "result width",
                       "not canonical", "c_gamma", "wire id overflow"} : Abort(why)
  BY <1>1, GoneStep DEF Abort, Fail
<1>2. Len(prog.outputs) \in Nat
  BY SessionAssumption DEF BooleanProgram
<1>3. ASSUME NEW run, NEW clear, RunAfter(run, prog, clear)
      PROVE  SInv' /\ NoRevival
  <2>1. CASE /\ reserve_ids(Len(prog.outputs)) /\ UNCHANGED batch
             /\ DOMAIN carried' =
                  DOMAIN carried \cup (next_id .. (next_id + Len(prog.outputs) - 1))
    BY <1>2, <2>1, MaterializeStep
  <2> QED
    BY <1>1, <1>3, <2>1 DEF RunAfter, Extend
<1> QED
  BY <1>1, <1>3 DEF RunProgram

(* A gate call makes one fresh id pending and leaves carried_ alone.       *)
LEMMA GateStep ==
    ASSUME SInv,
           \/ \E a, b \in Ids : AndGate(a, b) \/ XorGate(a, b)
           \/ \E a \in Ids : NotGate(a)
           \/ \E v \in BOOLEAN : PublicBit(v)
    PROVE  SInv' /\ NoRevival
<1>1. Ids \subseteq Nat
  BY DEF SInv, CtxInv, CtxTypeOK, Ids
<1>2. ASSUME NEW a \in Ids, NEW b \in Ids, AndGate(a, b) \/ XorGate(a, b)
      PROVE  SInv' /\ NoRevival
  <2>1. PICK op \in {"And", "Xor"} : Gate2(a, b, op) /\ UNCHANGED <<carried, batch>>
    BY <1>2 DEF AndGate, XorGate, and_gate, xor_gate, RecorderFrame
  <2>2. CtxInv'
    BY <1>1, <2>1, GateKeepsCtx DEF SInv
  <2> QED
    BY <2>1, <2>2, RecordStep DEF Gate2, record_
<1>3. ASSUME NEW a \in Ids, NotGate(a) PROVE SInv' /\ NoRevival
  <2>1. CtxInv'
    BY <1>1, <1>3, NotKeepsCtx DEF SInv, NotGate
  <2> QED
    BY <1>3, <2>1, RecordStep DEF NotGate, not_gate, record_, RecorderFrame
<1>4. ASSUME NEW v \in BOOLEAN, PublicBit(v) PROVE SInv' /\ NoRevival
  <2>1. CtxInv'
    BY <1>4, ConstKeepsCtx DEF SInv, PublicBit
  <2> QED
    BY <1>4, <2>1, RecordStep DEF PublicBit, public_bit, record_, RecorderFrame
<1> QED
  BY <1>2, <1>3, <1>4
-------------------------------------------------------------------------------
(* A new session has no ids at all.                                        *)
LEMMA InitSInv == Init => SInv
<1> SUFFICES ASSUME Init PROVE SInv
  OBVIOUS
<1>1. /\ next_id = 0 /\ chunk_gates = <<>> /\ pending = {}
      /\ const_wire = [v \in BOOLEAN |-> NoWire]
      /\ batch = [phase |-> "none", adds |-> <<>>] /\ DOMAIN carried = {}
  BY DEF Init, CtxInit, NoBatch
<1>2. CtxTypeOK
  BY <1>1, MaxIdAssumption DEF CtxTypeOK, NoWire
<1>3. PendingIsChunk /\ ChunkOrdered /\ ConstCached
  BY <1>1 DEF PendingIsChunk, ChunkOrdered, ConstCached
<1>4. AllocInv /\ IdsPartitioned
  BY <1>1 DEF AllocInv, IdsPartitioned, Reserved
<1> QED
  BY <1>2, <1>3, <1>4 DEF SInv, CtxInv

(* A step that changes nothing preserves the invariant.                    *)
LEMMA StutterSInv ==
    ASSUME SInv, UNCHANGED vars
    PROVE  SInv' /\ NoRevival
<1>1. UNCHANGED <<next_id, chunk_gates, pending, const_wire, status, carried, batch>>
  BY DEF vars, ctxVars, sessVars
<1>2. CtxInv'
  BY <1>1 DEF SInv, CtxInv, CtxTypeOK, PendingIsChunk, ChunkOrdered, ConstCached
<1>3. Reserved' = Reserved /\ Ids' = Ids /\ Usable' = Usable
  BY <1>1 DEF Reserved, Ids, Usable
<1>4. AllocInv' /\ IdsPartitioned'
  BY <1>1, <1>3 DEF SInv, AllocInv, IdsPartitioned
<1>5. NoRevival
  BY <1>1, <1>3 DEF SInv, CtxInv, CtxTypeOK, NoRevival
<1> QED
  BY <1>2, <1>4, <1>5 DEF SInv

(* Every call of the session preserves the invariant and revives no id:    *)
(* one step per kind of call.                                              *)
LEMMA StepSInv ==
    ASSUME SInv, Next
    PROVE  SInv' /\ NoRevival
<1>1. CASE status = "open" /\ Call
  <2>1. CASE \/ \E a, b \in Ids : AndGate(a, b)
             \/ \E a, b \in Ids : XorGate(a, b)
             \/ \E a \in Ids : NotGate(a)
             \/ \E v \in BOOLEAN : PublicBit(v)
    BY <2>1, GateStep
  <2>2. CASE RecorderError /\ SessionGone
    BY <2>2, GoneStep DEF RecorderError, Fail
  <2>3. CASE \E owner \in Parties \cup {BadParty} : Input(owner)
    BY <2>3, InputStep
  <2>4. CASE \/ InputBatch
             \/ \E owner \in Parties \cup {BadParty} : BatchAdd(owner)
             \/ BatchFinish
    BY <2>4, BatchStep
  <2>5. CASE \E v \in Ids, keep \in KeepLists : Reveal(v, keep)
    BY <2>5, RevealStep
  <2>6. CASE \E keep \in KeepLists : Checkpoint(keep)
    BY <2>6, CheckpointStep
  <2>7. CASE \E prog \in Programs, args \in SeqOf(Ids, MaxArgs) : RunProgram(prog, args)
    BY <2>7, RunStep
  <2>8. CASE Close
    BY <2>8, GoneStep DEF Close
  <2> QED
    BY <1>1, <2>1, <2>2, <2>3, <2>4, <2>5, <2>6, <2>7, <2>8 DEF Call
<1>2. CASE Ended
  BY <1>2, StutterSInv DEF Ended
<1> QED
  BY <1>1, <1>2 DEF Next

(* The invariant holds throughout every session.                           *)
LEMMA SInvAlways == Spec => []SInv
<1>1. SInv /\ [Next]_vars => SInv'
  BY StepSInv, StutterSInv
<1> QED
  BY <1>1, InitSInv, PTL DEF Spec
-------------------------------------------------------------------------------
(* The recorder's chunk, pending set and constant cache agree in every     *)
(* session, for any number of ids: what plan_flush relies on.              *)
THEOREM ChunkConsistent == Spec => []CtxInv
<1>1. SInv => CtxInv
  BY DEF SInv
<1> QED
  BY <1>1, SInvAlways, PTL

(* is_pending and carried_ never both claim an id, nor does an open batch. *)
THEOREM IdsNeverShared == Spec => []IdsPartitioned
<1>1. SInv => IdsPartitioned
  BY DEF SInv
<1> QED
  BY <1>1, SInvAlways, PTL

(* No call of the session ever makes a stale wire usable again, and ids    *)
(* are not handed out twice.                                               *)
THEOREM StaleStaysStale == Spec => StaleForever
<1>1. SInv /\ [Next]_vars => [NoRevival]_vars
  BY StepSInv
<1>2. [NoRevival]_vars <=> [status' = "open" =>
                              /\ next_id <= next_id'
                              /\ \A id \in Ids : id \notin Usable => id \notin Usable']_vars
  BY DEF NoRevival
<1> QED
  BY <1>1, <1>2, SInvAlways, PTL DEF Spec, StaleForever
-------------------------------------------------------------------------------
(* What holds of the carried wires c, the clear values t of their ids, and *)
(* the engine's counters: d shares drawn, k of them checked, m whether     *)
(* some are unchecked.  A share that is not checked is in one wire only,   *)
(* and alone there.                                                        *)
GoodWires(c, t, d, k, m) ==
    /\ d \in Nat /\ k \in 0 .. d /\ m \in BOOLEAN /\ (m <=> k # d)
    /\ \A id \in DOMAIN c :
         IsWire(c[id]) /\ c[id].share \subseteq 1 .. d /\ ValueAtBob(c[id]) = t[id]
    /\ \A id \in DOMAIN c : \A n \in c[id].share :
         n > k => /\ c[id].share = {n}
                  /\ \A other \in DOMAIN c \ {id} : n \notin c[other].share

(* Pruning the carried wires keeps them good.                              *)
LEMMA WiresRestricted ==
    ASSUME NEW c, NEW t, NEW d, NEW k, NEW m, GoodWires(c, t, d, k, m),
           NEW K, K \subseteq DOMAIN c, NEW t2, \A id \in K : t2[id] = t[id],
           NEW c2, c2 = [id \in K |-> c[id]]
    PROVE  GoodWires(c2, t2, d, k, m)
<1>1. DOMAIN c2 = K /\ \A id \in K : c2[id] = c[id] /\ id \in DOMAIN c
  OBVIOUS
<1>2. /\ d \in Nat /\ k \in 0 .. d /\ m \in BOOLEAN /\ (m <=> k # d)
      /\ \A id \in DOMAIN c :
           IsWire(c[id]) /\ c[id].share \subseteq 1 .. d /\ ValueAtBob(c[id]) = t[id]
      /\ \A id \in DOMAIN c : \A n \in c[id].share :
           n > k => /\ c[id].share = {n}
                    /\ \A other \in DOMAIN c \ {id} : n \notin c[other].share
  BY DEF GoodWires
<1>3. \A id \in DOMAIN c2 :
        IsWire(c2[id]) /\ c2[id].share \subseteq 1 .. d /\ ValueAtBob(c2[id]) = t2[id]
  BY <1>1, <1>2
<1>4. \A id \in DOMAIN c2 : \A n \in c2[id].share :
        n > k => /\ c2[id].share = {n}
                 /\ \A other \in DOMAIN c2 \ {id} : n \notin c2[other].share
  BY <1>1, <1>2
<1> QED
  BY <1>2, <1>3, <1>4 DEF GoodWires

(* A run of the engine leaves no share unchecked.                          *)
LEMMA WiresChecked ==
    ASSUME NEW c, NEW t, NEW d \in Nat,
           \A id \in DOMAIN c :
             IsWire(c[id]) /\ c[id].share \subseteq 1 .. d /\ ValueAtBob(c[id]) = t[id]
    PROVE  GoodWires(c, t, d, d, FALSE)
<1>1. \A id \in DOMAIN c : \A n \in c[id].share : ~(n > d)
  OBVIOUS
<1> QED
  BY <1>1 DEF GoodWires

(* Wires of the ids N join: each with a share of its own, drawn after the  *)
(* first d (own[id]), or with none (own[id] = 0).                          *)
Joined(c, t, d, N, own, c2, t2, d2) ==
    /\ DOMAIN c2 = DOMAIN c \cup N
    /\ \A id \in DOMAIN c \ N : c2[id] = c[id] /\ t2[id] = t[id]
    /\ d2 \in Nat /\ d <= d2
    /\ \A id \in N : own[id] = 0 \/ own[id] \in (d + 1) .. d2
    /\ \A id, other \in N : own[id] = own[other] /\ own[id] # 0 => id = other
    /\ \A id \in N :
         /\ IsWire(c2[id]) /\ ValueAtBob(c2[id]) = t2[id]
         /\ c2[id].share = IF own[id] = 0 THEN {} ELSE {own[id]}

(* Input wires may join, each with a share of its own.                     *)
LEMMA WiresAdded ==
    ASSUME NEW c, NEW t, NEW d, NEW k, NEW m, GoodWires(c, t, d, k, m),
           NEW N, NEW own, NEW c2, NEW t2, NEW d2, Joined(c, t, d, N, own, c2, t2, d2),
           NEW m2 \in BOOLEAN, m2 <=> m \/ d # d2
    PROVE  GoodWires(c2, t2, d2, k, m2)
<1> USE DEF Joined
<1>1. /\ d \in Nat /\ k \in 0 .. d /\ m \in BOOLEAN /\ (m <=> k # d)
      /\ \A id \in DOMAIN c :
           IsWire(c[id]) /\ c[id].share \subseteq 1 .. d /\ ValueAtBob(c[id]) = t[id]
      /\ \A id \in DOMAIN c : \A n \in c[id].share :
           n > k => /\ c[id].share = {n}
                    /\ \A other \in DOMAIN c \ {id} : n \notin c[other].share
  BY DEF GoodWires
<1>2. k \in 0 .. d2 /\ (m2 <=> k # d2)
  BY <1>1
<1>s. \A id \in N : \A n \in c2[id].share : n = own[id] /\ own[id] # 0 /\ n \in (d + 1) .. d2 /\ n \in 1 .. d2
  <2>1. ASSUME NEW id \in N, NEW n \in c2[id].share
        PROVE  n = own[id] /\ own[id] # 0
    <3>1. c2[id].share = IF own[id] = 0 THEN {} ELSE {own[id]}
      OBVIOUS
    <3> QED
      BY <2>1, <3>1
  <2>2. ASSUME NEW id \in N, NEW n \in c2[id].share
        PROVE  n \in (d + 1) .. d2 /\ n \in 1 .. d2
    <3>1. own[id] = 0 \/ own[id] \in (d + 1) .. d2
      OBVIOUS
    <3>2. n \in (d + 1) .. d2
      BY <2>1, <2>2, <3>1
    <3> QED
      BY <1>1, <3>2
  <2> QED
    BY <2>1, <2>2
<1>3. ASSUME NEW id \in DOMAIN c2
      PROVE  IsWire(c2[id]) /\ c2[id].share \subseteq 1 .. d2 /\ ValueAtBob(c2[id]) = t2[id]
  <2>1. CASE id \in N
    <3>1. c2[id].share \subseteq 1 .. d2
      BY <1>s, <2>1
    <3> QED
      BY <2>1, <3>1
  <2>2. CASE id \in DOMAIN c \ N
    <3>1. c[id].share \subseteq 1 .. d2
      BY <1>1, <2>2
    <3> QED
      BY <1>1, <2>2, <3>1
  <2> QED
    BY <2>1, <2>2
<1>4. ASSUME NEW id \in DOMAIN c2, NEW n \in c2[id].share, n > k
      PROVE  /\ c2[id].share = {n}
             /\ \A other \in DOMAIN c2 \ {id} : n \notin c2[other].share
  <2>1. CASE id \in N
    <3>1. own[id] = n /\ own[id] # 0 /\ c2[id].share = {n} /\ n \in (d + 1) .. d2
      BY <1>4, <2>1
    <3>2. \A other \in N \ {id} : n \notin c2[other].share
      BY <1>s, <2>1, <3>1
    <3>3. \A other \in DOMAIN c \ N : n \notin c2[other].share
      BY <1>1, <3>1
    <3> QED
      BY <3>1, <3>2, <3>3
  <2>2. CASE id \in DOMAIN c \ N
    <3>1. c[id].share = {n} /\ \A other \in DOMAIN c \ {id} : n \notin c[other].share
      BY <1>1, <1>4, <2>2
    <3>2. n \in 1 .. d
      BY <1>1, <1>4, <2>2
    <3>3. \A other \in N : n \notin c2[other].share
      BY <1>1, <1>s, <3>2
    <3> QED
      BY <2>2, <3>1, <3>3
  <2> QED
    BY <2>1, <2>2
<1> QED
  BY <1>1, <1>2, <1>3, <1>4 DEF GoodWires
-------------------------------------------------------------------------------
(* What run_program hands back for a canonical program over carried wires. *)
Ran(run, prog, clear) ==
    /\ run.canonical
    /\ run.draws \in Nat /\ draws <= run.draws /\ run.checked = run.draws /\ run.minted = FALSE
    /\ DOMAIN run.out = DOMAIN prog.outputs
    /\ \A k \in DOMAIN prog.outputs :
         /\ IsWire(run.out[k]) /\ run.out[k].share \subseteq 1 .. run.draws
         /\ ValueAtBob(run.out[k]) = ClearEval(prog, clear)[prog.outputs[k] + 1]
    /\ run.mayFail => \E id \in DOMAIN carried : carried[id].lamA # carried[id].lamB

(* A run of a canonical program on carried wires ends as Ran says.         *)
LEMMA RunIs ==
    ASSUME GoodWires(carried, truth, draws, checked, minted),
           NEW prog \in BooleanProgram, RecordCanonical(prog),
           NEW ids \in Seq(DOMAIN carried), Len(ids) = prog.num_inputs,
           NEW B, NEW clear \in Seq(B), Len(clear) = Len(ids),
           \A k \in 1 .. Len(ids) : clear[k] = truth[ids[k]],
           NEW run, run = run_program(prog, gather_carried_(ids))
    PROVE  Ran(run, prog, clear)
<1> DEFINE in == gather_carried_(ids)
           r == run_source(prog, in, draws)
           ands == Cardinality(AndGates(prog))
           cot == maybe_flush_cot_check(minted \/ ands > 0, ands, draws + ands)
           A == {carried[id] : id \in DOMAIN carried}
<1>1. /\ draws \in Nat /\ checked \in 0 .. draws /\ minted \in BOOLEAN /\ (minted <=> checked # draws)
      /\ \A id \in DOMAIN carried :
           /\ IsWire(carried[id]) /\ carried[id].share \subseteq 1 .. draws
           /\ ValueAtBob(carried[id]) = truth[id]
  BY DEF GoodWires
<1>2. DOMAIN ids = 1 .. Len(ids) /\ Len(ids) \in Nat /\ \A k \in 1 .. Len(ids) : ids[k] \in DOMAIN carried
  BY ElementOfSeq
<1>3. /\ in \in Seq(A) /\ Len(in) = Len(ids) /\ DOMAIN in = 1 .. Len(ids)
      /\ \A k \in 1 .. Len(ids) : in[k] = carried[ids[k]]
  BY <1>2 DEF gather_carried_
<1>4. ands \in Nat
  BY AndGatesFinite
<1>5. run = RunOutcome(r, ands, cot)
  BY DEF run_program
<1> HIDE DEF in, A
<1>6. Len(in) = prog.num_inputs
  BY <1>3
<1>7. \A k \in DOMAIN in : IsWire(in[k]) /\ in[k].share \subseteq 1 .. draws
  BY <1>1, <1>2, <1>3
<1>8. \A k \in DOMAIN in : clear[k] = ValueAtBob(in[k])
  BY <1>1, <1>2, <1>3
<1>9. Len(clear) = Len(in)
  BY <1>3
<1>10. /\ DOMAIN r.out = DOMAIN prog.outputs
       /\ \A k \in DOMAIN prog.outputs :
            /\ IsWire(r.out[k]) /\ r.out[k].share \subseteq 1 .. (draws + ands)
            /\ ValueAtBob(r.out[k]) = ClearEval(prog, clear)[prog.outputs[k] + 1]
  <2>1. Returns(r.out, prog, clear, draws + ands)
    BY <1>1, <1>3, <1>6, <1>7, <1>8, <1>9, RunReturns
  <2> HIDE DEF r, ands
  <2> QED
    BY <2>1 DEF Returns
<1>11. r.mayFail => \E id \in DOMAIN carried : carried[id].lamA # carried[id].lamB
  <2> SUFFICES ASSUME \A id \in DOMAIN carried : carried[id].lamA = carried[id].lamB
               PROVE  ~r.mayFail
    OBVIOUS
  <2>1. \A k \in DOMAIN in : in[k].lamA = in[k].lamB
    BY <1>2, <1>3
  <2> QED
    BY <1>3, <1>6, <2>1, AgreeingRunPasses
<1> HIDE DEF r, ands, cot
<1>12. /\ run.canonical /\ run.draws = draws + ands /\ run.minted = cot.minted
       /\ run.checked = cot.checked /\ run.out = r.out /\ run.mayFail = r.mayFail
  BY <1>5 DEF RunOutcome
<1>13. cot.minted = FALSE /\ cot.checked = draws + ands
  <2>1. cot.minted = FALSE /\ cot.checked = IF minted \/ ands > 0 THEN draws + ands ELSE checked
    BY DEF cot, maybe_flush_cot_check
  <2>2. ~(minted \/ ands > 0) => checked = draws + ands
    BY <1>1, <1>4
  <2> QED
    BY <2>1, <2>2
<1>14. run.draws \in Nat /\ draws <= run.draws
  BY <1>1, <1>4, <1>12
<1> QED
  BY <1>10, <1>11, <1>12, <1>13, <1>14 DEF Ran

(* The recorder's chunk, as the planner needs it.                          *)
LEMMA ChunkForPlan ==
    ASSUME CtxInv
    PROVE  /\ EmissionOrder(chunk_gates) /\ OneOfEachConst(chunk_gates)
           /\ ChunkLocal(chunk_gates) = pending
<1>1. chunk_gates \in Seq(Gate) /\ DOMAIN chunk_gates = 1 .. Len(chunk_gates)
  BY DEF CtxInv, CtxTypeOK
<1>2. EmissionOrder(chunk_gates)
  BY <1>1 DEF CtxInv, ChunkOrdered, EmissionOrder
<1>3. ChunkLocal(chunk_gates) = pending
  BY DEF CtxInv, PendingIsChunk, ChunkLocal
<1>4. ASSUME NEW c \in {"Const0", "Const1"},
             NEW i \in 1 .. Len(chunk_gates), NEW j \in 1 .. Len(chunk_gates),
             chunk_gates[i].op = c, chunk_gates[j].op = c
      PROVE  i = j
  <2>1. PICK v \in BOOLEAN : c = ConstOp(v)
    BY DEF ConstOp
  <2>2. chunk_gates[i].out = const_wire[v] /\ chunk_gates[j].out = const_wire[v]
    BY <1>1, <1>4, <2>1 DEF CtxInv, ConstCached
  <2> QED
    BY <1>2, <2>2, OutsDiffer
<1> QED
  BY <1>2, <1>3, <1>4 DEF OneOfEachConst

(* What a flush hands back when it raises no error: every carried and kept *)
(* id has a wire, and they are good.                                       *)
Flushed(f, keep) ==
    /\ DOMAIN f.carried \subseteq DOMAIN carried \cup pending
    /\ DOMAIN carried \cup ToSet(keep) \subseteq DOMAIN f.carried
    /\ GoodWires(f.carried, truth, f.draws, f.checked, f.minted)
    /\ f.mayFail => \E id \in DOMAIN carried : carried[id].lamA # carried[id].lamB

(* The place of an id in a list that contains it.                          *)
LEMMA PositionIs ==
    ASSUME NEW S, NEW s \in Seq(S), NEW x, Contains(s, x)
    PROVE  Position(s, x) \in 1 .. Len(s) /\ s[Position(s, x)] = x
<1>1. DOMAIN s = 1 .. Len(s)
  OBVIOUS
<1>2. \E k \in DOMAIN s : s[k] = x
  BY <1>1 DEF Contains
<1> DEFINE c == CHOOSE k \in DOMAIN s : s[k] = x
<1>3. c \in DOMAIN s /\ s[c] = x
  BY <1>2, Zenon
<1> QED
  BY <1>1, <1>3 DEF Position

(* A flush whose plan is ok materializes the kept ids.                     *)
LEMMA FlushPlannedIs ==
    ASSUME CtxInv, DOMAIN carried \subseteq Ids,
           GoodWires(carried, truth, draws, checked, minted), Means(truth, chunk_gates),
           NEW keep \in Seq(Ids), ToSet(keep) \subseteq pending \cup DOMAIN carried,
           NEW plan, plan = plan_flush(chunk_gates, keep, DOMAIN carried), plan.ok
    PROVE  FlushPlanned(keep, plan).err = "" /\ Flushed(FlushPlanned(keep, plan), keep)
<1> DEFINE ids == plan.input_ids
           outs == plan.output_ids
           prog == plan.prog
           clear == [k \in 1 .. Len(ids) |-> truth[ids[k]]]
           run == run_program(prog, gather_carried_(ids))
           new == ToSet(keep) \cap pending
           c2 == [id \in DOMAIN carried \cup new |->
                    IF id \in new THEN run.out[Position(outs, id)] ELSE carried[id]]
<1>1. /\ EmissionOrder(chunk_gates) /\ OneOfEachConst(chunk_gates)
      /\ ChunkLocal(chunk_gates) = pending
  BY ChunkForPlan
<1>2. IsPlan(plan, NeededGates(chunk_gates, Reached(chunk_gates, keep)), pending, keep, DOMAIN carried)
  BY <1>1, PlanIs
<1>3. prog \in BooleanProgram /\ RecordCanonical(prog)
  BY <1>1, PlanCanonical
<1>4. /\ ids \in Seq(DOMAIN carried \ pending)
      /\ outs \in Seq(pending)
      /\ \A x : Contains(outs, x) <=> x \in pending /\ x \in ToSet(keep)
      /\ prog.num_inputs = Len(ids)
      /\ DOMAIN prog.outputs = 1 .. Len(outs)
  BY <1>2 DEF IsPlan, Lists
<1> HIDE DEF ids, outs, prog
<1>5. ids \in Seq(DOMAIN carried) /\ Len(ids) \in Nat
  BY <1>4
<1>6. /\ clear \in Seq({truth[id] : id \in DOMAIN carried}) /\ Len(clear) = Len(ids)
      /\ \A k \in 1 .. Len(ids) : clear[k] = truth[ids[k]]
  BY <1>5, ElementOfSeq
<1> HIDE DEF clear
<1>7. \A k \in 1 .. Len(outs) : ClearEval(prog, clear)[prog.outputs[k] + 1] = truth[outs[k]]
  BY <1>1, <1>6, PlanMeans DEF ids, outs, prog
<1>8. Ran(run, prog, clear)
  BY <1>3, <1>4, <1>5, <1>6, RunIs
<1> HIDE DEF run
<1>9. /\ run.canonical /\ run.draws \in Nat /\ draws <= run.draws
      /\ run.checked = run.draws /\ run.minted = FALSE
      /\ \A k \in 1 .. Len(outs) :
           /\ IsWire(run.out[k]) /\ run.out[k].share \subseteq 1 .. run.draws
           /\ ValueAtBob(run.out[k]) = truth[outs[k]]
      /\ run.mayFail => \E id \in DOMAIN carried : carried[id].lamA # carried[id].lamB
  BY <1>4, <1>7, <1>8 DEF Ran
<1>10. FlushPlanned(keep, plan) = FlushRun(keep, outs, run)
  BY DEF FlushPlanned, run, ids, outs, prog
<1>11. FlushRun(keep, outs, run) =
         [err |-> "", mayPass |-> run.mayPass, mayFail |-> run.mayFail, carried |-> c2,
          draws |-> run.draws, minted |-> run.minted, checked |-> run.checked]
  BY <1>9 DEF FlushRun, Extend
<1>12. DOMAIN c2 = DOMAIN carried \cup new
  OBVIOUS
<1>13. ASSUME NEW id \in DOMAIN c2
       PROVE  IsWire(c2[id]) /\ c2[id].share \subseteq 1 .. run.draws /\ ValueAtBob(c2[id]) = truth[id]
  <2>1. CASE id \in new
    <3>1. Contains(outs, id)
      BY <1>4, <2>1
    <3>2. Position(outs, id) \in 1 .. Len(outs) /\ outs[Position(outs, id)] = id
      BY <1>4, <3>1, PositionIs
    <3>3. c2[id] = run.out[Position(outs, id)]
      BY <2>1
    <3> HIDE DEF c2
    <3> QED
      BY <1>9, <3>2, <3>3
  <2>2. CASE id \notin new
    <3>1. c2[id] = carried[id] /\ id \in DOMAIN carried
      BY <2>2
    <3>2. IsWire(carried[id]) /\ carried[id].share \subseteq 1 .. draws /\ ValueAtBob(carried[id]) = truth[id]
      BY <3>1 DEF GoodWires
    <3>3. draws \in Nat
      BY DEF GoodWires
    <3> HIDE DEF c2
    <3>4. carried[id].share \subseteq 1 .. run.draws
      BY <1>9, <3>2, <3>3
    <3> QED
      BY <3>1, <3>2, <3>4
  <2> QED
    BY <2>1, <2>2
<1> HIDE DEF c2
<1>14. GoodWires(c2, truth, run.draws, run.checked, run.minted)
  BY <1>9, <1>13, WiresChecked
<1>15. ToSet(keep) \subseteq DOMAIN carried \cup new
  OBVIOUS
<1> DEFINE f == FlushPlanned(keep, plan)
<1>16. /\ f.err = "" /\ f.carried = c2 /\ f.draws = run.draws /\ f.minted = run.minted
       /\ f.checked = run.checked /\ f.mayFail = run.mayFail
  <2>1. f = [err |-> "", mayPass |-> run.mayPass, mayFail |-> run.mayFail, carried |-> c2,
             draws |-> run.draws, minted |-> run.minted, checked |-> run.checked]
    BY <1>10, <1>11, Zenon
  <2> HIDE DEF f
  <2> QED
    BY <2>1, Zenon
<1> HIDE DEF f
<1>17. Flushed(f, keep)
  BY <1>9, <1>12, <1>14, <1>15, <1>16 DEF Flushed
<1> QED
  BY <1>16, <1>17 DEF f

(* A flush that stops early leaves the session as it was.                  *)
LEMMA UntouchedIs ==
    \A e : /\ Untouched(e).err = e /\ Untouched(e).carried = carried
          /\ Untouched(e).draws = draws /\ Untouched(e).checked = checked
          /\ Untouched(e).minted = minted /\ ~Untouched(e).mayFail
<1>1. \A e : /\ Untouched(e).err = e /\ Untouched(e).carried = carried
             /\ Untouched(e).draws = draws /\ Untouched(e).checked = checked
  BY DEF Untouched
<1>2. \A e : Untouched(e).minted = minted
  BY DEF Untouched
<1>3. \A e : ~Untouched(e).mayFail
  BY DEF Untouched
<1> QED
  BY <1>1, <1>2, <1>3, Zenon

(* How any flush ends; never with a plan the engine rejects.               *)
LEMMA FlushIs ==
    ASSUME CtxInv, DOMAIN carried \subseteq Ids,
           GoodWires(carried, truth, draws, checked, minted), Means(truth, chunk_gates),
           NEW keep \in Seq(Ids), NEW f, f = flush_(keep)
    PROVE  f.err \in {"", "stale keep", "stale operand"} /\ (f.err = "" => Flushed(f, keep))
<1> DEFINE plan == plan_flush(chunk_gates, keep, DOMAIN carried)
<1>1. CASE ~(ToSet(keep) \subseteq pending \cup DOMAIN carried)
  BY <1>1 DEF flush_, Untouched
<1>2. CASE ToSet(keep) \subseteq pending \cup DOMAIN carried /\ ~AnyPending(keep)
  <2>1. f = Untouched("")
    BY <1>2 DEF flush_
  <2>2. ToSet(keep) \subseteq DOMAIN carried
    BY <1>2 DEF AnyPending
  <2>3. /\ f.err = "" /\ f.carried = carried /\ f.draws = draws /\ f.checked = checked
        /\ f.minted = minted /\ ~f.mayFail
    BY <2>1, UntouchedIs, Zenon
  <2> QED
    BY <2>2, <2>3 DEF Flushed
<1>3. CASE ToSet(keep) \subseteq pending \cup DOMAIN carried /\ AnyPending(keep)
  <2>1. f = FlushPlanned(keep, plan)
    BY <1>3 DEF flush_
  <2>2. CASE plan.ok
    BY <1>3, <2>1, <2>2, FlushPlannedIs
  <2>3. CASE ~plan.ok
    <3>1. f = Untouched("stale operand")
      BY <2>1, <2>3 DEF FlushPlanned
    <3>2. f.err = "stale operand"
      BY <3>1, UntouchedIs
    <3> QED
      BY <3>2
  <2> QED
    BY <2>2, <2>3
<1> QED
  BY <1>1, <1>2, <1>3
-------------------------------------------------------------------------------
(* Two valuations that agree on a gate's operands give it the same value.  *)
LEMMA SameOperands ==
    ASSUME NEW g \in Gate, NEW t, NEW t2, \A v \in Reads(g) : t2[v] = t[v]
    PROVE  ClearBit(ById(t2), g) = ClearBit(ById(t), g)
<1>1. g.in0 \in Nat /\ g.in1 \in Nat
  BY GateCases
<1>2. ById(t2)[g.in0 + 1] = t2[g.in0] /\ ById(t2)[g.in1 + 1] = t2[g.in1]
  BY <1>1 DEF ById
<1>3. /\ g.op \in {"And", "Xor", "Not"} => g.in0 \in Reads(g)
      /\ g.op \in {"And", "Xor"} => g.in1 \in Reads(g)
  BY GateCases
<1>4. /\ g.op \in {"And", "Xor", "Not"} => ById(t2)[g.in0 + 1] = t[g.in0]
      /\ g.op \in {"And", "Xor"} => ById(t2)[g.in1 + 1] = t[g.in1]
  BY <1>2, <1>3
<1> QED
  BY <1>4, ClearBitMoves

(* The chunk's wires keep their meaning when truth learns other ids.       *)
LEMMA MeansKept ==
    ASSUME NEW chunk \in Seq(Gate), NEW t, NEW t2, Means(t, chunk), NEW D,
           \A i \in 1 .. Len(chunk) : chunk[i].out \in D /\ Reads(chunk[i]) \subseteq D,
           \A x \in D : t2[x] = t[x]
    PROVE  Means(t2, chunk)
<1> SUFFICES ASSUME NEW i \in 1 .. Len(chunk)
             PROVE  t2[chunk[i].out] = ClearBit(ById(t2), chunk[i])
  BY DEF Means
<1>1. chunk[i] \in Gate
  BY ElementOfSeq
<1>2. ClearBit(ById(t2), chunk[i]) = ClearBit(ById(t), chunk[i])
  BY <1>1, SameOperands
<1> QED
  BY <1>2 DEF Means

(* The clear values extended to a gate that was just recorded.             *)
LEMMA MeansMore ==
    ASSUME NEW chunk \in Seq(Gate), NEW t, NEW t2, Means(t, chunk), NEW D,
           \A i \in 1 .. Len(chunk) : chunk[i].out \in D /\ Reads(chunk[i]) \subseteq D,
           \A x \in D : t2[x] = t[x],
           NEW g \in Gate, Reads(g) \subseteq D, t2[g.out] = ClearBit(ById(t), g)
    PROVE  Means(t2, Append(chunk, g))
<1>1. Means(t2, chunk)
  BY MeansKept, ZenonT(60)
<1> DEFINE b == Append(chunk, g)
<1>2. /\ \A j \in 1 .. Len(chunk) : b[j] = chunk[j]
      /\ b[Len(chunk) + 1] = g
      /\ \A j \in 1 .. Len(b) : j \in 1 .. Len(chunk) \/ j = Len(chunk) + 1
  BY AppendOne
<1>3. ClearBit(ById(t2), g) = ClearBit(ById(t), g)
  BY SameOperands
<1> HIDE DEF b
<1>4. Means(t2, b)
  BY <1>1, <1>2, <1>3 DEF Means
<1> QED
  BY <1>4 DEF b
-------------------------------------------------------------------------------
(* The inputs of the open batch have arbitrary clear bits.                 *)
BatchTruth ==
    batch.phase = "open" =>
      \A i \in DOMAIN batch.adds : truth[batch.adds[i].id] = InputBit(batch.adds[i].id)

(* The invariant about wires and clear values.                             *)
WInv ==
    /\ status \in Statuses /\ NoInternalError
    /\ DOMAIN truth = Ids
    /\ GoodWires(carried, truth, draws, checked, minted)
    /\ Means(truth, chunk_gates)
    /\ BatchTruth
    /\ opened.to \in {BOB, PUBLIC} => opened.correct

(* The body of GammaFailsOnlyOnDisagreement.                               *)
HonestGamma ==
    status' = "c_gamma" => \E id \in DOMAIN carried : carried[id].lamA # carried[id].lamB

(* Every id of the chunk and every operand in it was handed out.           *)
LEMMA ChunkInIds ==
    ASSUME CtxInv
    PROVE  /\ chunk_gates \in Seq(Gate) /\ next_id \in Nat
           /\ \A i \in 1 .. Len(chunk_gates) :
                chunk_gates[i].out \in Ids /\ Reads(chunk_gates[i]) \subseteq Ids
<1>1. chunk_gates \in Seq(Gate) /\ next_id \in Nat /\ pending \subseteq Ids
      /\ DOMAIN chunk_gates = 1 .. Len(chunk_gates)
  BY DEF CtxInv, CtxTypeOK, Ids
<1>2. ASSUME NEW i \in 1 .. Len(chunk_gates)
      PROVE  chunk_gates[i].out \in Ids /\ Reads(chunk_gates[i]) \subseteq Ids
  <2>1. chunk_gates[i].out \in Ids
    BY <1>1 DEF CtxInv, PendingIsChunk
  <2>2. \A v \in Reads(chunk_gates[i]) : v < chunk_gates[i].out
    BY <1>1 DEF CtxInv, ChunkOrdered
  <2>3. chunk_gates[i] \in Gate
    BY <1>1, ElementOfSeq
  <2>4. \A v \in Reads(chunk_gates[i]) : v \in Nat
    BY <2>3, GateCases DEF Reads
  <2> QED
    BY <1>1, <2>1, <2>2, <2>4 DEF Ids
<1> QED
  BY <1>1, <1>2

(* The end of the process or of the session.                               *)
LEMMA GoneW ==
    ASSUME CtxGone, SessionGone, status' \in Statuses, NoInternalError'
    PROVE  WInv'
<1>1. /\ next_id' = 0 /\ chunk_gates' = <<>> /\ carried' = <<>> /\ truth' = <<>>
      /\ batch' = [phase |-> "none", adds |-> <<>>] /\ draws' = 0 /\ checked' = 0
      /\ minted' = FALSE /\ opened' = Nothing
  BY DEF CtxGone, SessionGone, NoBatch
<1>2. DOMAIN truth' = Ids'
  BY <1>1 DEF Ids
<1>3. GoodWires(<<>>, <<>>, 0, 0, FALSE)
  <2>1. \A id : id \notin DOMAIN <<>>
    OBVIOUS
  <2> QED
    BY <2>1, WiresChecked
<1>4. GoodWires(carried, truth, draws, checked, minted)'
  BY <1>1, <1>3
<1>5. Means(<<>>, <<>>)
  BY DEF Means
<1>6. Means(truth, chunk_gates)'
  BY <1>1, <1>5
<1>7. BatchTruth'
  BY <1>1 DEF BatchTruth
<1>8. ~(opened'.to \in {BOB, PUBLIC})
  BY <1>1 DEF Nothing, BOB, PUBLIC, BadParty
<1> QED
  BY <1>2, <1>4, <1>6, <1>7, <1>8 DEF WInv

(* A call that ends in an error other than the internal ones.              *)
LEMMA AbortW ==
    ASSUME NEW why \in Statuses, why \notin {"plan not canonical", "gather"}, Abort(why)
    PROVE  WInv'
<1>1. CtxGone /\ SessionGone /\ status' = why
  BY DEF Abort, Fail
<1>2. NoInternalError'
  BY <1>1 DEF NoInternalError
<1> QED
  BY <1>1, <1>2, GoneW

(* A gate call: truth learns what the new gate computes.                   *)
LEMMA RecordW ==
    ASSUME SInv, WInv, NEW g \in Gate, g.out = next_id, Reads(g) \subseteq Ids,
           chunk_gates' = Append(chunk_gates, g), next_id' = next_id + 1,
           Learn(next_id, ClearBit(ById(truth), g)), RecorderFrame, status' = status
    PROVE  WInv'
<1>1. /\ chunk_gates \in Seq(Gate) /\ next_id \in Nat
      /\ \A i \in 1 .. Len(chunk_gates) :
           chunk_gates[i].out \in Ids /\ Reads(chunk_gates[i]) \subseteq Ids
  BY ChunkInIds DEF SInv
<1>2. next_id \notin Ids /\ Ids' = Ids \cup {next_id}
  BY <1>1 DEF Ids
<1>3. /\ \A x \in Ids : truth'[x] = truth[x]
      /\ truth'[next_id] = ClearBit(ById(truth), g)
      /\ DOMAIN truth' = Ids'
  BY <1>2 DEF Learn
<1>4. Means(truth', Append(chunk_gates, g))
  BY <1>1, <1>3, MeansMore DEF WInv
<1>5. UNCHANGED <<carried, batch, draws, minted, checked>> /\ opened' = Nothing
  BY DEF RecorderFrame
<1>6. GoodWires(carried, truth', draws, checked, minted)
  <2>1. DOMAIN carried \subseteq Ids
    BY DEF SInv, AllocInv
  <2>2. \A id \in DOMAIN carried : truth'[id] = truth[id]
    BY <1>3, <2>1
  <2> QED
    BY <2>2 DEF WInv, GoodWires
<1>7. BatchTruth'
  <2>1. batch.phase = "open" => \A i \in DOMAIN batch.adds : batch.adds[i].id \in Ids
    BY DEF SInv, AllocInv, Reserved
  <2> QED
    BY <1>3, <1>5, <2>1 DEF WInv, BatchTruth
<1>8. ~(opened'.to \in {BOB, PUBLIC})
  BY <1>5 DEF Nothing, BOB, PUBLIC, BadParty
<1>9. status' \in Statuses /\ NoInternalError'
  BY DEF WInv, NoInternalError
<1>10. GoodWires(carried, truth, draws, checked, minted)'
  BY <1>5, <1>6
<1>11. Means(truth, chunk_gates)'
  BY <1>4
<1> QED
  BY <1>3, <1>7, <1>8, <1>9, <1>10, <1>11 DEF WInv

(* The gate calls of the recorder.                                         *)
LEMMA GateW ==
    ASSUME SInv, WInv,
           \/ \E a, b \in Ids : AndGate(a, b) \/ XorGate(a, b)
           \/ \E a \in Ids : NotGate(a)
           \/ \E v \in BOOLEAN : PublicBit(v)
    PROVE  WInv' /\ status' = status
<1>0. next_id \in Nat /\ Ids \subseteq Nat
  BY DEF SInv, CtxInv, CtxTypeOK, Ids
<1>t. \A a \in Ids : ById(truth)[a + 1] = truth[a]
  BY <1>0 DEF ById
<1>1. ASSUME NEW a \in Ids, NEW b \in Ids, AndGate(a, b)
      PROVE  WInv' /\ status' = status
  <2> DEFINE g == [in0 |-> a, in1 |-> b, out |-> next_id, op |-> "And"]
  <2>1. g \in Gate /\ g.out = next_id /\ Reads(g) = {a, b}
    BY <1>0 DEF Gate, Op, Reads, IsConst, IsNot
  <2>2. ClearBit(ById(truth), g) = AndBit(truth[a], truth[b])
    BY <1>t DEF ClearBit, IsConst
  <2>3. /\ chunk_gates' = Append(chunk_gates, g) /\ next_id' = next_id + 1
        /\ Learn(next_id, AndBit(truth[a], truth[b])) /\ RecorderFrame /\ status' = status
    BY <1>1 DEF AndGate, and_gate, Gate2, record_
  <2> HIDE DEF g
  <2>4. Learn(next_id, ClearBit(ById(truth), g))
    BY <2>2, <2>3
  <2> QED
    BY <2>1, <2>3, <2>4, RecordW
<1>2. ASSUME NEW a \in Ids, NEW b \in Ids, XorGate(a, b)
      PROVE  WInv' /\ status' = status
  <2> DEFINE g == [in0 |-> a, in1 |-> b, out |-> next_id, op |-> "Xor"]
  <2>1. g \in Gate /\ g.out = next_id /\ Reads(g) = {a, b}
    BY <1>0 DEF Gate, Op, Reads, IsConst, IsNot
  <2>2. ClearBit(ById(truth), g) = XorBit(truth[a], truth[b])
    BY <1>t DEF ClearBit, IsConst
  <2>3. /\ chunk_gates' = Append(chunk_gates, g) /\ next_id' = next_id + 1
        /\ Learn(next_id, XorBit(truth[a], truth[b])) /\ RecorderFrame /\ status' = status
    BY <1>2 DEF XorGate, xor_gate, Gate2, record_
  <2> HIDE DEF g
  <2>4. Learn(next_id, ClearBit(ById(truth), g))
    BY <2>2, <2>3
  <2> QED
    BY <2>1, <2>3, <2>4, RecordW
<1>3. ASSUME NEW a \in Ids, NotGate(a)
      PROVE  WInv' /\ status' = status
  <2> DEFINE g == [in0 |-> a, in1 |-> 0, out |-> next_id, op |-> "Not"]
  <2>1. g \in Gate /\ g.out = next_id /\ Reads(g) = {a}
    BY <1>0 DEF Gate, Op, Reads, IsConst, IsNot
  <2>2. ClearBit(ById(truth), g) = NotBit(truth[a])
    BY <1>t DEF ClearBit, IsConst
  <2>3. /\ chunk_gates' = Append(chunk_gates, g) /\ next_id' = next_id + 1
        /\ Learn(next_id, NotBit(truth[a])) /\ RecorderFrame /\ status' = status
    BY <1>3 DEF NotGate, not_gate, record_
  <2> HIDE DEF g
  <2>4. Learn(next_id, ClearBit(ById(truth), g))
    BY <2>2, <2>3
  <2> QED
    BY <2>1, <2>3, <2>4, RecordW
<1>4. ASSUME NEW v \in BOOLEAN, PublicBit(v)
      PROVE  WInv' /\ status' = status
  <2> DEFINE g == [in0 |-> 0, in1 |-> 0, out |-> next_id, op |-> ConstOp(v)]
  <2>1. g \in Gate /\ g.out = next_id /\ Reads(g) = {}
    BY <1>0, ConstOps DEF Gate, Reads, IsConst
  <2>2. ClearBit(ById(truth), g) = ConstBit(v)
    <3>1. CASE v
      BY <3>1 DEF ClearBit, IsConst, ConstOp, ConstBit
    <3>2. CASE ~v
      BY <3>2 DEF ClearBit, IsConst, ConstOp, ConstBit
    <3> QED
      BY <3>1, <3>2
  <2>3. /\ chunk_gates' = Append(chunk_gates, g) /\ next_id' = next_id + 1
        /\ Learn(next_id, ConstBit(v)) /\ RecorderFrame /\ status' = status
    BY <1>4 DEF PublicBit, public_bit, record_
  <2> HIDE DEF g
  <2>4. Learn(next_id, ClearBit(ById(truth), g))
    BY <2>2, <2>3
  <2> QED
    BY <2>1, <2>3, <2>4, RecordW
<1> QED
  BY <1>1, <1>2, <1>3, <1>4
-------------------------------------------------------------------------------
(* Input wires decode to their input bit.                                  *)
LEMMA InputWires ==
    ASSUME NEW x
    PROVE  /\ IsWire(PublicWire(x)) /\ PublicWire(x).share = {} /\ ValueAtBob(PublicWire(x)) = x
           /\ \A n : /\ IsWire(InputWire(n, x)) /\ InputWire(n, x).share = {n}
                     /\ ValueAtBob(InputWire(n, x)) = x
<1>1. IsWire(PublicWire(x)) /\ PublicWire(x).share = {} /\ PublicWire(x).lamB = x
  BY DEF PublicWire, IsWire
<1>2. Lambda({}) = {}
  BY DEF Lambda
<1>3. ValueAtBob(PublicWire(x)) = x
  BY <1>1, <1>2, XorLaws DEF ValueAtBob
<1>4. ASSUME NEW n
      PROVE  /\ IsWire(InputWire(n, x)) /\ InputWire(n, x).share = {n}
             /\ ValueAtBob(InputWire(n, x)) = x
  <2>1. /\ IsWire(InputWire(n, x)) /\ InputWire(n, x).share = {n}
        /\ InputWire(n, x).lamB = XorBit(DrawnMask(n), x)
    BY DEF InputWire, IsWire
  <2>2. Lambda({n}) = DrawnMask(n)
    BY DEF Lambda
  <2>3. ValueAtBob(InputWire(n, x)) = x
    BY <2>1, <2>2, XorLaws DEF ValueAtBob
  <2> QED
    BY <2>1, <2>3
<1> QED
  BY <1>1, <1>3, <1>4

(* What a step that leaves the chunk alone must show for its wires.        *)
LEMMA SameChunkW ==
    ASSUME SInv, WInv, UNCHANGED <<status, chunk_gates>>, opened' = Nothing,
           DOMAIN truth' = Ids', \A x \in Ids : truth'[x] = truth[x],
           GoodWires(carried', truth', draws', checked', minted'), BatchTruth'
    PROVE  WInv'
<1>1. /\ chunk_gates \in Seq(Gate)
      /\ \A i \in 1 .. Len(chunk_gates) :
           chunk_gates[i].out \in Ids /\ Reads(chunk_gates[i]) \subseteq Ids
  BY ChunkInIds DEF SInv
<1>2. Means(truth', chunk_gates)
  BY <1>1, MeansKept DEF WInv
<1>3. Means(truth, chunk_gates)'
  BY <1>2
<1>4. ~(opened'.to \in {BOB, PUBLIC})
  BY DEF Nothing, BOB, PUBLIC, BadParty
<1>5. status' \in Statuses /\ NoInternalError'
  BY DEF WInv, NoInternalError
<1>6. GoodWires(carried, truth, draws, checked, minted)'
  OBVIOUS
<1> QED
  BY <1>3, <1>4, <1>5, <1>6 DEF WInv

(* A batch that is left alone keeps its input bits.                        *)
LEMMA BatchTruthKept ==
    ASSUME SInv, WInv, UNCHANGED batch, \A x \in Ids : truth'[x] = truth[x]
    PROVE  BatchTruth'
<1>1. batch.phase = "open" => \A i \in DOMAIN batch.adds : batch.adds[i].id \in Ids
  BY DEF SInv, AllocInv, Reserved
<1> QED
  BY <1>1 DEF WInv, BatchTruth

(* input: one wire under a fresh id.                                       *)
LEMMA InputW ==
    ASSUME SInv, WInv, NEW owner, Input(owner)
    PROVE  WInv' /\ (status' = status \/ status' # "c_gamma")
<1>1. CASE \E why \in {"input owner", "wire id overflow"} : Abort(why)
  <2>1. PICK why \in {"input owner", "wire id overflow"} : Abort(why)
    BY <1>1
  <2>2. why \in Statuses /\ why \notin {"plan not canonical", "gather"}
    BY DEF Statuses
  <2> QED
    BY <2>1, <2>2, AbortW DEF Abort, Fail
<1>2. CASE ~\E why \in {"input owner", "wire id overflow"} : Abort(why)
  <2> DEFINE x == InputBit(next_id)
             c2 == [id \in DOMAIN carried \cup {next_id} |->
                      IF id \in {next_id} THEN authenticate_(owner, x) ELSE carried[id]]
             d2 == IF owner = PUBLIC THEN draws ELSE draws + 1
             m2 == minted \/ owner # PUBLIC
             own == [id \in {next_id} |-> IF owner = PUBLIC THEN 0 ELSE draws + 1]
  <2>1. /\ reserve_ids(1) /\ Learn(next_id, x)
        /\ carried' = c2 /\ draws' = d2 /\ opened' = Nothing
        /\ UNCHANGED <<status, batch, checked>>
    BY <1>2 DEF Input, Extend
  <2>2. minted' = m2
    BY <1>2 DEF Input
  <2>3. /\ next_id \in Nat /\ next_id \notin Ids /\ DOMAIN carried \subseteq Ids
    BY DEF SInv, CtxInv, CtxTypeOK, AllocInv, Ids
  <2>4. next_id' = next_id + 1 /\ chunk_gates' = chunk_gates /\ Ids' = Ids \cup {next_id}
    BY <2>1, <2>3 DEF reserve_ids, Ids
  <2>5. /\ \A i \in Ids : truth'[i] = truth[i]
        /\ truth'[next_id] = x /\ DOMAIN truth' = Ids'
    BY <2>1, <2>3, <2>4 DEF Learn
  <2>6. draws \in Nat /\ d2 \in Nat /\ draws <= d2 /\ minted \in BOOLEAN
    BY DEF WInv, GoodWires
  <2>7. /\ IsWire(authenticate_(owner, x)) /\ ValueAtBob(authenticate_(owner, x)) = x
        /\ authenticate_(owner, x).share = IF owner = PUBLIC THEN {} ELSE {draws + 1}
    BY InputWires DEF authenticate_
  <2>8. GoodWires(c2, truth', d2, checked, m2)
    <3>1. /\ DOMAIN c2 = DOMAIN carried \cup {next_id}
          /\ \A id \in DOMAIN carried \ {next_id} : c2[id] = carried[id]
          /\ c2[next_id] = authenticate_(owner, x)
      BY <2>3
    <3>2. \A id \in DOMAIN carried \ {next_id} : truth'[id] = truth[id]
      BY <2>3, <2>5
    <3>3. \A id \in {next_id} : own[id] = 0 \/ own[id] \in (draws + 1) .. d2
      BY <2>6
    <3>4. \A id, other \in {next_id} : own[id] = own[other] /\ own[id] # 0 => id = other
      OBVIOUS
    <3>5. own[next_id] = IF owner = PUBLIC THEN 0 ELSE draws + 1
      OBVIOUS
    <3>6. m2 \in BOOLEAN /\ (m2 <=> minted \/ draws # d2)
      BY <2>6
    <3>7. GoodWires(carried, truth, draws, checked, minted)
      BY DEF WInv
    <3> HIDE DEF x, c2, d2, m2, own
    <3>8. \A id \in {next_id} :
            /\ IsWire(c2[id]) /\ ValueAtBob(c2[id]) = truth'[id]
            /\ c2[id].share = IF own[id] = 0 THEN {} ELSE {own[id]}
      BY <2>5, <2>6, <2>7, <3>1, <3>5
    <3>9. Joined(carried, truth, draws, {next_id}, own, c2, truth', d2)
      BY <2>6, <3>1, <3>2, <3>3, <3>4, <3>8 DEF Joined
    <3> QED
      BY <3>6, <3>7, <3>9, WiresAdded
  <2>9. GoodWires(carried', truth', draws', checked', minted')
    <3> HIDE DEF c2, d2, m2
    <3> QED
      BY <2>1, <2>2, <2>8
  <2>10. BatchTruth'
    BY <2>1, <2>5, BatchTruthKept
  <2> QED
    BY <2>1, <2>4, <2>5, <2>9, <2>10, SameChunkW
<1> QED
  BY <1>1, <1>2

(* Every secret add has a place in sec_add.                                *)
LEMMA SecureIs ==
    ASSUME NEW A, NEW adds \in Seq(A)
    PROVE  /\ SecureAdds(adds) \in Seq(Nat)
           /\ \A i \in DOMAIN adds :
                adds[i].owner # PUBLIC =>
                  /\ Position(SecureAdds(adds), i) \in 1 .. Len(SecureAdds(adds))
                  /\ SecureAdds(adds)[Position(SecureAdds(adds), i)] = i
<1> DEFINE idx == [i \in DOMAIN adds |-> i]
           S == {i \in DOMAIN adds : adds[i].owner # PUBLIC}
           sec == SecureAdds(adds)
<1>1. DOMAIN adds = 1 .. Len(adds) /\ Len(adds) \in Nat
  OBVIOUS
<1>2. idx \in Seq(Nat) /\ Len(idx) = Len(adds) /\ \A i \in 1 .. Len(adds) : idx[i] = i
  BY <1>1
<1>3. sec = Sublist(idx, S)
  BY DEF SecureAdds
<1> HIDE DEF idx, S, sec
<1>4. sec \in Seq(Nat) /\ IsSublist(sec, idx, Len(idx), S)
  BY <1>2, <1>3, SublistIs
<1>5. ASSUME NEW i \in DOMAIN adds, adds[i].owner # PUBLIC
      PROVE  Position(sec, i) \in 1 .. Len(sec) /\ sec[Position(sec, i)] = i
  <2>1. i \in 1 .. Len(idx) /\ idx[i] = i /\ i \in S
    BY <1>1, <1>2, <1>5 DEF S
  <2>2. Contains(sec, i)
    BY <1>4, <2>1 DEF IsSublist, Contains
  <2> QED
    BY <1>4, <2>2, PositionIs
<1> QED
  BY <1>4, <1>5 DEF sec

(* finish materializes the batch.                                          *)
LEMMA FinishJoins ==
    ASSUME SInv, WInv, batch.phase = "open",
           NEW adds, adds = batch.adds, NEW c2,
           c2 = [id \in DOMAIN carried \cup Reserved |->
                   IF id \in Reserved
                     THEN BatchWire(adds, CHOOSE i \in DOMAIN adds : adds[i].id = id)
                     ELSE carried[id]]
    PROVE  \E own : Joined(carried, truth, draws, Reserved, own, c2, truth,
                           draws + Len(SecureAdds(adds)))
<1> DEFINE at(id) == CHOOSE i \in DOMAIN adds : adds[i].id = id
           sec == SecureAdds(adds)
           own == [id \in Reserved |->
                     IF adds[at(id)].owner = PUBLIC THEN 0 ELSE draws + Position(sec, at(id))]
<1>1. adds \in Seq([owner : Parties \cup {BadParty}, id : Nat])
  BY DEF SInv, AllocInv
<1>2. Reserved = {adds[i].id : i \in DOMAIN adds}
  BY DEF Reserved
<1>3. ASSUME NEW id \in Reserved
      PROVE  at(id) \in DOMAIN adds /\ adds[at(id)].id = id /\ truth[id] = InputBit(id)
  <2>1. \E i \in DOMAIN adds : adds[i].id = id
    BY <1>2
  <2>2. at(id) \in DOMAIN adds /\ adds[at(id)].id = id
    BY <2>1, Zenon
  <2>3. \A i \in DOMAIN adds : truth[adds[i].id] = InputBit(adds[i].id)
    BY DEF WInv, BatchTruth
  <2> HIDE DEF at
  <2> QED
    BY <2>2, <2>3
<1>4. /\ sec \in Seq(Nat)
      /\ \A i \in DOMAIN adds : adds[i].owner # PUBLIC =>
           Position(sec, i) \in 1 .. Len(sec) /\ sec[Position(sec, i)] = i
  BY <1>1, SecureIs
<1>5. draws \in Nat /\ Len(sec) \in Nat
  BY <1>4 DEF WInv, GoodWires
<1>6. DOMAIN c2 = DOMAIN carried \cup Reserved /\ \A id \in DOMAIN carried \ Reserved : c2[id] = carried[id]
  OBVIOUS
<1>7. \A id \in Reserved : c2[id] = BatchWire(adds, at(id))
  OBVIOUS
<1>8. \A id \in Reserved :
        own[id] = IF adds[at(id)].owner = PUBLIC THEN 0 ELSE draws + Position(sec, at(id))
  OBVIOUS
<1>b. \A i : BatchWire(adds, i) =
               IF adds[i].owner = PUBLIC THEN PublicWire(InputBit(adds[i].id))
               ELSE InputWire(draws + Position(sec, i), InputBit(adds[sec[Position(sec, i)]].id))
  BY DEF BatchWire
<1> HIDE DEF at, sec, own
<1>9. ASSUME NEW id \in Reserved
      PROVE  /\ own[id] = 0 \/ own[id] \in (draws + 1) .. (draws + Len(sec))
             /\ own[id] # 0 => own[id] = draws + Position(sec, at(id)) /\ sec[Position(sec, at(id))] = at(id)
                               /\ Position(sec, at(id)) \in Nat
             /\ IsWire(c2[id]) /\ ValueAtBob(c2[id]) = truth[id]
             /\ c2[id].share = IF own[id] = 0 THEN {} ELSE {own[id]}
  <2>1. at(id) \in DOMAIN adds /\ adds[at(id)].id = id /\ truth[id] = InputBit(id)
    BY <1>3
  <2>2. CASE adds[at(id)].owner = PUBLIC
    <3>1. own[id] = 0 /\ c2[id] = PublicWire(InputBit(id))
      BY <1>7, <1>8, <1>b, <2>1, <2>2
    <3> QED
      BY <2>1, <3>1, InputWires
  <2>3. CASE adds[at(id)].owner # PUBLIC
    <3> DEFINE j == Position(sec, at(id))
    <3>1. j \in 1 .. Len(sec) /\ sec[j] = at(id)
      BY <1>4, <2>1, <2>3
    <3>o. own[id] = draws + j
      BY <1>8, <2>3
    <3>b. BatchWire(adds, at(id)) = InputWire(draws + j, InputBit(adds[sec[j]].id))
      BY <1>b, <2>3
    <3>p. Position(sec, at(id)) = j
      OBVIOUS
    <3> HIDE DEF j
    <3>c. adds[sec[j]].id = id
      BY <2>1, <3>1
    <3>2. c2[id] = InputWire(draws + j, InputBit(id))
      BY <1>7, <3>b, <3>c
    <3>3. own[id] # 0 /\ own[id] \in (draws + 1) .. (draws + Len(sec)) /\ j \in Nat
      BY <1>5, <3>1, <3>o
    <3>4. IsWire(c2[id]) /\ ValueAtBob(c2[id]) = truth[id] /\ c2[id].share = {own[id]}
      <4>1. truth[id] = InputBit(id)
        BY <2>1
      <4>2. \A n : /\ IsWire(InputWire(n, InputBit(id)))
                  /\ ValueAtBob(InputWire(n, InputBit(id))) = InputBit(id)
                  /\ InputWire(n, InputBit(id)).share = {n}
        BY InputWires
      <4>3. /\ IsWire(InputWire(draws + j, InputBit(id)))
            /\ ValueAtBob(InputWire(draws + j, InputBit(id))) = InputBit(id)
            /\ InputWire(draws + j, InputBit(id)).share = {draws + j}
        BY <4>2
      <4> QED
        BY <3>2, <3>o, <4>1, <4>3
    <3> QED
      BY <3>1, <3>o, <3>3, <3>4, <3>p
  <2> QED
    BY <2>2, <2>3
<1>10. ASSUME NEW id \in Reserved, NEW other \in Reserved, own[id] = own[other], own[id] # 0
       PROVE  id = other
  <2>p. own[other] # 0
    BY <1>10
  <2>q. own[id] = draws + Position(sec, at(id)) /\ Position(sec, at(id)) \in Nat
    BY <1>9, <1>10
  <2>r. own[other] = draws + Position(sec, at(other)) /\ Position(sec, at(other)) \in Nat
    BY <1>9, <2>p
  <2>1. Position(sec, at(id)) = Position(sec, at(other))
    <3>1. \A x, y \in Nat : draws + x = draws + y => x = y
      BY <1>5
    <3>2. draws + Position(sec, at(id)) = draws + Position(sec, at(other))
      BY <1>10, <2>q, <2>r
    <3> QED
      BY <2>q, <2>r, <3>1, <3>2, Zenon
  <2>2. at(id) = at(other)
    BY <1>9, <1>10, <2>1
  <2> QED
    BY <1>3, <2>2
<1>11. draws + Len(sec) \in Nat /\ draws <= draws + Len(sec)
  BY <1>5
<1>12. Joined(carried, truth, draws, Reserved, own, c2, truth, draws + Len(sec))
  BY <1>6, <1>9, <1>10, <1>11 DEF Joined
<1> QED
  BY <1>12 DEF sec

(* finish(): the batch joins the carried wires.                            *)
LEMMA FinishW ==
    ASSUME SInv, WInv, BatchFinish
    PROVE  WInv' /\ (status' = status \/ status' # "c_gamma")
<1>1. CASE \E why \in {"finish twice", "batch owner"} : Abort(why)
  <2>1. PICK why \in {"finish twice", "batch owner"} : Abort(why)
    BY <1>1
  <2>2. why \in Statuses /\ why \notin {"plan not canonical", "gather"}
    BY DEF Statuses
  <2> QED
    BY <2>1, <2>2, AbortW DEF Abort, Fail
<1>2. CASE ~\E why \in {"finish twice", "batch owner"} : Abort(why)
  <2> DEFINE adds == batch.adds
             n == Len(SecureAdds(adds))
             c2 == [id \in DOMAIN carried \cup Reserved |->
                      IF id \in Reserved
                        THEN BatchWire(adds, CHOOSE i \in DOMAIN adds : adds[i].id = id)
                        ELSE carried[id]]
             m2 == minted \/ n > 0
  <2>0. batch.phase \in {"none", "open", "finished"}
    BY DEF SInv, AllocInv
  <2>1. /\ batch.phase = "open" /\ carried' = c2 /\ draws' = draws + n
        /\ batch' = [batch EXCEPT !.phase = "finished"] /\ opened' = Nothing
        /\ UNCHANGED <<next_id, chunk_gates, status, truth, checked>>
    BY <1>2, <2>0 DEF BatchFinish, Extend, ctxVars
  <2>2. minted' = m2
    BY <1>2, <2>0 DEF BatchFinish
  <2>3. PICK own : Joined(carried, truth, draws, Reserved, own, c2, truth, draws + n)
    BY <2>1, FinishJoins
  <2>4. GoodWires(carried, truth, draws, checked, minted)
    BY DEF WInv
  <2>n. n \in Nat
    <3>1. adds \in Seq([owner : Parties \cup {BadParty}, id : Nat])
      BY DEF SInv, AllocInv
    <3>2. SecureAdds(adds) \in Seq(Nat)
      BY <3>1, SecureIs
    <3> QED
      BY <3>2
  <2>5. m2 \in BOOLEAN /\ (m2 <=> minted \/ draws # draws + n)
    <3>1. minted \in BOOLEAN /\ draws \in Nat
      BY <2>4 DEF GoodWires
    <3> HIDE DEF n
    <3> QED
      BY <2>n, <3>1
  <2> HIDE DEF adds, n, c2, m2
  <2>6. GoodWires(c2, truth, draws + n, checked, m2)
    BY <2>3, <2>4, <2>5, WiresAdded
  <2>7. GoodWires(carried', truth', draws', checked', minted')
    BY <2>1, <2>2, <2>6
  <2>8. BatchTruth'
    <3>1. batch \in [phase : {"none", "open", "finished"},
                     adds  : Seq([owner : Parties \cup {BadParty}, id : Nat])]
      BY DEF SInv, AllocInv
    <3>2. batch'.phase = "finished"
      BY <2>1, <3>1
    <3> QED
      BY <3>2 DEF BatchTruth
  <2>9. DOMAIN truth' = Ids'
    BY <2>1 DEF WInv, Ids
  <2> QED
    BY <2>1, <2>7, <2>8, <2>9, SameChunkW
<1> QED
  BY <1>1, <1>2

(* input_batch and add.                                                    *)
LEMMA BatchW ==
    ASSUME SInv, WInv, NEW owner \in Parties \cup {BadParty}, InputBatch \/ BatchAdd(owner)
    PROVE  WInv' /\ (status' = status \/ status' # "c_gamma")
<1>0. /\ GoodWires(carried, truth, draws, checked, minted) /\ DOMAIN truth = Ids
      /\ DOMAIN carried \subseteq Ids /\ next_id \in Nat
      /\ batch \in [phase : {"none", "open", "finished"},
                    adds  : Seq([owner : Parties \cup {BadParty}, id : Nat])]
  BY DEF WInv, SInv, AllocInv, CtxInv, CtxTypeOK
<1>1. CASE InputBatch
  <2>1. /\ batch' = [phase |-> "open", adds |-> <<>>] /\ opened' = Nothing
        /\ UNCHANGED <<next_id, chunk_gates, status, carried, draws, minted, truth, checked>>
    BY <1>1 DEF InputBatch, ctxVars
  <2>2. BatchTruth'
    BY <2>1 DEF BatchTruth
  <2>3. GoodWires(carried', truth', draws', checked', minted') /\ DOMAIN truth' = Ids'
    BY <1>0, <2>1 DEF Ids
  <2> QED
    BY <2>1, <2>2, <2>3, SameChunkW
<1>2. CASE BatchAdd(owner) /\ \E why \in {"add after finish", "wire id overflow"} : Abort(why)
  <2>1. PICK why \in {"add after finish", "wire id overflow"} : Abort(why)
    BY <1>2
  <2>2. why \in Statuses /\ why \notin {"plan not canonical", "gather"}
    BY DEF Statuses
  <2> QED
    BY <2>1, <2>2, AbortW DEF Abort, Fail
<1>3. CASE BatchAdd(owner) /\ ~\E why \in {"add after finish", "wire id overflow"} : Abort(why)
  <2> DEFINE add == [owner |-> owner, id |-> next_id]
  <2>1. /\ batch.phase = "open" /\ reserve_ids(1) /\ Learn(next_id, InputBit(next_id))
        /\ batch' = [batch EXCEPT !.adds = Append(@, add)] /\ opened' = Nothing
        /\ UNCHANGED <<status, carried, draws, minted, checked>>
    BY <1>0, <1>3 DEF BatchAdd
  <2>2. next_id' = next_id + 1 /\ chunk_gates' = chunk_gates /\ Ids' = Ids \cup {next_id} /\ next_id \notin Ids
    BY <1>0, <2>1 DEF reserve_ids, Ids
  <2>3. /\ \A i \in Ids : truth'[i] = truth[i]
        /\ truth'[next_id] = InputBit(next_id) /\ DOMAIN truth' = Ids'
    BY <2>1, <2>2 DEF Learn
  <2>4. GoodWires(carried', truth', draws', checked', minted')
    <3>1. \A id \in DOMAIN carried : truth'[id] = truth[id]
      BY <1>0, <2>3
    <3>2. GoodWires(carried, truth', draws, checked, minted)
      BY <1>0, <3>1 DEF GoodWires
    <3> QED
      BY <2>1, <3>2
  <2>5. BatchTruth'
    <3>1. /\ batch'.adds = Append(batch.adds, add) /\ add.id = next_id
          /\ add \in [owner : Parties \cup {BadParty}, id : Nat]
          /\ batch.adds \in Seq([owner : Parties \cup {BadParty}, id : Nat])
      BY <1>0, <2>1
    <3> HIDE DEF add
    <3>2. /\ DOMAIN batch'.adds = DOMAIN batch.adds \cup {Len(batch.adds) + 1}
          /\ \A i \in DOMAIN batch.adds : batch'.adds[i] = batch.adds[i]
          /\ batch'.adds[Len(batch.adds) + 1] = add
      BY <3>1
    <3>3. \A i \in DOMAIN batch.adds :
            batch.adds[i].id \in Ids /\ truth[batch.adds[i].id] = InputBit(batch.adds[i].id)
      BY <2>1 DEF WInv, BatchTruth, SInv, AllocInv, Reserved
    <3>4. ASSUME NEW i \in DOMAIN batch'.adds
          PROVE  truth'[batch'.adds[i].id] = InputBit(batch'.adds[i].id)
      <4>1. CASE i \in DOMAIN batch.adds
        <5>1. batch'.adds[i] = batch.adds[i]
          BY <3>2, <4>1
        <5>2. truth'[batch.adds[i].id] = truth[batch.adds[i].id]
          BY <2>3, <3>3, <4>1
        <5> QED
          BY <3>3, <4>1, <5>1, <5>2
      <4>2. CASE i = Len(batch.adds) + 1
        <5>1. batch'.adds[i].id = next_id
          BY <3>1, <3>2, <4>2
        <5> QED
          BY <2>3, <5>1
      <4> QED
        BY <3>2, <4>1, <4>2
    <3> QED
      BY <3>4 DEF BatchTruth
  <2> QED
    BY <2>1, <2>2, <2>3, <2>4, <2>5, SameChunkW
<1> QED
  BY <1>1, <1>2, <1>3

(* A flush that ends keeps good wires; the new chunk is empty.             *)
LEMMA FlushDoneW ==
    ASSUME SInv, WInv, NEW f, NEW keep, Flushed(f, keep), NEW kept, kept \subseteq DOMAIN f.carried,
           FlushDone(f, kept), opened'.to \in {BOB, PUBLIC} => opened'.correct
    PROVE  WInv' /\ status' = status
<1>1. /\ carried' = [id \in kept |-> f.carried[id]]
      /\ draws' = f.draws /\ minted' = f.minted /\ checked' = f.checked
      /\ truth' = [id \in Ids |-> IF id \in kept \cup Reserved THEN truth[id] ELSE Zero]
      /\ status' = status /\ batch' = batch /\ next_id' = next_id /\ chunk_gates' = <<>>
  BY DEF FlushDone, drop_chunk
<1>2. kept \subseteq Ids /\ Reserved \subseteq Ids
  <2>1. DOMAIN carried \subseteq Ids /\ pending \subseteq Ids /\ Reserved \subseteq Ids
    BY DEF SInv, AllocInv, CtxInv, CtxTypeOK, Ids
  <2> QED
    BY <2>1 DEF Flushed
<1>3. \A id \in kept \cup Reserved : truth'[id] = truth[id]
  BY <1>1, <1>2
<1>4. GoodWires(carried', truth', draws', checked', minted')
  <2>1. GoodWires(f.carried, truth, f.draws, f.checked, f.minted)
    BY DEF Flushed
  <2>2. \A id \in kept : truth'[id] = truth[id]
    BY <1>3
  <2>3. GoodWires(carried', truth', f.draws, f.checked, f.minted)
    BY <1>1, <2>1, <2>2, WiresRestricted
  <2> QED
    BY <1>1, <2>3
<1>5. GoodWires(carried, truth, draws, checked, minted)'
  BY <1>4
<1>6. BatchTruth'
  <2>1. batch.phase = "open" => \A i \in DOMAIN batch.adds : batch.adds[i].id \in Reserved
    BY DEF Reserved
  <2>2. batch.phase = "open" =>
          \A i \in DOMAIN batch.adds : truth[batch.adds[i].id] = InputBit(batch.adds[i].id)
    BY DEF WInv, BatchTruth
  <2> QED
    BY <1>1, <1>3, <2>1, <2>2 DEF BatchTruth
<1>7. Means(truth, chunk_gates)'
  BY <1>1 DEF Means
<1>8. DOMAIN truth' = Ids'
  BY <1>1 DEF Ids
<1>9. status' \in Statuses /\ NoInternalError'
  BY <1>1 DEF WInv, NoInternalError
<1> QED
  BY <1>1, <1>5, <1>6, <1>7, <1>8, <1>9 DEF WInv

(* A call that ends with its flush in error.                               *)
LEMMA FlushFailsW ==
    ASSUME NEW f, NEW keep, FlushFails(f), f.err \in {"", "stale keep", "stale operand"},
           f.err = "" => Flushed(f, keep)
    PROVE  WInv' /\ HonestGamma
<1>1. CASE f.err # "" /\ Abort(f.err)
  <2>1. f.err \in Statuses /\ f.err \notin {"plan not canonical", "gather"} /\ f.err # "c_gamma"
    BY <1>1 DEF Statuses
  <2>2. status' = f.err
    BY <1>1 DEF Abort, Fail
  <2> QED
    BY <1>1, <2>1, <2>2, AbortW DEF HonestGamma
<1>2. CASE f.err = "" /\ f.mayFail /\ Abort("c_gamma")
  <2>1. "c_gamma" \in Statuses /\ "c_gamma" \notin {"plan not canonical", "gather"}
    BY DEF Statuses
  <2>2. WInv'
    BY <1>2, <2>1, AbortW
  <2>3. HonestGamma
    BY <1>2 DEF HonestGamma, Flushed
  <2> QED
    BY <2>2, <2>3
<1> QED
  BY <1>1, <1>2 DEF FlushFails

(* Sequences of bounded length are sequences.                              *)
LEMMA SeqOfIsSeq ==
    ASSUME NEW S, NEW n \in Nat, NEW s \in SeqOf(S, n)
    PROVE  s \in Seq(S)
<1>1. PICK m \in 0 .. n : s \in [1 .. m -> S]
  BY DEF SeqOf
<1> QED
  BY <1>1

(* reveal: the opened bit is the clear value of v.                         *)
LEMMA RevealW ==
    ASSUME SInv, WInv, NEW v \in Ids, NEW keep \in Seq(Ids), Reveal(v, keep)
    PROVE  WInv' /\ (status' = status \/ HonestGamma)
<1> DEFINE f == flush_(<<v>> \o keep)
<1>1. CASE Abort("reveal recipient")
  <2>1. "reveal recipient" \in Statuses /\ "reveal recipient" \notin {"plan not canonical", "gather"}
    BY DEF Statuses
  <2>2. status' = "reveal recipient"
    BY <1>1 DEF Abort, Fail
  <2> QED
    BY <1>1, <2>1, <2>2, AbortW DEF HonestGamma
<1>2. CASE RevealAfter(f, v)
  <2>0. <<v>> \o keep \in Seq(Ids) /\ v \in ToSet(<<v>> \o keep)
    <3>1. <<v>> \o keep \in Seq(Ids) /\ Len(<<v>> \o keep) = 1 + Len(keep) /\ (<<v>> \o keep)[1] = v
      OBVIOUS
    <3>2. 1 \in DOMAIN (<<v>> \o keep)
      BY <3>1
    <3> QED
      BY <3>1, <3>2 DEF ToSet
  <2>1. /\ f.err \in {"", "stale keep", "stale operand"}
        /\ f.err = "" => Flushed(f, <<v>> \o keep)
    <3> DEFINE all == <<v>> \o keep
    <3>1. all \in Seq(Ids) /\ f = flush_(all)
      BY <2>0
    <3> HIDE DEF all, f
    <3>2. f.err \in {"", "stale keep", "stale operand"} /\ (f.err = "" => Flushed(f, all))
      BY <3>1, FlushIs DEF SInv, WInv, AllocInv
    <3> QED
      BY <3>2 DEF all
  <2> HIDE DEF f
  <2>2. f.err = "" => v \in DOMAIN f.carried
    BY <2>0, <2>1 DEF Flushed
  <2>3. CASE FlushFails(f)
    BY <2>1, <2>3, FlushFailsW
  <2>4. ASSUME FlushDone(f, DOMAIN f.carried), NEW recipient \in Parties,
               opened' = [to |-> recipient,
                          correct |-> decode(f.carried[v], recipient) = truth[v],
                          settled |-> f.checked = f.draws]
        PROVE  WInv' /\ status' = status
    <3>1. f.err = ""
      BY <2>4 DEF FlushDone
    <3>2. Flushed(f, <<v>> \o keep) /\ v \in DOMAIN f.carried
      BY <2>1, <2>2, <3>1
    <3>3. ValueAtBob(f.carried[v]) = truth[v]
      BY <3>2 DEF Flushed, GoodWires
    <3>4. recipient \in {BOB, PUBLIC} => decode(f.carried[v], recipient) = ValueAtBob(f.carried[v])
      BY DEF decode, BOB, PUBLIC, ALICE
    <3>5. opened'.to = recipient /\ opened'.correct = (decode(f.carried[v], recipient) = truth[v])
      BY <2>4
    <3>6. opened'.to \in {BOB, PUBLIC} => opened'.correct
      BY <3>3, <3>4, <3>5, Zenon
    <3> QED
      BY <2>4, <3>2, <3>6, FlushDoneW
  <2> QED
    BY <1>2, <2>2, <2>3, <2>4 DEF RevealAfter
<1> QED
  BY <1>1, <1>2 DEF Reveal

(* checkpoint.                                                             *)
LEMMA CheckpointW ==
    ASSUME SInv, WInv, NEW keep \in Seq(Ids), Checkpoint(keep)
    PROVE  WInv' /\ (status' = status \/ HonestGamma)
<1> DEFINE f == flush_(keep)
<1>1. CheckpointAfter(f, keep)
  BY DEF Checkpoint
<1>e. f = flush_(keep)
  OBVIOUS
<1> HIDE DEF f
<1>2. f.err \in {"", "stale keep", "stale operand"} /\ (f.err = "" => Flushed(f, keep))
  BY <1>e, FlushIs DEF SInv, WInv, AllocInv
<1>3. CASE FlushFails(f)
  BY <1>2, <1>3, FlushFailsW
<1>4. CASE FlushDone(f, DOMAIN f.carried \cap ToSet(keep)) /\ opened' = Nothing
  <2>1. Flushed(f, keep)
    BY <1>2, <1>4 DEF FlushDone
  <2>2. opened'.to \notin {BOB, PUBLIC}
    BY <1>4 DEF Nothing, BOB, PUBLIC, BadParty
  <2> DEFINE kept == DOMAIN f.carried \cap ToSet(keep)
  <2>3. kept \subseteq DOMAIN f.carried /\ FlushDone(f, kept)
    BY <1>4
  <2> HIDE DEF kept
  <2> QED
    BY <2>1, <2>2, <2>3, FlushDoneW
<1> QED
  BY <1>1, <1>3, <1>4 DEF CheckpointAfter

(* The successful end of run(): n outputs under the fresh ids.             *)
RunEnds(run, prog, clear, n, fresh) ==
    /\ n = Len(prog.outputs) /\ fresh = next_id .. (next_id + n - 1)
    /\ reserve_ids(n)
    /\ carried' = [id \in DOMAIN carried \cup fresh |->
                     IF id \in fresh THEN run.out[id - next_id + 1] ELSE carried[id]]
    /\ truth' = [id \in Ids \cup fresh |->
                   IF id \in fresh
                     THEN ClearEval(prog, clear)[prog.outputs[id - next_id + 1] + 1]
                     ELSE truth[id]]
    /\ draws' = run.draws /\ minted' = run.minted /\ checked' = run.checked
    /\ opened' = Nothing /\ UNCHANGED <<status, batch>>

(* The outputs of a stored program join the carried wires, all checked.    *)
LEMMA RunDoneW ==
    ASSUME SInv, WInv, NEW prog \in BooleanProgram, NEW clear, NEW run, Ran(run, prog, clear),
           NEW n, NEW fresh, RunEnds(run, prog, clear, n, fresh)
    PROVE  WInv'
<1> USE DEF RunEnds
<1>1. n \in Nat /\ next_id \in Nat /\ DOMAIN prog.outputs = 1 .. n
  BY DEF BooleanProgram, SInv, CtxInv, CtxTypeOK
<1>2. next_id' = next_id + n /\ chunk_gates' = chunk_gates
  BY DEF reserve_ids
<1>3. Ids' = Ids \cup fresh /\ Ids \cap fresh = {}
  BY <1>1, <1>2 DEF Ids
<1>4. DOMAIN truth' = Ids' /\ \A x \in Ids : truth'[x] = truth[x]
  BY <1>3
<1>5. DOMAIN carried \subseteq Ids /\ GoodWires(carried, truth, draws, checked, minted)
  BY DEF SInv, AllocInv, WInv
<1>6. /\ run.draws \in Nat /\ draws <= run.draws /\ run.checked = run.draws /\ run.minted = FALSE
      /\ \A k \in 1 .. n :
           /\ IsWire(run.out[k]) /\ run.out[k].share \subseteq 1 .. run.draws
           /\ ValueAtBob(run.out[k]) = ClearEval(prog, clear)[prog.outputs[k] + 1]
  BY <1>1 DEF Ran
<1>7. DOMAIN carried' = DOMAIN carried \cup fresh
  OBVIOUS
<1>8. ASSUME NEW id \in DOMAIN carried'
      PROVE  /\ IsWire(carried'[id]) /\ carried'[id].share \subseteq 1 .. run.draws
             /\ ValueAtBob(carried'[id]) = truth'[id]
  <2>1. CASE id \in fresh
    <3>1. id - next_id + 1 \in 1 .. n
      BY <1>1, <2>1
    <3>2. carried'[id] = run.out[id - next_id + 1]
      BY <2>1
    <3>3. truth'[id] = ClearEval(prog, clear)[prog.outputs[id - next_id + 1] + 1]
      BY <2>1
    <3> QED
      BY <1>6, <3>1, <3>2, <3>3
  <2>2. CASE id \notin fresh
    <3>1. id \in DOMAIN carried /\ carried'[id] = carried[id] /\ truth'[id] = truth[id]
      BY <1>4, <1>5, <1>7, <2>2
    <3>2. /\ IsWire(carried[id]) /\ carried[id].share \subseteq 1 .. draws /\ draws \in Nat
          /\ ValueAtBob(carried[id]) = truth[id]
      BY <1>5, <3>1 DEF GoodWires
    <3>3. 1 .. draws \subseteq 1 .. run.draws
      BY <1>6, <3>2
    <3> QED
      BY <3>1, <3>2, <3>3
  <2> QED
    BY <2>1, <2>2
<1>9. GoodWires(carried', truth', run.draws, run.draws, FALSE)
  <2> HIDE DEF RunEnds
  <2> QED
    BY <1>6, <1>8, WiresChecked, ZenonT(60)
<1>10. GoodWires(carried', truth', draws', checked', minted')
  BY <1>6, <1>9
<1>11. BatchTruth'
  BY <1>4, BatchTruthKept
<1> QED
  BY <1>2, <1>4, <1>10, <1>11, SameChunkW

(* run and run_artifact.                                                   *)
LEMMA RunW ==
    ASSUME SInv, WInv, NEW prog \in BooleanProgram, NEW args \in Seq(Ids), RunProgram(prog, args)
    PROVE  WInv' /\ (status' = status \/ HonestGamma)
<1>1. CASE \E why \in {"unflushed argument", "argument width", "result width", "not canonical",
                       "wire id overflow"} : Abort(why)
  <2>1. PICK why \in {"unflushed argument", "argument width", "result width", "not canonical",
                      "wire id overflow"} : Abort(why)
    BY <1>1
  <2>2. why \in Statuses /\ why \notin {"plan not canonical", "gather"} /\ why # "c_gamma"
    BY DEF Statuses
  <2>3. status' = why
    BY <2>1 DEF Abort, Fail
  <2> QED
    BY <2>1, <2>2, <2>3, AbortW DEF HonestGamma
<1>2. CASE ~\E why \in {"unflushed argument", "argument width", "result width", "not canonical",
                        "wire id overflow"} : Abort(why)
  <2> DEFINE clear == [k \in DOMAIN args |-> truth[args[k]]]
             run == run_program(prog, gather_carried_(args))
             B == {truth[x] : x \in Ids}
  <2>1. Materialized(args) /\ Len(args) = prog.num_inputs /\ RunAfter(run, prog, ClearEval(prog, clear))
    BY <1>2 DEF RunProgram
  <2>2. /\ clear \in Seq(B) /\ Len(clear) = Len(args)
        /\ \A k \in 1 .. Len(args) : clear[k] = truth[args[k]]
    <3>1. Len(args) \in Nat /\ DOMAIN args = 1 .. Len(args) /\ \A k \in 1 .. Len(args) : args[k] \in Ids
      OBVIOUS
    <3>2. clear \in [1 .. Len(args) -> B]
      BY <3>1
    <3>3. clear \in Seq(B) /\ Len(clear) = Len(args)
      BY <3>1, <3>2
    <3> QED
      BY <3>1, <3>3
  <2>3. args \in Seq(DOMAIN carried)
    <3>1. \A k \in 1 .. Len(args) : args[k] \in DOMAIN carried
      BY <2>1 DEF Materialized, ToSet
    <3>2. args \in [1 .. Len(args) -> DOMAIN carried] /\ Len(args) \in Nat
      BY <3>1
    <3> QED
      BY <3>2
  <2>4. run = run_program(prog, gather_carried_(args))
    OBVIOUS
  <2> HIDE DEF clear, run, B
  <2>5. run.canonical
    BY <1>2, <2>1 DEF RunAfter
  <2>6. RecordCanonical(prog)
    BY <2>4, <2>5 DEF run_program
  <2>7. Ran(run, prog, clear)
    BY <2>1, <2>2, <2>3, <2>4, <2>6, RunIs DEF WInv
  <2>8. CASE run.mayFail /\ Abort("c_gamma")
    <3>1. "c_gamma" \in Statuses /\ "c_gamma" \notin {"plan not canonical", "gather"}
      BY DEF Statuses
    <3> QED
      BY <2>7, <2>8, <3>1, AbortW DEF HonestGamma, Ran
  <2>9. CASE ~(run.mayFail /\ Abort("c_gamma"))
    <3> DEFINE n == Len(prog.outputs)
               fresh == next_id .. (next_id + n - 1)
    <3>1. /\ reserve_ids(n)
          /\ carried' = [id \in DOMAIN carried \cup fresh |->
                           IF id \in fresh THEN run.out[id - next_id + 1] ELSE carried[id]]
          /\ truth' = [id \in Ids \cup fresh |->
                         IF id \in fresh
                           THEN ClearEval(prog, clear)[prog.outputs[id - next_id + 1] + 1]
                           ELSE truth[id]]
          /\ draws' = run.draws /\ minted' = run.minted /\ checked' = run.checked
          /\ opened' = Nothing /\ UNCHANGED <<status, batch>>
      BY <1>2, <2>1, <2>5, <2>9 DEF RunAfter, Extend
    <3>2. RunEnds(run, prog, clear, n, fresh)
      BY <3>1 DEF RunEnds
    <3> HIDE DEF n, fresh
    <3>3. WInv'
      BY <2>7, <3>2, RunDoneW
    <3> QED
      BY <3>1, <3>3
  <2> QED
    BY <2>8, <2>9
<1> QED
  BY <1>1, <1>2

(* The constructor.                                                        *)
LEMMA InitW == Init => WInv
<1> SUFFICES ASSUME Init PROVE WInv
  OBVIOUS
<1>1. /\ carried = <<>> /\ truth = <<>> /\ draws = 0 /\ checked = 0 /\ minted = FALSE
      /\ status = "open" /\ batch = NoBatch /\ opened = Nothing
      /\ next_id = 0 /\ chunk_gates = <<>>
  BY DEF Init, CtxInit
<1>2. DOMAIN carried = {} /\ DOMAIN truth = {} /\ Ids = {}
  BY <1>1 DEF Ids
<1>3. GoodWires(carried, truth, draws, checked, minted)
  <2>1. GoodWires(carried, truth, 0, 0, FALSE)
    BY <1>2, WiresChecked
  <2> QED
    BY <1>1, <2>1
<1>4. Means(truth, chunk_gates)
  BY <1>1 DEF Means
<1>5. BatchTruth
  BY <1>1 DEF BatchTruth, NoBatch
<1>6. opened.to \notin {BOB, PUBLIC}
  BY <1>1 DEF Nothing, BOB, PUBLIC, BadParty
<1>7. status \in Statuses /\ NoInternalError
  BY <1>1 DEF Statuses, NoInternalError
<1> QED
  BY <1>2, <1>3, <1>4, <1>5, <1>6, <1>7 DEF WInv

(* A session that is over stays as it is.                                  *)
LEMMA StutterW ==
    ASSUME WInv, UNCHANGED vars
    PROVE  WInv'
<1>1. UNCHANGED <<next_id, chunk_gates, status, carried, batch, draws, minted, truth, checked, opened>>
  BY DEF vars, ctxVars, sessVars
<1> QED
  BY <1>1 DEF WInv, BatchTruth, Reserved, Ids, NoInternalError

(* Every call keeps the invariant, and c_gamma fails for a reason.         *)
LEMMA StepW ==
    ASSUME SInv, WInv, [Next]_vars
    PROVE  WInv' /\ (status' = status \/ HonestGamma)
<1>1. CASE UNCHANGED vars
  BY <1>1, StutterW DEF vars
<1>2. CASE Call
  <2>1. CASE \/ \E a, b \in Ids : AndGate(a, b)
             \/ \E a, b \in Ids : XorGate(a, b)
             \/ \E a \in Ids : NotGate(a)
             \/ \E v \in BOOLEAN : PublicBit(v)
    BY <2>1, GateW
  <2>2. CASE RecorderError /\ SessionGone
    <3>1. PICK why \in {"corrupt wire", "wire id overflow"} : Fail(why)
      BY <2>2 DEF RecorderError
    <3>2. why \in Statuses /\ why \notin {"plan not canonical", "gather"} /\ why # "c_gamma"
      BY DEF Statuses
    <3>3. Abort(why) /\ status' = why
      BY <2>2, <3>1 DEF Abort, Fail
    <3> QED
      BY <3>2, <3>3, AbortW DEF HonestGamma
  <2>3. CASE \E owner \in Parties \cup {BadParty} : Input(owner)
    BY <2>3, InputW DEF HonestGamma
  <2>4. CASE InputBatch
    <3>1. PUBLIC \in Parties \cup {BadParty}
      BY DEF Parties
    <3> QED
      BY <2>4, <3>1, BatchW DEF HonestGamma
  <2>5. CASE \E owner \in Parties \cup {BadParty} : BatchAdd(owner)
    BY <2>5, BatchW DEF HonestGamma
  <2>6. CASE BatchFinish
    BY <2>6, FinishW DEF HonestGamma
  <2>7. CASE \E v \in Ids, keep \in KeepLists : Reveal(v, keep)
    <3>1. PICK v \in Ids, keep \in KeepLists : Reveal(v, keep)
      BY <2>7
    <3>2. keep \in Seq(Ids)
      BY SeqOfIsSeq, SessionAssumption DEF KeepLists
    <3> QED
      BY <3>1, <3>2, RevealW
  <2>8. CASE \E keep \in KeepLists : Checkpoint(keep)
    <3>1. PICK keep \in KeepLists : Checkpoint(keep)
      BY <2>8
    <3>2. keep \in Seq(Ids)
      BY SeqOfIsSeq, SessionAssumption DEF KeepLists
    <3> QED
      BY <3>1, <3>2, CheckpointW
  <2>9. CASE \E prog \in Programs, args \in SeqOf(Ids, MaxArgs) : RunProgram(prog, args)
    <3>1. PICK prog \in Programs, args \in SeqOf(Ids, MaxArgs) : RunProgram(prog, args)
      BY <2>9
    <3>2. args \in Seq(Ids) /\ prog \in BooleanProgram
      BY SeqOfIsSeq, SessionAssumption
    <3> QED
      BY <3>1, <3>2, RunW
  <2>10. CASE Close
    <3>1. CtxGone /\ SessionGone /\ status' = "closed"
      BY <2>10 DEF Close
    <3>2. status' \in Statuses /\ NoInternalError' /\ status' # "c_gamma"
      BY <3>1 DEF Statuses, NoInternalError
    <3> QED
      BY <3>1, <3>2, GoneW DEF HonestGamma
  <2> QED
    BY <1>2, <2>1, <2>2, <2>3, <2>4, <2>5, <2>6, <2>7, <2>8, <2>9, <2>10 DEF Call
<1> QED
  BY <1>1, <1>2 DEF Next, Ended

(* The wires are good in every state of the session.                       *)
LEMMA WInvAlways == Spec => []WInv
<1>1. Init => WInv
  BY InitW
<1>2. SInv /\ WInv /\ [Next]_vars => WInv'
  BY StepW
<1>3. Spec => []SInv
  BY SInvAlways
<1> QED
  BY <1>1, <1>2, <1>3, PTL DEF Spec

(* The state of recorder and session keeps the shape the code declares, in *)
(* every call sequence of any length.                                      *)
THEOREM SessionTypes == Spec => []TypeOK
<1>1. SInv /\ WInv => TypeOK
  BY DEF SInv, AllocInv, CtxInv, WInv, GoodWires, TypeOK
<1> QED
  BY <1>1, SInvAlways, WInvAlways, PTL

(* Whatever was recorded, flushed, pruned, batched and run before, every   *)
(* carried wire decodes at the evaluator to the clear value of its id, and *)
(* a reveal to BOB or to PUBLIC returns the clear value.                   *)
THEOREM WiresCorrect == Spec => []CarriedCorrect
<1>1. WInv => CarriedCorrect
  BY DEF WInv, GoodWires, CarriedCorrect
<1> QED
  BY <1>1, WInvAlways, PTL

(* cots_minted_since_check_ never misses an unchecked share, and nothing   *)
(* the engine returned rests on one.                                       *)
THEOREM OutputsSettled == Spec => []EngineOutputsSettled
<1>1. WInv => EngineOutputsSettled
  BY DEF WInv, GoodWires, EngineOutputsSettled
<1> QED
  BY <1>1, WInvAlways, PTL

(* A plan of the session's own is always canonical, and the wire to reveal *)
(* is always there after the flush.                                        *)
THEOREM SelfChecksNeverFire == Spec => []NoInternalError
<1>1. WInv => NoInternalError
  BY DEF WInv
<1> QED
  BY <1>1, WInvAlways, PTL

(* The c_gamma check between honest parties fails only in a call that found *)
(* a carried wire with different Lambda bits at the two parties.           *)
THEOREM HonestGammaFailure == Spec => GammaFailsOnlyOnDisagreement
<1> DEFINE Body == status' = "c_gamma" =>
                     \E id \in DOMAIN carried : carried[id].lamA # carried[id].lamB
<1>1. SInv /\ WInv /\ [Next]_vars => [Body]_vars
  <2> SUFFICES ASSUME SInv, WInv, [Next]_vars, vars' # vars, status' = "c_gamma"
               PROVE  \E id \in DOMAIN carried : carried[id].lamA # carried[id].lamB
    BY DEF vars
  <2>1. Next
    OBVIOUS
  <2>2. status = "open"
    BY <2>1 DEF Next, Ended
  <2> QED
    BY <2>2, StepW DEF HonestGamma
<1>2. Spec => [][Body]_vars
  BY <1>1, SInvAlways, WInvAlways, PTL DEF Spec
<1> QED
  BY <1>2 DEF GammaFailsOnlyOnDisagreement
-------------------------------------------------------------------------------
(* Each wire of the chunk has the gate that computes it.                   *)
LEMMA GateOfIs ==
    ASSUME CtxInv
    PROVE  /\ \A i \in 1 .. Len(chunk_gates) : GateOf(chunk_gates[i].out) = chunk_gates[i]
           /\ \A id \in pending : \E i \in 1 .. Len(chunk_gates) : id = chunk_gates[i].out
<1>1. EmissionOrder(chunk_gates) /\ ChunkLocal(chunk_gates) = pending
  BY ChunkForPlan
<1>2. DOMAIN chunk_gates = 1 .. Len(chunk_gates)
  BY <1>1 DEF EmissionOrder
<1>3. ASSUME NEW i \in 1 .. Len(chunk_gates)
      PROVE  GateOf(chunk_gates[i].out) = chunk_gates[i]
  <2> DEFINE j == CHOOSE j \in DOMAIN chunk_gates : chunk_gates[j].out = chunk_gates[i].out
  <2>1. j \in DOMAIN chunk_gates /\ chunk_gates[j].out = chunk_gates[i].out
    BY <1>2, Zenon
  <2>2. GateOf(chunk_gates[i].out) = chunk_gates[j]
    BY DEF GateOf
  <2> HIDE DEF j
  <2>3. j = i
    BY <1>1, <1>2, <2>1, OutsDiffer
  <2> QED
    BY <2>2, <2>3
<1> QED
  BY <1>1, <1>2, <1>3 DEF ChunkLocal

(* The walk from the end of the chunk reaches exactly the wires needed.    *)
LEMMA ReachedIsCone ==
    ASSUME CtxInv, NEW keep
    PROVE  Reached(chunk_gates, keep) = Cone(keep)
<1> DEFINE R == Reached(chunk_gates, keep)
<1>1. EmissionOrder(chunk_gates) /\ ChunkLocal(chunk_gates) = pending
  BY ChunkForPlan
<1>2. /\ ToSet(keep) \cap pending \subseteq R
      /\ \A i \in 1 .. Len(chunk_gates) : chunk_gates[i].out \in R => Reads(chunk_gates[i]) \subseteq R
  BY <1>1, ReachedClosed
<1>3. \A C : /\ ToSet(keep) \cap pending \subseteq C
             /\ \A i \in 1 .. Len(chunk_gates) : chunk_gates[i].out \in C => Reads(chunk_gates[i]) \subseteq C
             => R \subseteq C
  BY <1>1, ReachedLeast
<1> HIDE DEF R
<1>4. /\ pending \subseteq Allocated
      /\ \A i \in 1 .. Len(chunk_gates) : Reads(chunk_gates[i]) \subseteq Allocated
  BY ChunkInIds DEF CtxInv, CtxTypeOK, Allocated, Ids
<1>5. R \subseteq Allocated
  BY <1>3, <1>4
<1>6. Closed(R, keep)
  <2>1. ASSUME NEW id \in R \cap pending PROVE Reads(GateOf(id)) \subseteq R
    <3>1. PICK i \in 1 .. Len(chunk_gates) : id = chunk_gates[i].out
      BY GateOfIs
    <3> QED
      BY <1>2, <3>1, GateOfIs
  <2> QED
    BY <1>2, <2>1 DEF Closed
<1>7. ASSUME NEW S, Closed(S, keep) PROVE R \subseteq S
  <2>1. \A i \in 1 .. Len(chunk_gates) : chunk_gates[i].out \in pending
    BY <1>1 DEF ChunkLocal, EmissionOrder
  <2>2. \A i \in 1 .. Len(chunk_gates) : chunk_gates[i].out \in S => Reads(chunk_gates[i]) \subseteq S
    BY <1>7, <2>1, GateOfIs DEF Closed
  <2> QED
    BY <1>3, <1>7, <2>2 DEF Closed
<1>8. R = Cone(keep)
  BY <1>5, <1>6, <1>7 DEF Cone
<1> QED
  BY <1>8 DEF R

(* The gates a flush runs produce the pending wires of the cone, and read  *)
(* exactly its other wires.                                                *)
LEMMA ConeGates ==
    ASSUME CtxInv, NEW keep, NEW gates, gates = NeededGates(chunk_gates, Reached(chunk_gates, keep))
    PROVE  /\ EmissionOrder(gates)
           /\ {gates[k].out : k \in 1 .. Len(gates)} = Cone(keep) \cap pending
           /\ UNION {Reads(gates[k]) : k \in 1 .. Len(gates)} \subseteq Cone(keep)
           /\ Cone(keep) \ pending = (UNION {Reads(gates[k]) : k \in 1 .. Len(gates)}) \ pending
<1> DEFINE U == UNION {Reads(gates[k]) : k \in 1 .. Len(gates)}
           R == Reached(chunk_gates, keep)
<1>1. EmissionOrder(chunk_gates) /\ ChunkLocal(chunk_gates) = pending
  BY ChunkForPlan
<1>2. R = Cone(keep)
  BY ReachedIsCone
<1>3. /\ ToSet(keep) \cap pending \subseteq R
      /\ \A i \in 1 .. Len(chunk_gates) : chunk_gates[i].out \in R => Reads(chunk_gates[i]) \subseteq R
  BY <1>1, ReachedClosed
<1>4. /\ EmissionOrder(gates)
      /\ \A i \in 1 .. Len(gates) :
           gates[i].out \in R /\ \E j \in 1 .. Len(chunk_gates) : gates[i] = chunk_gates[j]
      /\ \A j \in 1 .. Len(chunk_gates) :
           chunk_gates[j].out \in R => \E i \in 1 .. Len(gates) : gates[i] = chunk_gates[j]
  BY <1>1, NeededIs
<1>5. \A C : /\ ToSet(keep) \cap pending \subseteq C
             /\ \A i \in 1 .. Len(chunk_gates) : chunk_gates[i].out \in C => Reads(chunk_gates[i]) \subseteq C
             => R \subseteq C
  BY <1>1, ReachedLeast
<1>6. \A x : x \in pending <=> \E j \in 1 .. Len(chunk_gates) : x = chunk_gates[j].out
  BY <1>1 DEF ChunkLocal, EmissionOrder
<1> HIDE DEF R
<1>7. {gates[k].out : k \in 1 .. Len(gates)} = R \cap pending
  <2>1. ASSUME NEW k \in 1 .. Len(gates) PROVE gates[k].out \in R \cap pending
    BY <1>4, <1>6
  <2>2. ASSUME NEW x \in R \cap pending PROVE \E k \in 1 .. Len(gates) : gates[k].out = x
    BY <1>4, <1>6
  <2> QED
    BY <2>1, <2>2
<1>8. \A k \in 1 .. Len(gates) : Reads(gates[k]) \subseteq R
  BY <1>3, <1>4
<1>9. U \subseteq R
  BY <1>8
<1>10. R \subseteq (ToSet(keep) \cap pending) \cup U
  <2> DEFINE C == (ToSet(keep) \cap pending) \cup U
  <2>1. ASSUME NEW i \in 1 .. Len(chunk_gates), chunk_gates[i].out \in C PROVE Reads(chunk_gates[i]) \subseteq C
    <3>1. chunk_gates[i].out \in R
      BY <1>3, <1>9, <2>1
    <3>2. PICK k \in 1 .. Len(gates) : gates[k] = chunk_gates[i]
      BY <1>4, <3>1
    <3> QED
      BY <3>2
  <2>2. ToSet(keep) \cap pending \subseteq C
    OBVIOUS
  <2> HIDE DEF C
  <2>3. R \subseteq C
    BY <1>5, <2>1, <2>2
  <2> QED
    BY <2>3 DEF C
<1> HIDE DEF U
<1>11. R \ pending = U \ pending
  BY <1>9, <1>10
<1>12. U \subseteq Cone(keep) /\ Cone(keep) \ pending = U \ pending
  BY <1>2, <1>9, <1>11
<1>13. {gates[k].out : k \in 1 .. Len(gates)} = Cone(keep) \cap pending
  BY <1>2, <1>7
<1>14. UNION {Reads(gates[k]) : k \in 1 .. Len(gates)} \subseteq Cone(keep)
  BY <1>12 DEF U
<1>15. Cone(keep) \ pending = (UNION {Reads(gates[k]) : k \in 1 .. Len(gates)}) \ pending
  BY <1>12 DEF U
<1>16. EmissionOrder(gates)
  BY <1>4
<1> QED
  BY <1>13, <1>14, <1>15, <1>16

(* A keep list as the session builds it.                                   *)
LEMMA PlannedKeepIs ==
    ASSUME NEW keep \in PlannedKeeps
    PROVE  keep \in Seq(Allocated)
<1>1. keep \in SeqOf(Allocated, PlanKeep)
  BY DEF PlannedKeeps
<1> QED
  BY <1>1, SeqOfIsSeq, PlanKeepAssumption

(* A stale operand is reported iff a kept id depends on it.                *)
LEMMA StaleDetected == CtxInv => PlanDetectsStale
<1> SUFFICES ASSUME CtxInv, NEW keep \in PlannedKeeps, NEW stale \in SUBSET (Allocated \ pending)
             PROVE  plan_flush(chunk_gates, keep, (Allocated \ pending) \ stale).ok
                      <=> (Cone(keep) \ pending) \cap stale = {}
  BY DEF PlanDetectsStale
<1> DEFINE M == (Allocated \ pending) \ stale
           gates == NeededGates(chunk_gates, Reached(chunk_gates, keep))
           plan == plan_flush(chunk_gates, keep, M)
           U == UNION {Reads(gates[k]) : k \in 1 .. Len(gates)}
<1>1. EmissionOrder(chunk_gates) /\ ChunkLocal(chunk_gates) = pending
  BY ChunkForPlan
<1>2. IsPlan(plan, gates, pending, keep, M)
  BY <1>1, PlanIs, PlannedKeepIs
<1>3. plan.ok <=> \A k \in 1 .. Len(gates) : Reads(gates[k]) \subseteq pending \cup M
  BY <1>2 DEF IsPlan
<1>4. gates = NeededGates(chunk_gates, Reached(chunk_gates, keep))
  OBVIOUS
<1>5. U \subseteq Cone(keep) /\ Cone(keep) \ pending = U \ pending
  BY ConeGates
<1>6. Cone(keep) \subseteq Allocated
  BY DEF Cone
<1>7. (\A k \in 1 .. Len(gates) : Reads(gates[k]) \subseteq pending \cup M) <=> U \subseteq pending \cup M
  <2> HIDE DEF gates, M
  <2> QED
    OBVIOUS
<1> HIDE DEF U, plan, gates
<1>8. U \subseteq pending \cup M <=> (Cone(keep) \ pending) \cap stale = {}
  BY <1>5, <1>6
<1> QED
  BY <1>3, <1>7, <1>8 DEF plan

(* When every id outside the chunk is materialized, the plan is ok.        *)
LEMMA AllThere ==
    ASSUME CtxInv, NEW keep \in PlannedKeeps,
           NEW plan, plan = plan_flush(chunk_gates, keep, Allocated \ pending)
    PROVE  plan.ok /\ plan.prog \in BooleanProgram /\ RecordCanonical(plan.prog)
<1>1. EmissionOrder(chunk_gates) /\ OneOfEachConst(chunk_gates)
  BY ChunkForPlan
<1>2. PlanDetectsStale
  BY StaleDetected
<1>3. {} \in SUBSET (Allocated \ pending) /\ (Allocated \ pending) \ {} = Allocated \ pending
      /\ (Cone(keep) \ pending) \cap {} = {}
  OBVIOUS
<1>4. plan_flush(chunk_gates, keep, (Allocated \ pending) \ {}).ok
  BY <1>2, <1>3 DEF PlanDetectsStale
<1>5. plan.ok
  BY <1>3, <1>4
<1> QED
  BY <1>1, <1>5, PlanCanonical, PlannedKeepIs

(* Whatever the recorder's state, the plan is exact.                       *)
LEMMA Exact == CtxInv => PlanExact
<1> SUFFICES ASSUME CtxInv, NEW keep \in PlannedKeeps,
                    NEW plan, plan = plan_flush(chunk_gates, keep, Allocated \ pending)
             PROVE  /\ RecordCanonical(plan.prog)
                    /\ Len(plan.prog.gates) = Cardinality(Cone(keep) \cap pending)
                    /\ ToSet(plan.input_ids) = Cone(keep) \ pending /\ IsInjective(plan.input_ids)
                    /\ ToSet(plan.output_ids) = ToSet(keep) \cap pending
                    /\ IsInjective(plan.output_ids)
  BY DEF PlanExact
<1> DEFINE M == Allocated \ pending
           gates == NeededGates(chunk_gates, Reached(chunk_gates, keep))
           U == UNION {Reads(gates[k]) : k \in 1 .. Len(gates)}
<1>1. EmissionOrder(chunk_gates) /\ ChunkLocal(chunk_gates) = pending
  BY ChunkForPlan
<1>2. IsPlan(plan, gates, pending, keep, M)
  BY <1>1, PlanIs, PlannedKeepIs
<1>3. RecordCanonical(plan.prog)
  BY AllThere
<1>4. /\ EmissionOrder(gates)
      /\ {gates[k].out : k \in 1 .. Len(gates)} = Cone(keep) \cap pending
      /\ Cone(keep) \ pending = U \ pending /\ U \subseteq Cone(keep)
  BY ConeGates
<1>5. Cone(keep) \subseteq Allocated
  BY DEF Cone
<1> HIDE DEF gates
<1>6. /\ Lists(plan.input_ids, M \ pending, U) /\ Lists(plan.output_ids, pending, ToSet(keep))
      /\ plan.prog.gates = [k \in 1 .. Len(gates) |-> Compact(gates, plan.input_ids, gates[k])]
  <2>1. Lists(plan.input_ids, M \ pending, U) /\ Lists(plan.output_ids, pending, ToSet(keep))
    BY <1>2, Zenon DEF IsPlan
  <2> DEFINE cs == [k \in 1 .. Len(gates) |-> Compact(gates, plan.input_ids, gates[k])]
             outs == [k \in 1 .. Len(plan.output_ids) |->
                        Remap(gates, plan.input_ids, plan.output_ids[k])]
  <2>0. plan.prog = [num_inputs |-> Len(plan.input_ids),
                     num_wires  |-> Len(plan.input_ids) + Len(gates),
                     gates      |-> cs, outputs |-> outs]
    BY <1>2, Zenon DEF IsPlan
  <2> HIDE DEF cs, outs
  <2>3. plan.prog.gates = cs
    BY <2>0
  <2>2. plan.prog.gates = [k \in 1 .. Len(gates) |-> Compact(gates, plan.input_ids, gates[k])]
    BY <2>3 DEF cs
  <2> QED
    BY <2>1, <2>2
<1>7. Len(gates) \in Nat
  BY <1>4 DEF EmissionOrder
<1>8. Len(plan.prog.gates) = Len(gates)
  BY <1>6, <1>7
<1>9. Cardinality(Cone(keep) \cap pending) = Len(gates)
  <2> DEFINE f == [k \in 1 .. Len(gates) |-> gates[k].out]
             O == {gates[k].out : k \in 1 .. Len(gates)}
  <2>1. f \in Bijection(1 .. Len(gates), O)
    <3>1. f \in Injection(1 .. Len(gates), O)
      BY <1>4, OutsDiffer DEF Injection, IsInjective
    <3>2. f \in Surjection(1 .. Len(gates), O)
      BY DEF Surjection
    <3> QED
      BY <3>1, <3>2 DEF Bijection
  <2>2. IsFiniteSet(1 .. Len(gates)) /\ Cardinality(1 .. Len(gates)) = Len(gates)
    <3>1. /\ IsFiniteSet(1 .. Len(gates))
          /\ Cardinality(1 .. Len(gates)) = IF 1 > Len(gates) THEN 0 ELSE (Len(gates) - 1) + 1
      BY <1>7, FS_Interval
    <3>2. (IF 1 > Len(gates) THEN 0 ELSE (Len(gates) - 1) + 1) = Len(gates)
      BY <1>7
    <3> QED
      BY <3>1, <3>2
  <2>3. Cardinality(O) = Cardinality(1 .. Len(gates))
    BY <2>1, <2>2, FS_Bijection DEF ExistsBijection
  <2> QED
    BY <1>4, <2>2, <2>3
<1>10. \A o, S, X : Lists(o, S, X) => ToSet(o) = S \cap X /\ IsInjective(o)
  <2> SUFFICES ASSUME NEW o, NEW S, NEW X, Lists(o, S, X) PROVE ToSet(o) = S \cap X /\ IsInjective(o)
    OBVIOUS
  <2>1. o \in Seq(S) /\ DOMAIN o = 1 .. Len(o)
    BY DEF Lists
  <2>2. IsInjective(o)
    BY <2>1 DEF Lists, Injective, IsInjective
  <2>3. \A x : x \in ToSet(o) <=> Contains(o, x)
    BY <2>1 DEF ToSet, Contains
  <2> QED
    BY <2>2, <2>3 DEF Lists
<1>11. ToSet(plan.output_ids) = ToSet(keep) \cap pending /\ IsInjective(plan.output_ids)
  BY <1>6, <1>10
<1> HIDE DEF U
<1>12. ToSet(plan.input_ids) = Cone(keep) \ pending /\ IsInjective(plan.input_ids)
  BY <1>4, <1>5, <1>6, <1>10
<1> QED
  BY <1>3, <1>8, <1>9, <1>11, <1>12

(* The value of an id depends only on the operands of its gate.            *)
LEMMA ValueFromOperands ==
    ASSUME CtxInv, NEW id, NEW f, NEW h,
           id \in pending => \A v \in Reads(GateOf(id)) : f[v] = h[v]
    PROVE  ValueOf(f, id) = ValueOf(h, id)
<1>1. CASE id \notin pending
  BY <1>1 DEF ValueOf
<1>2. CASE id \in pending
  <2>1. PICK i \in 1 .. Len(chunk_gates) : id = chunk_gates[i].out
    BY <1>2, GateOfIs
  <2> DEFINE g == GateOf(id)
  <2>2. g = chunk_gates[i] /\ chunk_gates[i] \in Gate
    BY <2>1, GateOfIs, ChunkInIds, ElementOfSeq
  <2>3. /\ \A v \in Reads(g) : f[v] = h[v]
        /\ g.op \in Op /\ (g.op \in {"And", "Xor", "Not"} => g.in0 \in Reads(g))
        /\ g.op \in {"And", "Xor"} => g.in1 \in Reads(g)
    BY <1>2, <2>2 DEF Reads, IsConst, IsNot, Gate, Op
  <2>4. /\ g.op \in {"And", "Xor", "Not"} => f[g.in0] = h[g.in0]
        /\ g.op \in {"And", "Xor"} => f[g.in1] = h[g.in1]
    BY <2>3
  <2>5. \A t : ValueOf(t, id) =
                 CASE g.op = "And" -> AndBit(t[g.in0], t[g.in1])
                   [] g.op = "Xor" -> XorBit(t[g.in0], t[g.in1])
                   [] g.op = "Not" -> NotBit(t[g.in0])
                   [] g.op = "Const0" -> Zero
                   [] g.op = "Const1" -> One
    BY <1>2 DEF ValueOf
  <2> HIDE DEF g
  <2> QED
    BY <2>3, <2>4, <2>5 DEF Op
<1> QED
  BY <1>1, <1>2

(* The recursive definition of Meaning has a solution: the values of the   *)
(* ids below n are found one after the other.                              *)
LEMMA MeaningExists ==
    ASSUME CtxInv
    PROVE  \E f : f = [id \in Allocated |-> ValueOf(f, id)]
<1>0. next_id \in Nat
  BY ChunkInIds
<1>1. ASSUME NEW id \in pending PROVE \A v \in Reads(GateOf(id)) : v \in 0 .. (id - 1) /\ id \in Nat
  <2>1. PICK i \in 1 .. Len(chunk_gates) : id = chunk_gates[i].out
    BY GateOfIs
  <2>2. GateOf(id) = chunk_gates[i] /\ chunk_gates \in Seq(Gate)
    BY <2>1, GateOfIs, ChunkInIds
  <2>3. chunk_gates[i] \in Gate
    BY <2>2, ElementOfSeq
  <2>4. \A v \in Reads(chunk_gates[i]) : v < chunk_gates[i].out
    BY ChunkForPlan DEF EmissionOrder
  <2>5. \A v \in Reads(chunk_gates[i]) : v \in Nat
    BY <2>3 DEF Gate, Reads
  <2>6. chunk_gates[i].out \in Nat
    BY <2>3 DEF Gate
  <2> QED
    BY <2>1, <2>2, <2>4, <2>5, <2>6
<1> DEFINE Solves(f, n) == \A id \in 0 .. (n - 1) : f[id] = ValueOf(f, id)
           S == {n \in Nat : \E f : Solves(f, n)}
<1>2. 0 \in S
  <2>1. Solves(<<>>, 0)
    OBVIOUS
  <2> QED
    BY <2>1
<1>3. ASSUME NEW n \in Nat, n \in S PROVE n + 1 \in S
  <2>1. PICK f : Solves(f, n)
    BY <1>3
  <2> DEFINE h == [x \in 0 .. n |-> IF x = n THEN ValueOf(f, n) ELSE f[x]]
  <2>2. h[n] = ValueOf(f, n) /\ \A x \in 0 .. (n - 1) : h[x] = f[x]
    OBVIOUS
  <2> HIDE DEF h
  <2>3. ASSUME NEW id \in 0 .. n PROVE ValueOf(f, id) = ValueOf(h, id)
    <3>1. \A v \in 0 .. (id - 1) : f[v] = h[v]
      BY <2>2
    <3>2. id \in pending => \A v \in Reads(GateOf(id)) : f[v] = h[v]
      BY <1>1, <3>1
    <3> QED
      BY <3>2, ValueFromOperands
  <2>4. ASSUME NEW id \in 0 .. n PROVE h[id] = ValueOf(h, id)
    <3>1. CASE id = n
      BY <2>2, <2>3, <3>1
    <3>2. CASE id \in 0 .. (n - 1)
      BY <2>1, <2>2, <2>3, <3>2
    <3> QED
      BY <3>1, <3>2
  <2>5. Solves(h, n + 1)
    BY <2>4
  <2> QED
    BY <2>5
<1>4. next_id \in S
  <2> HIDE DEF S
  <2>1. Nat \subseteq S
    BY <1>2, <1>3, SetInduction
  <2> QED
    BY <1>0, <2>1
<1>5. PICK f : Solves(f, next_id)
  BY <1>4
<1> DEFINE r == [id \in Allocated |-> f[id]]
<1>6. \A id \in Allocated : r[id] = f[id] /\ f[id] = ValueOf(f, id)
  BY <1>5 DEF Allocated
<1> HIDE DEF r
<1>7. ASSUME NEW id \in Allocated PROVE ValueOf(f, id) = ValueOf(r, id)
  <2>1. \A v \in 0 .. (id - 1) : v \in Allocated
    BY <1>0 DEF Allocated
  <2>2. id \in pending => \A v \in Reads(GateOf(id)) : f[v] = r[v]
    BY <1>1, <1>6, <2>1
  <2> QED
    BY <2>2, ValueFromOperands
<1>8. r = [id \in Allocated |-> ValueOf(r, id)]
  <2>1. r = [id \in Allocated |-> f[id]]
    BY DEF r
  <2>2. \A id \in Allocated : f[id] = ValueOf(r, id)
    BY <1>6, <1>7
  <2> QED
    BY <2>1, <2>2
<1> QED
  BY <1>8

(* Meaning gives every wire of the chunk what its gate computes.           *)
LEMMA MeaningMeans ==
    ASSUME CtxInv
    PROVE  Means(Meaning, chunk_gates)
<1>1. Meaning = [id \in Allocated |-> ValueOf(Meaning, id)]
  <2> DEFINE P(f) == f = [id \in Allocated |-> ValueOf(f, id)]
  <2>1. \E f : P(f)
    BY MeaningExists
  <2>2. Meaning = CHOOSE f : P(f)
    BY DEF Meaning
  <2>3. P(CHOOSE f : P(f))
    BY <2>1, Zenon
  <2>4. P(Meaning)
    BY <2>2, <2>3
  <2> QED
    BY <2>4
<1> DEFINE t == Meaning
<1>2. \A id \in Allocated : t[id] = ValueOf(t, id)
  BY <1>1
<1>3. ASSUME NEW i \in 1 .. Len(chunk_gates)
      PROVE  t[chunk_gates[i].out] = ClearBit(ById(t), chunk_gates[i])
  <2> DEFINE g == chunk_gates[i]
  <2>1. g \in Gate /\ g.out \in pending /\ g.out \in Allocated /\ GateOf(g.out) = g
    <3>1. chunk_gates \in Seq(Gate) /\ g.out \in Ids /\ GateOf(g.out) = g
      BY ChunkInIds, GateOfIs
    <3>2. g.out \in pending
      BY <3>1 DEF CtxInv, PendingIsChunk
    <3> QED
      BY <3>1, <3>2, ElementOfSeq DEF Allocated, Ids
  <2>2. ValueOf(t, g.out) =
          CASE g.op = "And" -> AndBit(t[g.in0], t[g.in1])
            [] g.op = "Xor" -> XorBit(t[g.in0], t[g.in1])
            [] g.op = "Not" -> NotBit(t[g.in0])
            [] g.op = "Const0" -> Zero
            [] g.op = "Const1" -> One
    BY <2>1 DEF ValueOf
  <2>3. t[g.out] = ValueOf(t, g.out)
    BY <1>2, <2>1
  <2> HIDE DEF g, t
  <2>4. g.op \in Op /\ g.in0 \in Nat /\ g.in1 \in Nat
    BY <2>1 DEF Gate
  <2>5. ById(t)[g.in0 + 1] = t[g.in0] /\ ById(t)[g.in1 + 1] = t[g.in1]
    <3>1. \A x \in Nat : x + 1 \in Nat /\ (x + 1) - 1 = x
      OBVIOUS
    <3>2. \A x \in Nat : ById(t)[x + 1] = t[x]
      BY <3>1 DEF ById
    <3> QED
      BY <2>4, <3>2
  <2>6. t[g.out] = ClearBit(ById(t), g)
    BY <2>2, <2>3, <2>4, <2>5 DEF ClearBit, IsConst, Op, ConstBit
  <2> QED
    BY <2>6 DEF g
<1> QED
  BY <1>3 DEF Means

(* The values of a list of ids.                                            *)
LEMMA ValuesReadOff ==
    ASSUME NEW D, NEW ids \in Seq(D), NEW t, NEW clear, clear = [k \in DOMAIN ids |-> t[ids[k]]]
    PROVE  ReadOff(clear, t, ids)
<1> DEFINE B == {t[x] : x \in D}
<1>1. /\ Len(ids) \in Nat /\ DOMAIN ids = 1 .. Len(ids)
      /\ \A j \in 1 .. Len(ids) : ids[j] \in D
  OBVIOUS
<1>2. clear \in [1 .. Len(ids) -> B] /\ \A k \in 1 .. Len(ids) : clear[k] = t[ids[k]]
  BY <1>1
<1> HIDE DEF B
<1>3. clear \in Seq(B) /\ Len(clear) = Len(ids)
  <2>1. \A n \in Nat : \A f \in [1 .. n -> B] : f \in Seq(B) /\ Len(f) = n
    OBVIOUS
  <2> QED
    BY <1>1, <1>2, <2>1, Zenon
<1>4. \A k \in 1 .. Len(clear) : clear[k] = t[ids[k]]
  BY <1>2, <1>3
<1>5. \E C : clear \in Seq(C)
  BY <1>3
<1> QED
  BY <1>3, <1>4, <1>5 DEF ReadOff

(* Whatever the recorder's state, the plan computes what was recorded.     *)
LEMMA MeaningPreserved == CtxInv => PlanPreservesMeaning
<1> SUFFICES ASSUME CtxInv, NEW keep \in PlannedKeeps,
                    NEW plan, plan = plan_flush(chunk_gates, keep, Allocated \ pending)
             PROVE  \A k \in DOMAIN plan.output_ids :
                      ClearEval(plan.prog, [j \in DOMAIN plan.input_ids |-> Meaning[plan.input_ids[j]]])
                        [plan.prog.outputs[k] + 1] = Meaning[plan.output_ids[k]]
  BY DEF PlanPreservesMeaning
<1> DEFINE D == (Allocated \ pending) \ pending
           M == Allocated \ pending
           clear == [j \in DOMAIN plan.input_ids |-> Meaning[plan.input_ids[j]]]
<1>1. Means(Meaning, chunk_gates)
  BY MeaningMeans
<1>2. /\ EmissionOrder(chunk_gates) /\ OneOfEachConst(chunk_gates)
      /\ ChunkLocal(chunk_gates) = pending /\ keep \in Seq(Allocated) /\ plan.ok
  BY ChunkForPlan, PlannedKeepIs, AllThere
<1>3. plan = plan_flush(chunk_gates, keep, M)
  OBVIOUS
<1>4. plan.input_ids \in Seq(D) /\ plan.output_ids \in Seq(pending)
  <2>1. IsPlan(plan, NeededGates(chunk_gates, Reached(chunk_gates, keep)), pending, keep, M)
    BY <1>2, PlanIs
  <2> QED
    BY <2>1 DEF IsPlan, Lists
<1> HIDE DEF D, M
<1>5. ReadOff(clear, Meaning, plan.input_ids)
  BY <1>4, ValuesReadOff
<1> HIDE DEF clear
<1>6. Computes(plan, clear, Meaning)
  BY <1>1, <1>2, <1>3, <1>5, PlanComputes
<1>7. DOMAIN plan.output_ids = 1 .. Len(plan.output_ids)
  BY <1>4
<1>8. \A k \in DOMAIN plan.output_ids :
        ClearEval(plan.prog, clear)[plan.prog.outputs[k] + 1] = Meaning[plan.output_ids[k]]
  BY <1>6, <1>7, Zenon DEF Computes
<1> QED
  BY <1>8, Zenon DEF clear

(* In every state of the session, for every keep list a reveal or a        *)
(* checkpoint may plan for: plan_flush reports a stale operand exactly     *)
(* when the kept values depend on one.                                     *)
THEOREM StaleOperandsDetected == Spec => []PlanDetectsStale
  BY StaleDetected, ChunkConsistent, PTL

(* In every state of the session the plan runs exactly the needed gates on *)
(* exactly the needed inputs, and is canonical.                            *)
THEOREM PlansExact == Spec => []PlanExact
  BY Exact, ChunkConsistent, PTL

(* In every state of the session the compacted program computes what the   *)
(* recorded gates compute.                                                 *)
THEOREM PlansPreserveMeaning == Spec => []PlanPreservesMeaning
  BY MeaningPreserved, ChunkConsistent, PTL
===============================================================================
