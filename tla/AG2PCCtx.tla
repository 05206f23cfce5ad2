------------------------------- MODULE AG2PCCtx -------------------------------
(***************************************************************************)
(* AG2PCCtx (session/ag2pc_ctx.h): the gate recorder.  Gate operations     *)
(* append to the current chunk and hand out recorder ids; the session      *)
(* reserves ids for materialized wires and drops the chunk at a flush.     *)
(*                                                                         *)
(* A user value is a bare id, so any id ever handed out, and any number at *)
(* all, may come back as an operand: Wires includes one id that was never  *)
(* allocated.  error() terminates the process: status leaves "open", the   *)
(* memory is gone and nothing else happens afterwards.                     *)
(***************************************************************************)
EXTENDS Circuit

CONSTANT MaxId          \* the guard of alloc_id_: UINT32_MAX in the code

ASSUME MaxIdAssumption == MaxId \in Nat

VARIABLES
    next_id,            \* next recorder id, never reset
    chunk_gates,        \* the gates of the current chunk
    pending,            \* ids produced in the current chunk
    const_wire,         \* per-chunk ids of the constants 0 and 1, or NoWire
    status              \* "open", "closed", or the message of error()

ctxVars == <<next_id, chunk_gates, pending, const_wire>>

NoWire == -1

Wires == 0 .. next_id

ConstOp(v) == IF v THEN "Const1" ELSE "Const0"

CtxInit ==
    /\ next_id = 0
    /\ chunk_gates = <<>>
    /\ pending = {}
    /\ const_wire = [v \in BOOLEAN |-> NoWire]

(* The process or the object is gone: nothing is left of its memory.       *)
CtxGone ==
    /\ next_id' = 0
    /\ chunk_gates' = <<>>
    /\ pending' = {}
    /\ const_wire' = [v \in BOOLEAN |-> NoWire]

(* error(): print the message and exit.                                    *)
Fail(why) == status' = why /\ CtxGone

(* Bug: the guard lets one id too many through.                            *)
CanAllocOffByOne(n) == next_id + n <= MaxId + 1

(* n successive calls of alloc_id_ do not hit the overflow guard.          *)
CanAlloc(n) == next_id + n <= MaxId

require_allocated_(a) == a < next_id

(* record_: append the gate under a fresh id and mark the id pending.      *)
record_(a, b, op) ==
    /\ chunk_gates' = Append(chunk_gates, [in0 |-> a, in1 |-> b, out |-> next_id, op |-> op])
    /\ pending' = pending \cup {next_id}
    /\ next_id' = next_id + 1

Gate2(a, b, op) ==
    /\ require_allocated_(a) /\ require_allocated_(b) /\ CanAlloc(1)
    /\ record_(a, b, op)
    /\ UNCHANGED <<const_wire, status>>

and_gate(a, b) == Gate2(a, b, "And")

xor_gate(a, b) == Gate2(a, b, "Xor")

not_gate(a) ==
    /\ require_allocated_(a) /\ CanAlloc(1)
    /\ record_(a, 0, "Not")
    /\ UNCHANGED <<const_wire, status>>

(* Bug: public_bit ignores its cache.                                      *)
PublicBitNoCache(v) ==
    /\ CanAlloc(1)
    /\ record_(0, 0, ConstOp(v))
    /\ const_wire' = [const_wire EXCEPT ![v] = next_id]
    /\ UNCHANGED status

(* public_bit records a constant once per chunk; a second call returns the *)
(* cached id and changes nothing.                                          *)
public_bit(v) ==
    /\ const_wire[v] = NoWire
    /\ CanAlloc(1)
    /\ record_(0, 0, ConstOp(v))
    /\ const_wire' = [const_wire EXCEPT ![v] = next_id]
    /\ UNCHANGED status

(* reserve_ids: n fresh ids that belong to no chunk.                       *)
reserve_ids(n) ==
    /\ CanAlloc(n)
    /\ next_id' = next_id + n
    /\ UNCHANGED <<chunk_gates, pending, const_wire>>

(* Bug: drop_chunk leaves the constant cache alone.                        *)
DropChunkKeepsConsts ==
    /\ chunk_gates' = <<>>
    /\ pending' = {}
    /\ UNCHANGED <<next_id, const_wire>>

(* Bug: drop_chunk leaves the pending set alone.                           *)
DropChunkKeepsPending ==
    /\ chunk_gates' = <<>>
    /\ const_wire' = [v \in BOOLEAN |-> NoWire]
    /\ UNCHANGED <<next_id, pending>>

(* Bug: drop_chunk starts the ids of the next chunk over.                  *)
DropChunkResetsIds ==
    /\ chunk_gates' = <<>>
    /\ pending' = {}
    /\ const_wire' = [v \in BOOLEAN |-> NoWire]
    /\ next_id' = 0

drop_chunk ==
    /\ chunk_gates' = <<>>
    /\ pending' = {}
    /\ const_wire' = [v \in BOOLEAN |-> NoWire]
    /\ UNCHANGED next_id

(* The error exits of the recorder: a corrupt operand, or no id left.      *)
RecorderError ==
    \/ \E a \in Wires : ~require_allocated_(a) /\ Fail("corrupt wire")
    \/ ~CanAlloc(1) /\ Fail("wire id overflow")
-------------------------------------------------------------------------------
(***************************************************************************)
(* Invariants of the recorder.                                             *)
(***************************************************************************)
CtxTypeOK ==
    /\ next_id \in 0 .. MaxId
    /\ chunk_gates \in Seq(Gate)
    /\ pending \subseteq 0 .. (next_id - 1)
    /\ const_wire \in [BOOLEAN -> Nat \cup {NoWire}]

(* pending_ and chunk_gates_ describe the same wires: flush_ decides with  *)
(* one of them whether a wire is pending and plan_flush with the other.    *)
PendingIsChunk == pending = {chunk_gates[i].out : i \in DOMAIN chunk_gates}

(* The chunk is in static single assignment form, in topological order:    *)
(* ids grow along the chunk and a gate reads only ids below its own.       *)
ChunkOrdered ==
    /\ \A i, j \in DOMAIN chunk_gates : i < j => chunk_gates[i].out < chunk_gates[j].out
    /\ \A i \in DOMAIN chunk_gates : \A w \in Reads(chunk_gates[i]) : w < chunk_gates[i].out

(* A constant gate is in the chunk iff const_wire_ caches it, so a chunk   *)
(* never holds two Const0 or two Const1 gates (canonical.h rejects those)  *)
(* and a cached id is never one of a chunk already dropped.                *)
ConstCached ==
    \A v \in BOOLEAN :
      /\ const_wire[v] # NoWire => const_wire[v] \in pending
      /\ \A i \in DOMAIN chunk_gates :
           chunk_gates[i].op = ConstOp(v) <=> chunk_gates[i].out = const_wire[v]

CtxInv == CtxTypeOK /\ PendingIsChunk /\ ChunkOrdered /\ ConstCached
==============================================================================
