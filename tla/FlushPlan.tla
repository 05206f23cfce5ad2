------------------------------ MODULE FlushPlan ------------------------------
(***************************************************************************)
(* plan_flush (backend/flush_plan.h): from the gates of the current chunk, *)
(* the ids to keep and the set of materialized ids, the compacted program  *)
(* that computes exactly the pending ids of the keep list, and the order   *)
(* in which recorder ids feed its inputs and receive its outputs.          *)
(***************************************************************************)
EXTENDS Circuit, SequencesExt

(* wire_to_gate: the ids the chunk itself produces.                        *)
ChunkLocal(chunk) == {chunk[i].out : i \in DOMAIN chunk}

(* Bug: the operand of a NOT is not followed.                              *)
ReachedSkipsNot(chunk, keep) ==
    FoldRight(LAMBDA g, S : IF g.out \in S /\ ~IsNot(g) THEN S \cup Reads(g) ELSE S,
              chunk, ToSet(keep) \cap ChunkLocal(chunk))

(* Bug: every gate of the chunk counts as needed.                          *)
ReachedAll(chunk, keep) ==
    ChunkLocal(chunk) \cup UNION {Reads(chunk[i]) : i \in DOMAIN chunk}

(* The wires the pending keep ids depend on: the ids pushed on the stack.  *)
(* A recorded gate reads only earlier wires, so one walk over the chunk    *)
(* from its end reaches them all.  needed[gi] iff gate gi's out is here.   *)
Reached(chunk, keep) ==
    FoldRight(LAMBDA g, S : IF g.out \in S THEN S \cup Reads(g) ELSE S,
              chunk, ToSet(keep) \cap ChunkLocal(chunk))

(* The elements of s that are in S, in order.                              *)
Sublist(s, S) == FoldLeft(LAMBDA a, x : IF x \in S THEN Append(a, x) ELSE a, <<>>, s)

(* The gates the flush runs, in emission order.                            *)
NeededGates(chunk, reached) == Sublist(chunk, {g \in ToSet(chunk) : g.out \in reached})

(* An id of S goes on the list when it is first seen.                      *)
NoteId(S, ids, v) == IF v \in S /\ ~Contains(ids, v) THEN Append(ids, v) ELSE ids

(* note_input for the operands of a gate.                                  *)
NoteOperands(S, ids, g) ==
    IF IsConst(g) THEN ids
    ELSE IF IsNot(g) THEN NoteId(S, ids, g.in0)
    ELSE NoteId(S, NoteId(S, ids, g.in0), g.in1)

(* The inputs of the program: materialized ids that are not chunk-local.   *)
InputIds(gates, S) == FoldLeft(LAMBDA ids, g : NoteOperands(S, ids, g), <<>>, gates)

(* Its outputs: the pending ids of the keep list, each once, in order.     *)
OutputIds(keep, S) == FoldLeft(LAMBDA ids, v : NoteId(S, ids, v), <<>>, keep)

Position(s, x) == CHOOSE k \in DOMAIN s : s[k] = x

(* Bug: an input keeps the default 0 that operator[] gave it.              *)
RemapDefault(gates, input_ids, v) ==
    IF \E k \in DOMAIN gates : gates[k].out = v
      THEN Len(input_ids) + (CHOOSE k \in DOMAIN gates : gates[k].out = v) - 1
      ELSE 0

(* remap: recorder id -> compact id.  unordered_map::operator[] yields 0   *)
(* for an id that is not there (a stale operand: plan.ok is then false).   *)
Remap(gates, input_ids, v) ==
    IF \E k \in DOMAIN gates : gates[k].out = v
      THEN Len(input_ids) + (CHOOSE k \in DOMAIN gates : gates[k].out = v) - 1
      ELSE IF Contains(input_ids, v) THEN Position(input_ids, v) - 1 ELSE 0

Compact(gates, input_ids, g) ==
    [in0 |-> IF IsConst(g) THEN 0 ELSE Remap(gates, input_ids, g.in0),
     in1 |-> IF IsConst(g) \/ IsNot(g) THEN 0 ELSE Remap(gates, input_ids, g.in1),
     out |-> Remap(gates, input_ids, g.out),
     op  |-> g.op]

(* The plan for the needed gates and the ids that feed and leave it.       *)
PlanFor(gates, ok, input_ids, output_ids) ==
    [ok         |-> ok,
     prog       |-> [num_inputs |-> Len(input_ids),
                     num_wires  |-> Len(input_ids) + Len(gates),
                     gates      |-> [k \in DOMAIN gates |-> Compact(gates, input_ids, gates[k])],
                     outputs    |-> [k \in DOMAIN output_ids |->
                                       Remap(gates, input_ids, output_ids[k])]],
     input_ids  |-> input_ids,
     output_ids |-> output_ids]

(* plan.ok: no operand is neither chunk-local nor materialized.            *)
PlanNeeded(gates, local, keep, materialized) ==
    PlanFor(gates,
            \A k \in DOMAIN gates : Reads(gates[k]) \subseteq local \cup materialized,
            InputIds(gates, materialized \ local),
            OutputIds(keep, local))

plan_flush(chunk, keep, materialized) ==
    PlanNeeded(NeededGates(chunk, Reached(chunk, keep)), ChunkLocal(chunk), keep, materialized)
==============================================================================
