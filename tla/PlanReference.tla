---------------------------- MODULE PlanReference ----------------------------
(***************************************************************************)
(* What plan_flush promises, in any state of the recorder: reference       *)
(* definitions of the wires a flush needs and of the value of a wire, and  *)
(* the properties that compare the planner with them, for every keep list  *)
(* of at most PlanKeep ids (duplicates included) and every set of ids that *)
(* could be materialized.                                                  *)
(***************************************************************************)
EXTENDS AG2PCCtx, FlushPlan

CONSTANT PlanKeep

ASSUME PlanKeepAssumption == PlanKeep \in Nat

Allocated == 0 .. (next_id - 1)

(* Keep lists that flush_ plans for: at least one id is pending.           *)
PlannedKeeps == {k \in SeqOf(Allocated, PlanKeep) : ToSet(k) \cap pending # {}}

GateOf(id) == chunk_gates[CHOOSE i \in DOMAIN chunk_gates : chunk_gates[i].out = id]

(* The wires a keep list needs: the least set that holds the kept ids and  *)
(* is closed under the operands of chunk gates.                            *)
Closed(S, keep) ==
    /\ ToSet(keep) \cap pending \subseteq S
    /\ \A id \in S \cap pending : Reads(GateOf(id)) \subseteq S

Cone(keep) == {id \in Allocated : \A S \in SUBSET Allocated : Closed(S, keep) => id \in S}

(* The value of an id, given those of the operands of its gate; an id      *)
(* outside the chunk is a free variable.                                   *)
ValueOf(val, id) ==
    IF id \notin pending THEN Var(id)
    ELSE LET g == GateOf(id)
         IN CASE g.op = "And" -> AndBit(val[g.in0], val[g.in1])
              [] g.op = "Xor" -> XorBit(val[g.in0], val[g.in1])
              [] g.op = "Not" -> NotBit(val[g.in0])
              [] g.op = "Const0" -> Zero
              [] g.op = "Const1" -> One

Meaning == LET val[id \in Allocated] == ValueOf(val, id) IN val

(* plan_flush reports a stale operand (flush_plan.h:69) exactly when the   *)
(* computation of some kept id really depends on an id that is not         *)
(* materialized: a stale wire in dead code must not fail the flush, and    *)
(* one behind any chain of gates must.                                     *)
PlanDetectsStale ==
    \A keep \in PlannedKeeps :
      LET leaves == Cone(keep) \ pending
      IN \A stale \in SUBSET (Allocated \ pending) :
           plan_flush(chunk_gates, keep, (Allocated \ pending) \ stale).ok
             <=> leaves \cap stale = {}

(* Dead-code elimination and compaction are exact: the program has one     *)
(* gate per needed chunk wire, its inputs are the needed materialized ids, *)
(* its outputs the pending ids of the keep list, each once.  It is         *)
(* RecordCtx-canonical, so the check at the head of run_program            *)
(* (engine.h:219) never rejects what the session planned.                  *)
PlanExact ==
    \A keep \in PlannedKeeps :
      LET plan == plan_flush(chunk_gates, keep, Allocated \ pending)
          cone == Cone(keep)
      IN /\ RecordCanonical(plan.prog)
         /\ Len(plan.prog.gates) = Cardinality(cone \cap pending)
         /\ ToSet(plan.input_ids) = cone \ pending /\ IsInjective(plan.input_ids)
         /\ ToSet(plan.output_ids) = ToSet(keep) \cap pending /\ IsInjective(plan.output_ids)

(* The compacted program computes, on every output, the value the recorded *)
(* gates give that id (test_direct_chunks compares one circuit at a time). *)
PlanPreservesMeaning ==
    \A keep \in PlannedKeeps :
      LET plan == plan_flush(chunk_gates, keep, Allocated \ pending)
          run  == ClearEval(plan.prog,
                    [k \in DOMAIN plan.input_ids |-> Meaning[plan.input_ids[k]]])
      IN \A k \in DOMAIN plan.output_ids :
           run[plan.prog.outputs[k] + 1] = Meaning[plan.output_ids[k]]
==============================================================================
