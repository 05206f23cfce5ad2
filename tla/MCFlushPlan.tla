----------------------------- MODULE MCFlushPlan -----------------------------
(***************************************************************************)
(* The recorder alone, driven by every short program of gate calls, id     *)
(* reservations and chunk drops; in every state the flush planner is       *)
(* compared with the reference definitions of PlanReference.               *)
(***************************************************************************)
EXTENDS PlanReference

Init == CtxInit /\ status = "open"

Next ==
    \/ \E a, b \in Wires : and_gate(a, b)
    \/ \E a, b \in Wires : xor_gate(a, b)
    \/ \E a \in Wires : not_gate(a)
    \/ \E v \in BOOLEAN : public_bit(v)
    \/ reserve_ids(1) /\ UNCHANGED status
    \/ chunk_gates # <<>> /\ drop_chunk /\ UNCHANGED status

Spec == Init /\ [][Next]_<<ctxVars, status>>
==============================================================================
