------------------------------- MODULE Circuit -------------------------------
(***************************************************************************)
(* Gates and Boolean programs, as the ag2pc sources use them.  The types   *)
(* circuit::Gate and circuit::BooleanProgram and the function              *)
(* validate_program belong to emp-tool (external); the canonicity check on *)
(* top of them is backend/canonical.h.                                     *)
(*                                                                         *)
(* A program has num_inputs input wires 0 .. num_inputs-1 and one wire per *)
(* gate.  An operand field that an operation does not use holds 0.         *)
(***************************************************************************)
EXTENDS Bits, SequencesExt

Op == {"And", "Xor", "Not", "Const0", "Const1"}

Gate == [in0 : Nat, in1 : Nat, out : Nat, op : Op]

BooleanProgram == [num_inputs : Nat, num_wires : Nat, gates : Seq(Gate), outputs : Seq(Nat)]

IsConst(g) == g.op \in {"Const0", "Const1"}

IsNot(g) == g.op = "Not"

(* The wires a gate really reads: none for a constant, one for a NOT.      *)
Reads(g) ==
    IF IsConst(g) THEN {} ELSE IF IsNot(g) THEN {g.in0} ELSE {g.in0, g.in1}

AndGates(p) == {i \in DOMAIN p.gates : p.gates[i].op = "And"}

(* emp-tool's validate_program: dense numbering, every output and operand  *)
(* in range, one definition per wire, no wire read before it is defined.   *)
validate_program(p) ==
    /\ p.num_wires = p.num_inputs + Len(p.gates)
    /\ \A i \in DOMAIN p.gates :
         /\ p.gates[i].out \in p.num_inputs .. (p.num_wires - 1)
         /\ \A j \in DOMAIN p.gates : p.gates[i].out = p.gates[j].out => i = j
         /\ \A w \in Reads(p.gates[i]) :
              \/ w \in 0 .. (p.num_inputs - 1)
              \/ \E j \in 1 .. (i - 1) : p.gates[j].out = w
    /\ \A k \in DOMAIN p.outputs : p.outputs[k] \in 0 .. (p.num_wires - 1)

(* ag2pc_require_record_canonical: gate i defines wire num_inputs + i, and *)
(* each constant occurs at most once (the passes deduplicate public_bit).  *)
RecordCanonical(p) ==
    /\ validate_program(p)
    /\ \A i \in DOMAIN p.gates : p.gates[i].out = p.num_inputs + (i - 1)
    /\ \A c \in {"Const0", "Const1"} :
         \A i, j \in DOMAIN p.gates : p.gates[i].op = c /\ p.gates[j].op = c => i = j

(* The clear value of a gate, from the values val of the wires before it.  *)
ClearBit(val, g) ==
    CASE g.op = "And" -> AndBit(val[g.in0 + 1], val[g.in1 + 1])
      [] g.op = "Xor" -> XorBit(val[g.in0 + 1], val[g.in1 + 1])
      [] g.op = "Not" -> NotBit(val[g.in0 + 1])
      [] IsConst(g) -> ConstBit(g.op = "Const1")

(* The clear values of the wires of a canonical program, in wire order     *)
(* (wire k at position k + 1): ClearCtx under execute_program, what the    *)
(* repository's tests call the oracle.                                     *)
ClearEval(p, in) == FoldLeft(LAMBDA val, g : Append(val, ClearBit(val, g)), in, p.gates)
==============================================================================
