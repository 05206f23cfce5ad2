------------------------------- MODULE Engine -------------------------------
(***************************************************************************)
(* What one run of AG2PCEngine::run_source does to authenticated wires, at *)
(* the level of shares and opened masks, for two parties that follow the   *)
(* protocol.                                                               *)
(*                                                                         *)
(* A wire is [share, lamA, lamB].  share is the authenticated share of its *)
(* secret mask lambda: a formal XOR of drawn shares, kept as the set of    *)
(* the draws that occur an odd number of times.  MACs and keys follow the  *)
(* same XORs (secure_wires.h), so two shares have equal MACs iff they are  *)
(* equal sets.  lamA and lamB are the opened mask Lambda as the garbler    *)
(* (ALICE) and the evaluator (BOB) store it; the wire's value is Lambda    *)
(* XOR lambda.  Garbled labels are not represented: module HalfGates shows *)
(* that with them the masks come out as they do here, and SlotPasses that  *)
(* a run over recycled slots returns what run_source does here.            *)
(***************************************************************************)
EXTENDS Circuit

(* The mask bit of draw n, random, shared between the parties.             *)
DrawnMask(n) == Var(<<"mask", n>>)

XorShares(s, t) == SymDiff(s, t)

(* lambda: LSB(mac) at ALICE xor LSB(mac) at BOB.                          *)
Lambda(share) == UNION {DrawnMask(n) : n \in share}

(* The value a wire carries, as each party would unmask it.                *)
ValueAtAlice(w) == XorBit(w.lamA, Lambda(w.share))

ValueAtBob(w) == XorBit(w.lamB, Lambda(w.share))

(* public_wires, and public_bit in every pass: share 0, Lambda = the bit.  *)
PublicWire(bit) == [share |-> {}, lamA |-> bit, lamB |-> bit]

(* process_inputs for one wire whose mask is draw n: both parties open     *)
(* Lambda = lambda XOR x, whoever owns x.                                  *)
InputWire(n, x) ==
    LET lam == XorBit(DrawnMask(n), x) IN [share |-> {n}, lamA |-> lam, lamB |-> lam]

(* One gate through the slot/mask pass and the garble / evaluate passes:   *)
(* the share and the evaluator's mask are final, while the garbler's       *)
(* mask_input of a XOR, NOT or AND wire is 0 (AG2PCSlotMaskPass).          *)
EvalXor(a, b) ==
    [share |-> XorShares(a.share, b.share), lamA |-> Zero, lamB |-> XorBit(a.lamB, b.lamB)]

(* Bug: the evaluate pass does not flip the mask of a NOT.                 *)
EvalNotNoFlip(a) == [share |-> a.share, lamA |-> Zero, lamB |-> a.lamB]

EvalNot(a) == [share |-> a.share, lamA |-> Zero, lamB |-> NotBit(a.lamB)]

(* An AND takes a fresh share as lambda_gamma; the evaluator recovers      *)
(* Lambda_gamma = lambda_gamma XOR (a AND b) from the garbled row.         *)
EvalAnd(a, b, n) ==
    [share |-> {n}, lamA |-> Zero,
     lamB  |-> XorBit(DrawnMask(n), AndBit(ValueAtBob(a), ValueAtBob(b)))]

(* The draw that gives an AND its output mask: gate order, from draws + 1. *)
DrawOf(prog, draws, g) ==
    draws + Cardinality({i \in AndGates(prog) : prog.gates[i].out <= g.out})

(* The wire of a gate, from the wires w before it.                         *)
GateWire(prog, draws, w, g) ==
    CASE IsConst(g) -> PublicWire(ConstBit(g.op = "Const1"))
      [] g.op = "Not" -> EvalNot(w[g.in0 + 1])
      [] g.op = "Xor" -> EvalXor(w[g.in0 + 1], w[g.in1 + 1])
      [] g.op = "And" -> EvalAnd(w[g.in0 + 1], w[g.in1 + 1], DrawOf(prog, draws, g))

(* The wires of a canonical program before the c_gamma exchange, in wire   *)
(* order (wire k at position k + 1); in are its input wires.               *)
EvaluatedWires(prog, in, draws) ==
    FoldLeft(LAMBDA w, g : Append(w, GateWire(prog, draws, w, g)), in, prog.gates)

(* Bug: the garbler's re-propagation does not flip the mask of a NOT.      *)
CheckedMaskNoFlip(w, m, g) ==
    CASE g.op = "Not" -> m[g.in0 + 1]
      [] g.op = "Xor" -> XorBit(m[g.in0 + 1], m[g.in1 + 1])
      [] g.op = "And" -> w[g.out + 1].lamB
      [] IsConst(g) -> w[g.out + 1].lamA

(* AG2PCGammaCheckPass at the garbler, one gate: masks are re-propagated   *)
(* from the masks m before it; an AND takes the bit the evaluator sent.    *)
CheckedMask(w, m, g) ==
    CASE g.op = "Not" -> NotBit(m[g.in0 + 1])
      [] g.op = "Xor" -> XorBit(m[g.in0 + 1], m[g.in1 + 1])
      [] g.op = "And" -> w[g.out + 1].lamB
      [] IsConst(g) -> w[g.out + 1].lamA

(* The garbler's masks after that pass, in wire order.                     *)
GammaCheckMasks(prog, w) ==
    FoldLeft(LAMBDA m, g : Append(m, CheckedMask(w, m, g)),
             [k \in 1 .. prog.num_inputs |-> w[k].lamA], prog.gates)

(* The M1_t witnesses of AND g differ between the parties, in a world of   *)
(* inputs and masks, iff the Lambda bits they hold for its operands select *)
(* MACs that do not cancel.                                                *)
WitnessDiffers(g, w, m, world) ==
    LET d(k) == XorBit(m[k + 1], w[k + 1].lamB)
        pick(k, other) == IF Holds(d(k), world) THEN w[other + 1].share ELSE {}
    IN pick(g.in0, g.in1) # pick(g.in1, g.in0)

(* The assignments to the variables on which the parties' masks disagree.  *)
DisagreeingWorlds(w, m) == SUBSET UNION UNION {XorBit(m[k], w[k].lamB) : k \in DOMAIN w}

GammaPasses(prog, w, m, world) ==
    \A i \in AndGates(prog) : ~WitnessDiffers(prog.gates[i], w, m, world)

(* The end of a run whose garbler holds the masks m: whether the c_gamma   *)
(* check can pass and can fail, and the gathered outputs.  An AND-free run *)
(* skips the exchange of Lambda_AND and with it the garbler's mask pass.   *)
Gather(prog, w, m) ==
    [mayPass |-> \E world \in DisagreeingWorlds(w, m) : GammaPasses(prog, w, m, world),
     mayFail |-> \E world \in DisagreeingWorlds(w, m) : ~GammaPasses(prog, w, m, world),
     out     |-> [k \in DOMAIN prog.outputs |->
                    LET o == prog.outputs[k] + 1
                    IN IF AndGates(prog) = {} THEN w[o] ELSE [w[o] EXCEPT !.lamA = m[o]]]]

CheckAndGather(prog, w) == Gather(prog, w, GammaCheckMasks(prog, w))

run_source(prog, in, draws) == CheckAndGather(prog, EvaluatedWires(prog, in, draws))
=============================================================================
