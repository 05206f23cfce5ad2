------------------------------ MODULE SlotPasses ------------------------------
(***************************************************************************)
(* One run of the engine at one party, pass by pass and gate by gate       *)
(* (engine.h run_source, pass_ctx.h): the liveness pass, the slot / mask   *)
(* pass that maps logical wires to recycled physical slots, and the        *)
(* passes that replay the same gates over those slots: garble and gamma    *)
(* check at the garbler, evaluate at the evaluator.                        *)
(*                                                                         *)
(* A slot holds a share (a set of draws) and an opened mask (a bit), as in *)
(* module Engine, which says what a run computes without any slots.        *)
(* Labels live in the same slots and are written at the same places.       *)
(*                                                                         *)
(* Ghost state: wshare and wmask, what each logical wire should hold.      *)
(***************************************************************************)
EXTENDS Engine

CONSTANTS
    Programs,           \* the canonical programs a run may be given
    Garbler, Evaluator, \* the two parties
    LgBatch             \* shares drawn at a time for AND outputs (kLgBatch)

ASSUME SlotPassesAssumption ==
    /\ Garbler # Evaluator /\ LgBatch \in Nat \ {0}
    /\ \A p \in Programs : p \in BooleanProgram /\ RecordCanonical(p)

VARIABLES
    party, prog,
    pass,               \* the pass that is running
    pc, gi,             \* gates seen in this pass; those that are not constants
    last_use, persist,  \* liveness, indexed by logical wire
    phys,               \* logical wire -> slot (-1: none yet)
    num_slots, freelist,
    wire_slot, mask_input,
    lg_buf, lg_off,     \* drawn shares for AND outputs; how many are used up
    rep,                \* rep_a, rep_b: the operand shares of each AND
    out,                \* the gathered outputs
    wshare, wmask

live == <<last_use, persist>>
slotMap == <<phys, num_slots, freelist, lg_buf, lg_off, rep>>
vars == <<party, prog, pass, pc, gi, live, slotMap, wire_slot, mask_input, out, wshare, wmask>>

num_in == prog.num_inputs
Wires == 0 .. (prog.num_wires - 1)
wid == num_in + pc                      \* the logical wire of the next gate
Now == prog.gates[pc + 1]
more == pc < Len(prog.gates)

(* The bundle given to the run.  A wire's opened mask may differ between   *)
(* the parties (see Engine), so the two are different variables.           *)
InputShare(k) == {k + 1}
InputMask(p, k) == Var(<<"Lambda", p, k>>)

InWires ==
    [k \in 1 .. num_in |-> [share |-> InputShare(k - 1),
                            lamA |-> InputMask(Garbler, k - 1),
                            lamB |-> InputMask(Evaluator, k - 1)]]

Init ==
    /\ party \in {Garbler, Evaluator} /\ prog \in Programs
    /\ pass = "liveness" /\ pc = 0 /\ gi = 0
    /\ last_use = [w \in 0 .. (num_in - 1) |-> -1]
    /\ persist = [w \in 0 .. (num_in - 1) |-> TRUE]
    /\ phys = <<>> /\ num_slots = 0 /\ freelist = <<>> /\ rep = <<>>
    /\ lg_buf = <<>> /\ lg_off = 0
    /\ wire_slot = <<>> /\ mask_input = <<>>
    /\ out = <<>> /\ wshare = <<>> /\ wmask = <<>>

(* A sequence of values indexed from 0, with one more at index n.          *)
Grow(f, n, v) == [i \in 0 .. n |-> IF i = n THEN v ELSE f[i]]

Step == pc' = pc + 1 /\ gi' = IF IsConst(Now) THEN gi ELSE gi + 1

NextPass(p) == pass' = p /\ pc' = 0 /\ gi' = 0
-------------------------------------------------------------------------------
(* Pass 0, AG2PCLivenessPass: one gate of the source.                      *)
LivenessGate ==
    /\ pass = "liveness" /\ more
    /\ last_use' = [w \in 0 .. wid |-> IF w \in Reads(Now) THEN gi
                                       ELSE IF w = wid THEN -1 ELSE last_use[w]]
    /\ persist' = Grow(persist, wid, Now.op = "And")
    /\ Step
    /\ UNCHANGED <<party, prog, pass, slotMap, wire_slot, mask_input, out, wshare, wmask>>

(* Bug: the outputs of the circuit are not pinned.                         *)
PinnedNoOutputs == persist

(* commit: the outputs of the circuit keep their slots to the end.         *)
Pinned == [w \in Wires |-> persist[w] \/ \E k \in DOMAIN prog.outputs : prog.outputs[k] = w]

(* commit, and the input load of run_source: input k gets slot k.          *)
LivenessDone ==
    /\ pass = "liveness" /\ ~more
    /\ persist' = Pinned
    /\ phys' = [w \in Wires |-> IF w < num_in THEN w ELSE -1]
    /\ num_slots' = num_in
    /\ wire_slot' = [s \in 0 .. (num_in - 1) |-> InputShare(s)]
    /\ mask_input' = [s \in 0 .. (num_in - 1) |-> InputMask(party, s)]
    /\ wshare' = [w \in 0 .. (num_in - 1) |-> InputShare(w)]
    /\ wmask' = [w \in 0 .. (num_in - 1) |-> InputMask(party, w)]
    /\ NextPass("slot")
    /\ UNCHANGED <<party, prog, last_use, freelist, lg_buf, lg_off, rep, out>>
-------------------------------------------------------------------------------
(* What the gates compute, from the shares and masks of their operands.    *)
Share(w) == wire_slot[phys[w]]
Mask(w) == mask_input[phys[w]]

FabricShare(g, share(_)) ==
    CASE IsConst(g) -> {}
      [] g.op = "Not" -> share(g.in0)
      [] g.op = "Xor" -> XorShares(share(g.in0), share(g.in1))

FabricMask(g, mask(_)) ==
    CASE IsConst(g) -> ConstBit(g.op = "Const1")
      [] g.op = "Not" -> NotBit(mask(g.in0))
      [] g.op = "Xor" -> XorBit(mask(g.in0), mask(g.in1))

(* The Lambda_gamma the evaluator recovers from the garbled row.           *)
AndMask(g, own, share(_), mask(_)) ==
    LET clear(w) == XorBit(mask(w), Lambda(share(w)))
    IN XorBit(Lambda(own), AndBit(clear(g.in0), clear(g.in1)))

LogicalShare(w) == wshare[w]
LogicalMask(w) == wmask[w]
-------------------------------------------------------------------------------
(* Pass 1, AG2PCSlotMaskPass.                                              *)

Recycles == ~persist[wid] /\ freelist # <<>>

(* alloc_slot: the slot of the new wire, and the freelist without it.      *)
alloc_slot ==
    IF Recycles THEN [slot |-> Last(freelist), free |-> Front(freelist)]
                ELSE [slot |-> num_slots, free |-> freelist]

(* free_if_dead: the slot of a wire at its last read, to go on the freelist*)
free_if_dead(w) == IF ~persist[w] /\ last_use[w] = gi THEN <<phys[w]>> ELSE <<>>

(* Bug: a gate that reads the same wire twice frees it twice.              *)
FreedTwice(g) ==
    CASE IsConst(g) -> <<>>
      [] IsNot(g) -> free_if_dead(g.in0)
      [] OTHER -> free_if_dead(g.in0) \o free_if_dead(g.in1)

(* The slots a gate recycles, in0 first, those of one wire once.           *)
Freed(g) ==
    CASE IsConst(g) -> <<>>
      [] IsNot(g) -> free_if_dead(g.in0)
      [] OTHER -> free_if_dead(g.in0)
                  \o (IF g.in1 # g.in0 THEN free_if_dead(g.in1) ELSE <<>>)

(* The new wire gets slot a.slot, holding share s; operands die after it.  *)
AssignSlot(g, a, s) ==
    /\ phys' = [phys EXCEPT ![wid] = a.slot]
    /\ num_slots' = IF a.slot = num_slots THEN num_slots + 1 ELSE num_slots
    /\ wire_slot' = [i \in 0 .. (num_slots' - 1) |-> IF i = a.slot THEN s ELSE wire_slot[i]]
    /\ mask_input' = [i \in 0 .. (num_slots' - 1) |-> IF i = a.slot THEN ConstBit(g.op = "Const1")
                                                                    ELSE mask_input[i]]
    /\ freelist' = a.free \o Freed(g)

(* The number of the next draw: after the inputs, or after this buffer.    *)
NextDraw == IF lg_buf = <<>> THEN num_in + 1 ELSE Last(lg_buf) + 1

(* next_lambda_gamma: a used-up buffer is replaced by LgBatch fresh draws. *)
next_lambda_gamma ==
    IF lg_off >= Len(lg_buf)
    THEN lg_buf' = [k \in 1 .. LgBatch |-> NextDraw + k - 1] /\ lg_off' = 1
    ELSE lg_off' = lg_off + 1 /\ UNCHANGED lg_buf

(* An AND takes the next drawn share; any other gate computes its own.     *)
SlotGate ==
    /\ pass = "slot" /\ more
    /\ IF Now.op = "And"
       THEN /\ next_lambda_gamma
            /\ AssignSlot(Now, alloc_slot, {lg_buf'[lg_off']})
            /\ rep' = Append(rep, <<Share(Now.in0), Share(Now.in1)>>)
            /\ wshare' = Grow(wshare, wid, {num_in + Len(rep) + 1})
       ELSE /\ AssignSlot(Now, alloc_slot, FabricShare(Now, Share))
            /\ UNCHANGED <<rep, lg_buf, lg_off>>
            /\ wshare' = Grow(wshare, wid, FabricShare(Now, LogicalShare))
    /\ Step
    /\ UNCHANGED <<party, prog, pass, live, out, wmask>>

SlotDone ==
    /\ pass = "slot" /\ ~more
    /\ NextPass(IF party = Garbler THEN "garble" ELSE "evaluate")
    /\ UNCHANGED <<party, prog, live, slotMap, wire_slot, mask_input, out, wshare, wmask>>
-------------------------------------------------------------------------------
(* Pass 2 at the garbler, AG2PCGarblePass: fabric shares are propagated    *)
(* again, the share of an AND output is read where pass 1 put it.          *)
Repropagated ==
    IF Now.op = "And" THEN wire_slot
    ELSE [wire_slot EXCEPT ![phys[wid]] = FabricShare(Now, Share)]

GarbleGate ==
    /\ pass = "garble" /\ more
    /\ wire_slot' = Repropagated
    /\ Step
    /\ UNCHANGED <<party, prog, pass, live, slotMap, mask_input, out, wshare, wmask>>

(* garbler_path_: without AND gates there is no gamma-check pass.          *)
GarbleDone ==
    /\ pass = "garble" /\ ~more
    /\ NextPass(IF rep = <<>> THEN "gather" ELSE "gamma")
    /\ UNCHANGED <<party, prog, live, slotMap, wire_slot, mask_input, out, wshare, wmask>>

(* Bug: the evaluator keeps the shares pass 1 left in the slots.           *)
EvaluateGateStale ==
    /\ pass = "evaluate" /\ more
    /\ mask_input' = [mask_input EXCEPT ![phys[wid]] =
                        IF Now.op = "And" THEN AndMask(Now, Share(wid), Share, Mask)
                                          ELSE FabricMask(Now, Mask)]
    /\ wmask' = Grow(wmask, wid,
                     IF Now.op = "And"
                     THEN AndMask(Now, wshare[wid], LogicalShare, LogicalMask)
                     ELSE FabricMask(Now, LogicalMask))
    /\ Step
    /\ UNCHANGED <<party, prog, pass, live, slotMap, wire_slot, out, wshare>>

(* Pass 2 at the evaluator, AG2PCEvaluatePass.                             *)
EvaluateGate ==
    /\ pass = "evaluate" /\ more
    /\ wire_slot' = Repropagated
    /\ mask_input' = [mask_input EXCEPT ![phys[wid]] =
                        IF Now.op = "And" THEN AndMask(Now, Share(wid), Share, Mask)
                                          ELSE FabricMask(Now, Mask)]
    /\ wmask' = Grow(wmask, wid,
                     IF Now.op = "And"
                     THEN AndMask(Now, wshare[wid], LogicalShare, LogicalMask)
                     ELSE FabricMask(Now, LogicalMask))
    /\ Step
    /\ UNCHANGED <<party, prog, pass, live, slotMap, out, wshare>>

EvaluateDone ==
    /\ pass = "evaluate" /\ ~more
    /\ NextPass("gather")
    /\ UNCHANGED <<party, prog, live, slotMap, wire_slot, mask_input, out, wshare, wmask>>

(* The bits the evaluator sent, one per AND gate.                          *)
Lambda_AND(w) == EvaluatedWires(prog, InWires, num_in)[w + 1].lamB

(* AG2PCGammaCheckPass at the garbler.                                     *)
GammaGate ==
    /\ pass = "gamma" /\ more
    /\ wire_slot' = Repropagated
    /\ mask_input' = [mask_input EXCEPT ![phys[wid]] =
                        IF Now.op = "And" THEN Lambda_AND(wid) ELSE FabricMask(Now, Mask)]
    /\ wmask' = Grow(wmask, wid, IF Now.op = "And" THEN Lambda_AND(wid)
                                                   ELSE FabricMask(Now, LogicalMask))
    /\ Step
    /\ UNCHANGED <<party, prog, pass, live, slotMap, out, wshare>>

GammaDone ==
    /\ pass = "gamma" /\ ~more
    /\ NextPass("gather")
    /\ UNCHANGED <<party, prog, live, slotMap, wire_slot, mask_input, out, wshare, wmask>>

(* The end of run_source: the output bundle.                               *)
GatherOutputs ==
    /\ pass = "gather"
    /\ out' = [k \in DOMAIN prog.outputs |-> [share |-> Share(prog.outputs[k]),
                                              mask  |-> Mask(prog.outputs[k])]]
    /\ pass' = "done"
    /\ UNCHANGED <<party, prog, pc, gi, live, slotMap, wire_slot, mask_input, wshare, wmask>>

Ended == pass = "done" /\ UNCHANGED vars

Next ==
    \/ LivenessGate \/ LivenessDone
    \/ SlotGate \/ SlotDone
    \/ GarbleGate \/ GarbleDone
    \/ EvaluateGate \/ EvaluateDone
    \/ GammaGate \/ GammaDone
    \/ GatherOutputs
    \/ Ended

Spec == Init /\ [][Next]_vars
-------------------------------------------------------------------------------
(* Wires defined so far in this pass that a later gate, or the end of the  *)
(* run, still reads.                                                       *)
LiveWires == {w \in Wires : w < wid /\ (persist[w] \/ last_use[w] >= gi)}

(* While slots are handed out, two wires that are both still needed never  *)
(* have the same slot, and no slot in use is free: whatever the order in   *)
(* which wires die, and for a gate that reads one wire twice.  All of them *)
(* lie inside the slot arrays, and a slot is free at most once.            *)
NoAliasing ==
    pass = "slot" =>
      /\ \A v, w \in LiveWires : phys[v] = phys[w] => v = w
      /\ \A w \in LiveWires : phys[w] \in DOMAIN wire_slot /\ ~Contains(freelist, phys[w])
      /\ ToSet(freelist) \subseteq DOMAIN wire_slot
      /\ IsInjective(freelist)

(* In every pass, at every gate, a slot of a wire that is still needed     *)
(* holds that wire's share, and in the passes that propagate masks its     *)
(* mask: the replays overwrite slots in the order the map was made for.    *)
(* The share of a permanent wire stays in place from pass 1 on, so an AND  *)
(* finds lambda_gamma in the slot of its own output.                       *)
LiveIntact ==
    /\ pass \in {"slot", "garble", "evaluate", "gamma"} =>
         \A w \in LiveWires : Share(w) = wshare[w]
    /\ pass \in {"garble", "evaluate", "gamma", "gather"} =>
         \A w \in Wires : persist[w] => Share(w) = wshare[w]
    /\ pass \in {"evaluate", "gamma"} => \A w \in LiveWires : Mask(w) = wmask[w]

(* What a party sees of the run that Engine describes without slots.       *)
Expected ==
    LET outs == run_source(prog, InWires, num_in).out
    IN [k \in DOMAIN outs |-> [share |-> outs[k].share,
                               mask  |-> IF party = Garbler THEN outs[k].lamA
                                                            ELSE outs[k].lamB]]

(* The passes over recycled slots return exactly the bundle run_source is  *)
(* specified to return, and hand the triple generator, for AND gate after  *)
(* AND gate, the shares of its own operands.                               *)
MatchesEngine ==
    pass = "done" =>
      /\ out = Expected
      /\ Len(rep) = Cardinality(AndGates(prog))
      /\ LET w == EvaluatedWires(prog, InWires, num_in)
         IN \A i \in AndGates(prog) :
              rep[Cardinality({j \in AndGates(prog) : j <= i})] =
                <<w[prog.gates[i].in0 + 1].share, w[prog.gates[i].in1 + 1].share>>
===============================================================================
