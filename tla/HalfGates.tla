------------------------------- MODULE HalfGates -------------------------------
(***************************************************************************)
(* One session of both parties, block by block and message by message:     *)
(* process_inputs, one run of the engine with its garbled rows and the     *)
(* c_gamma exchange, and decode (protocol.h, engine.h, pass_ctx.h).  What  *)
(* module Engine says of shares and masks rests on the equations here.     *)
(*                                                                         *)
(* Wires are logical (module SlotPasses has the slots) and rows travel one *)
(* by one (module GarbleStream has the chunks).  sigma is what TriplePool  *)
(* delivers.  Values are symbolic: a behaviour stands for all inputs,      *)
(* masks, keys, Deltas and labels.                                         *)
(***************************************************************************)
EXTENDS Engine, Duplex

CONSTANTS
    Programs,   \* canonical programs
    Owners,     \* sequences: the owner of each input, or "Zero" / "One" if public
    Recipients  \* of the outputs: a party or "Public"

ASSUME HalfGatesAssumption ==
    /\ \A q \in Programs : q \in BooleanProgram /\ RecordCanonical(q)
    /\ \A o \in Owners : \A k \in DOMAIN o : o[k] \in Party \cup {"Zero", "One"}
    /\ Recipients \subseteq Party \cup {"Public"} /\ "Public" \notin Party

VARIABLES
    prog, owner, recipient,
    at, pc,     \* at[p]: the step party p is about to take; pc[p]: gates done in a pass
    shr,        \* shr[p]: the bundle of each wire
    msk,        \* msk[p]: mask_input, the opened Lambda of each wire
    lab,        \* lab[p]: label0 at the garbler, eval_label at the evaluator
    seed,       \* seed[p]: the half-gate seed, a hash of the transcript
    Lambda_AND, \* Lambda_AND[p]: one bit per AND gate
    M1_t,       \* M1_t[p]: the c_gamma witness of each AND gate
    val         \* val[p]: the outputs as decode returns them

wires == <<shr, msk, lab>>
gamma == <<Lambda_AND, M1_t>>
vars == <<prog, owner, recipient, at, pc, wires, seed, gamma, val, comm>>

NumIn == prog.num_inputs
Inputs == 1 .. NumIn
Secret == {k \in Inputs : owner[k] \in Party}
NumAnds == Cardinality(AndGates(prog))

(* Wires are numbered from 1 here: wire k of the program is at k + 1.      *)
Now(p) == prog.gates[pc[p] + 1]
more(p) == pc[p] < Len(prog.gates)
Id(p) == NumIn + pc[p] + 1
In0(p) == Now(p).in0 + 1
In1(p) == Now(p).in1 + 1

(* How many AND gates are before this one; its place among them.           *)
Ai(p) == Cardinality({i \in AndGates(prog) : i <= pc[p]}) + 1

X(k) == Var(<<"input", k>>)
PublicBit(k) == ConstBit(owner[k] = "One")
ClearInput(k) == IF k \in Secret THEN X(k) ELSE PublicBit(k)

(* The draws behind each wire's share: input k is draw k, AND i the draw   *)
(* after the inputs and the earlier ANDs.                                  *)
DrawsOf ==
    LET w == EvaluatedWires(prog, [k \in Inputs |-> IF k \in Secret THEN InputWire(k, X(k))
                                                    ELSE PublicWire(PublicBit(k))], NumIn)
    IN [k \in DOMAIN w |-> w[k].share]

(* public_wires: no communication.                                         *)
PublicLabel(p, k) == IF p = Garbler THEN PublicBit(k) ** Delta(p) ELSE Zero

Init ==
    /\ prog \in Programs
    /\ owner \in {o \in Owners : Len(o) = NumIn} /\ recipient \in Recipients
    /\ at = [p \in Party |-> IF Secret = {} THEN "seed" ELSE "inputs"]
    /\ pc = [p \in Party |-> 0]
    /\ shr = [p \in Party |-> [k \in Inputs |-> WireShare(p, IF k \in Secret THEN {k} ELSE {})]]
    /\ msk = [p \in Party |-> [k \in Inputs |-> PublicBit(k)]]
    /\ lab = [p \in Party |-> [k \in Inputs |->
                IF k \notin Secret THEN PublicLabel(p, k)
                ELSE IF p = Garbler THEN Var(<<"Label", k>>) ELSE Zero]]
    /\ seed = [p \in Party |-> <<>>]
    /\ Lambda_AND = [p \in Party |-> <<>>] /\ M1_t = [p \in Party |-> <<>>]
    /\ val = [p \in Party |-> <<>>]
    /\ CommInit

At(p, step) == at[p] = step
Goto(p, step) == at' = [at EXCEPT ![p] = step]
-------------------------------------------------------------------------------
(* process_inputs.  An authenticated opening of share bits: the bits, and  *)
(* the hash of their MACs.                                                 *)
Opening(p, ks) == [bits |-> [k \in ks |-> LSB(shr[p][k].mac)], D |-> [k \in ks |-> shr[p][k].mac]]

(* The MACs the keys of party p predict for the opened bits.               *)
Verified(p, m, ks) == m.D = [k \in ks |-> shr[p][k].key ++ (m.bits[k] ** Delta(p))]

InputsSend(p) ==
    /\ At(p, "inputs")
    /\ Send(p, send_io(p), [open |-> Opening(p, Secret),
                            x |-> [k \in {j \in Secret : owner[j] = p} |-> X(k)]])
    /\ Goto(p, "open")
    /\ UNCHANGED <<prog, owner, recipient, pc, wires, seed, gamma, val>>

(* Bug: the bits of the wires the peer owns are not folded in.             *)
ReconstructedOwnOnly(p, m, k) ==
    LSB(shr[p][k].mac) ++ m.open.bits[k] ++ (IF owner[k] = p THEN X(k) ELSE Zero)

(* Lambda_w = both share bits, plus the owner's bit, mine or the peer's.   *)
Reconstructed(p, m, k) ==
    LSB(shr[p][k].mac) ++ m.open.bits[k] ++ (IF owner[k] = p THEN X(k) ELSE m.x[k])

(* The garbler goes on to send the labels m_{w,Lambda_w}.                  *)
InputsRecv(p) ==
    /\ At(p, "open") /\ Arrived(recv_io(p))
    /\ LET m == Head(wire[recv_io(p)])
       IN IF Verified(p, m.open, Secret)
          THEN /\ msk' = [msk EXCEPT ![p] = [k \in Inputs |->
                            IF k \in Secret THEN Reconstructed(p, m, k) ELSE @[k]]]
               /\ Goto(p, "labels")
          ELSE Goto(p, "abort") /\ UNCHANGED msk
    /\ Recv(p, recv_io(p))
    /\ UNCHANGED <<prog, owner, recipient, pc, shr, lab, seed, gamma, val>>

LabelsSend ==
    /\ At(Garbler, "labels")
    /\ Send(Garbler, "io", [k \in Secret |->
                              lab[Garbler][k] ++ (msk[Garbler][k] ** Delta(Garbler))])
    /\ Goto(Garbler, "seed")
    /\ UNCHANGED <<prog, owner, recipient, pc, wires, seed, gamma, val>>

LabelsRecv ==
    /\ At(Evaluator, "labels") /\ Arrived("io")
    /\ lab' = [lab EXCEPT ![Evaluator] = [k \in Inputs |->
                 IF k \in Secret THEN Head(wire["io"])[k] ELSE @[k]]]
    /\ Recv(Evaluator, "io")
    /\ Goto(Evaluator, "seed")
    /\ UNCHANGED <<prog, owner, recipient, pc, shr, msk, seed, gamma, val>>
-------------------------------------------------------------------------------
(* run_source up to pass 2: pass 1 gives every wire its share and sets the *)
(* masks of the gates to 0, or to the bit of a constant; the seed of the   *)
(* half-gate hash is taken from the transcript.                            *)
GateMask(g) == ConstBit(g.op = "Const1")

Prepare(p) ==
    /\ At(p, "seed")
    /\ shr' = [shr EXCEPT ![p] = [k \in 1 .. prog.num_wires |-> WireShare(p, DrawsOf[k])]]
    /\ msk' = [msk EXCEPT ![p] = [k \in 1 .. prog.num_wires |->
                 IF k \in Inputs THEN @[k] ELSE GateMask(prog.gates[k - NumIn])]]
    /\ seed' = [seed EXCEPT ![p] = Transcript(p)]
    /\ Goto(p, IF p = Garbler THEN "garble" ELSE "evaluate")
    /\ UNCHANGED <<prog, owner, recipient, pc, lab, gamma, val, comm>>

(* What compute_inplace delivers for the j-th AND, of operand masks with   *)
(* product prod: an authentic share of it (TriplePool!SigmaCorrect).       *)
SigmaShare(p, j, prod) ==
    LET bit(q) == IF q = Garbler THEN ShareBit(Garbler, -j) ELSE ShareBit(Garbler, -j) ++ prod
    IN [mac |-> KeyOf(Peer(p), -j) ++ (bit(p) ** Delta(Peer(p))), key |-> KeyOf(p, -j)]

Sigma(p) ==
    SigmaShare(p, Ai(p), MaskOf(DrawsOf[In0(p)]) ** MaskOf(DrawsOf[In1(p)]))

NextGate(p) == pc' = [pc EXCEPT ![p] = @ + 1]
-------------------------------------------------------------------------------
(* Pass 2 at the garbler.                                                  *)
Half(w, t) == HashOf(w, Garbler, t)
Flip(w) == w ++ Delta(Garbler)

(* Own share bit times Delta, plus the key: the garbler's part of the bit. *)
KeyPart(s) == s.key ++ (LSB(s.mac) ** Delta(Garbler))

(* The output label and the row of one AND.                                *)
OutLabel(a, b, sig, g, t) == Half(a, t) ++ Half(b, t) ++ KeyPart(sig) ++ KeyPart(g)

Row(a, b, sa, sb, m, t) ==
    [G0 |-> Half(a, t) ++ Half(Flip(a), t) ++ KeyPart(sb),
     G1 |-> Half(b, t) ++ Half(Flip(b), t) ++ a ++ KeyPart(sa),
     b  |-> LSB1(m)]

AddLabel(p, l) == lab' = [lab EXCEPT ![p] = Append(@, l)]

(* Bug: the garbler does not offset the label of a NOT.                    *)
FabricLabel0NoFlip(l, g) ==
    CASE IsConst(g) -> GateMask(g) ** Delta(Garbler)
      [] g.op = "Not" -> l[g.in0 + 1]
      [] g.op = "Xor" -> l[g.in0 + 1] ++ l[g.in1 + 1]

FabricLabel0(l, g) ==
    CASE IsConst(g) -> GateMask(g) ** Delta(Garbler)
      [] g.op = "Not" -> Flip(l[g.in0 + 1])
      [] g.op = "Xor" -> l[g.in0 + 1] ++ l[g.in1 + 1]

GarbleFabric ==
    /\ At(Garbler, "garble") /\ more(Garbler) /\ Now(Garbler).op # "And"
    /\ AddLabel(Garbler, FabricLabel0(lab[Garbler], Now(Garbler)))
    /\ NextGate(Garbler)
    /\ UNCHANGED <<prog, owner, recipient, at, shr, msk, seed, gamma, val, comm>>

GarbleAnd ==
    /\ At(Garbler, "garble") /\ more(Garbler) /\ Now(Garbler).op = "And"
    /\ LET l == lab[Garbler]
           s == shr[Garbler]
           a == In0(Garbler)
           b == In1(Garbler)
           t == <<seed[Garbler], Ai(Garbler)>>
       IN /\ AddLabel(Garbler, OutLabel(l[a], l[b], Sigma(Garbler), s[Id(Garbler)], t))
          /\ Send(Garbler, "io", Row(l[a], l[b], s[a], s[b], Last(lab'[Garbler]), t))
    /\ NextGate(Garbler)
    /\ UNCHANGED <<prog, owner, recipient, at, shr, msk, seed, gamma, val>>

(* garbler_path_: the gamma pass follows only if there was an AND gate.    *)
GarbleDone ==
    /\ At(Garbler, "garble") /\ ~more(Garbler)
    /\ Goto(Garbler, IF NumAnds > 0 THEN "Lambda_AND" ELSE "decode")
    /\ UNCHANGED <<prog, owner, recipient, pc, wires, seed, gamma, val, comm>>
-------------------------------------------------------------------------------
(* Pass 2 at the evaluator.                                                *)

(* The mask bits select the MACs to cancel the keys in the row.            *)
MacPart(sig, g, sa, sb, La, Lb) == sig.mac ++ g.mac ++ (La ** sb.mac) ++ (Lb ** sa.mac)

EvalLabel(ea, eb, row, La, Lb, mr, t) ==
    Half(ea, t) ++ Half(eb, t) ++ (La ** row.G0) ++ (Lb ** (row.G1 ++ ea)) ++ mr

(* Bug: the witness leaves out the evaluator's share of sigma.             *)
WitnessNoSigma(sig, g, sa, sb, La, Lb, Lg) ==
    LET t1 == (La ** Lb) ++ Lg ++ (La ** LSB(sb.mac)) ++ (Lb ** LSB(sa.mac)) ++ LSB(g.mac)
    IN (t1 ** Delta(Evaluator)) ++ (La ** sb.key) ++ (Lb ** sa.key) ++ sig.key ++ g.key

(* M1_t at the evaluator: its keys, and Delta if its half of the equation  *)
(* (Lambda_a + a)(Lambda_b + b) = Lambda_g + g is 1.                       *)
Witness(sig, g, sa, sb, La, Lb, Lg) ==
    LET t1 == (La ** Lb) ++ Lg ++ (La ** LSB(sb.mac)) ++ (Lb ** LSB(sa.mac))
              ++ LSB(sig.mac) ++ LSB(g.mac)
    IN (t1 ** Delta(Evaluator)) ++ (La ** sb.key) ++ (Lb ** sa.key) ++ sig.key ++ g.key

FabricMask(p) ==
    LET m == msk[p] g == Now(p)
    IN CASE IsConst(g) -> GateMask(g)
         [] g.op = "Not" -> NotBit(m[In0(p)])
         [] g.op = "Xor" -> m[In0(p)] ++ m[In1(p)]

SetMask(p, b) == msk' = [msk EXCEPT ![p][Id(p)] = b]

FabricEvalLabel(l, g) ==
    CASE IsConst(g) -> Zero
      [] g.op = "Not" -> l[g.in0 + 1]
      [] g.op = "Xor" -> l[g.in0 + 1] ++ l[g.in1 + 1]

EvaluateFabric ==
    /\ At(Evaluator, "evaluate") /\ more(Evaluator) /\ Now(Evaluator).op # "And"
    /\ AddLabel(Evaluator, FabricEvalLabel(lab[Evaluator], Now(Evaluator)))
    /\ SetMask(Evaluator, FabricMask(Evaluator))
    /\ NextGate(Evaluator)
    /\ UNCHANGED <<prog, owner, recipient, at, shr, seed, gamma, val, comm>>

EvaluateAnd ==
    /\ At(Evaluator, "evaluate") /\ more(Evaluator) /\ Now(Evaluator).op = "And"
    /\ Arrived("io")
    /\ LET s == shr[Evaluator]
           m == msk[Evaluator]
           l == lab[Evaluator]
           a == In0(Evaluator)
           b == In1(Evaluator)
           g == s[Id(Evaluator)]
           row == Head(wire["io"])
           Lg == row.b ++ LSB1(Last(lab'[Evaluator]))
       IN /\ AddLabel(Evaluator, EvalLabel(l[a], l[b], row, m[a], m[b],
                                           MacPart(Sigma(Evaluator), g, s[a], s[b], m[a], m[b]),
                                           <<seed[Evaluator], Ai(Evaluator)>>))
          /\ SetMask(Evaluator, Lg)
          /\ Lambda_AND' = [Lambda_AND EXCEPT ![Evaluator] = Append(@, Lg)]
          /\ M1_t' = [M1_t EXCEPT ![Evaluator] =
                        Append(@, Witness(Sigma(Evaluator), g, s[a], s[b], m[a], m[b], Lg))]
    /\ Recv(Evaluator, "io")
    /\ NextGate(Evaluator)
    /\ UNCHANGED <<prog, owner, recipient, at, shr, seed, val>>

(* evaluator_path_: Lambda_AND goes out on io.                             *)
EvaluateDone ==
    /\ At(Evaluator, "evaluate") /\ ~more(Evaluator)
    /\ IF NumAnds > 0
       THEN Send(Evaluator, "io_back", Lambda_AND[Evaluator]) /\ Goto(Evaluator, "c_gamma")
       ELSE Goto(Evaluator, "decode") /\ UNCHANGED comm
    /\ UNCHANGED <<prog, owner, recipient, pc, wires, seed, gamma, val>>
-------------------------------------------------------------------------------
(* The c_gamma exchange.                                                   *)
LambdaRecv ==
    /\ At(Garbler, "Lambda_AND") /\ Arrived("io_back")
    /\ Lambda_AND' = [Lambda_AND EXCEPT ![Garbler] = Head(wire["io_back"])]
    /\ Recv(Garbler, "io_back")
    /\ pc' = [pc EXCEPT ![Garbler] = 0]
    /\ Goto(Garbler, "gamma")
    /\ UNCHANGED <<prog, owner, recipient, wires, seed, M1_t, val>>

(* AG2PCGammaCheckPass: masks again from the inputs, and the garbler's     *)
(* witness from its MACs.                                                  *)
GammaGate ==
    /\ At(Garbler, "gamma") /\ more(Garbler)
    /\ LET s == shr[Garbler]
           m == msk[Garbler]
           a == In0(Garbler)
           b == In1(Garbler)
       IN IF Now(Garbler).op = "And"
          THEN /\ SetMask(Garbler, Lambda_AND[Garbler][Ai(Garbler)])
               /\ M1_t' = [M1_t EXCEPT ![Garbler] =
                    Append(@, MacPart(Sigma(Garbler), s[Id(Garbler)], s[a], s[b], m[a], m[b]))]
          ELSE SetMask(Garbler, FabricMask(Garbler)) /\ UNCHANGED M1_t
    /\ NextGate(Garbler)
    /\ UNCHANGED <<prog, owner, recipient, at, shr, lab, seed, Lambda_AND, val, comm>>

GammaDone ==
    /\ At(Garbler, "gamma") /\ ~more(Garbler)
    /\ Send(Garbler, "io", M1_t[Garbler])
    /\ Goto(Garbler, "decode")
    /\ UNCHANGED <<prog, owner, recipient, pc, wires, seed, gamma, val>>

GammaVerify ==
    /\ At(Evaluator, "c_gamma") /\ Arrived("io")
    /\ Recv(Evaluator, "io")
    /\ Goto(Evaluator, IF Head(wire["io"]) = M1_t[Evaluator] THEN "decode" ELSE "abort")
    /\ UNCHANGED <<prog, owner, recipient, pc, wires, seed, gamma, val>>
-------------------------------------------------------------------------------
(* decode.  A PUBLIC reveal goes to the evaluator, which broadcasts.       *)
Opener == IF recipient = Garbler THEN Evaluator ELSE Garbler
Reader == Peer(Opener)
FromOpener == IF Opener = Garbler THEN "io" ELSE "io_back"
OutWires == {prog.outputs[k] + 1 : k \in DOMAIN prog.outputs}
AfterDecode == IF recipient = "Public" THEN "broadcast" ELSE "done"

DecodeSend ==
    /\ At(Opener, "decode")
    /\ Send(Opener, FromOpener, Opening(Opener, OutWires))
    /\ Goto(Opener, AfterDecode)
    /\ UNCHANGED <<prog, owner, recipient, pc, wires, seed, gamma, val>>

(* Bug: the reader leaves out its own share.                               *)
UnmaskOneShare(p, m, k) == msk[p][k] ++ m.bits[k]

(* The cleartext: Lambda and both share bits.                              *)
Unmask(p, m, k) == LSB(shr[p][k].mac) ++ msk[p][k] ++ m.bits[k]

DecodeRecv ==
    /\ At(Reader, "decode") /\ Arrived(FromOpener)
    /\ LET m == Head(wire[FromOpener])
       IN IF Verified(Reader, m, OutWires)
          THEN /\ val' = [val EXCEPT ![Reader] =
                            [k \in DOMAIN prog.outputs |-> Unmask(Reader, m, prog.outputs[k] + 1)]]
               /\ Goto(Reader, AfterDecode)
          ELSE Goto(Reader, "abort") /\ UNCHANGED val
    /\ Recv(Reader, FromOpener)
    /\ UNCHANGED <<prog, owner, recipient, pc, wires, seed, gamma>>

BroadcastSend ==
    /\ At(Evaluator, "broadcast")
    /\ Send(Evaluator, "io_back", val[Evaluator])
    /\ Goto(Evaluator, "done")
    /\ UNCHANGED <<prog, owner, recipient, pc, wires, seed, gamma, val>>

BroadcastRecv ==
    /\ At(Garbler, "broadcast") /\ Arrived("io_back")
    /\ val' = [val EXCEPT ![Garbler] = Head(wire["io_back"])]
    /\ Recv(Garbler, "io_back")
    /\ Goto(Garbler, "done")
    /\ UNCHANGED <<prog, owner, recipient, pc, wires, seed, gamma>>

Finished == (\A p \in Party : at[p] = "done") /\ UNCHANGED vars

Next ==
    \/ \E p \in Party : InputsSend(p) \/ InputsRecv(p) \/ Prepare(p)
    \/ LabelsSend \/ LabelsRecv
    \/ GarbleFabric \/ GarbleAnd \/ GarbleDone
    \/ EvaluateFabric \/ EvaluateAnd \/ EvaluateDone
    \/ LambdaRecv \/ GammaGate \/ GammaDone \/ GammaVerify
    \/ DecodeSend \/ DecodeRecv \/ BroadcastSend \/ BroadcastRecv
    \/ Finished

Spec == Init /\ [][Next]_vars
-------------------------------------------------------------------------------
(* The value of each wire in the clear.                                    *)
Clear == ClearEval(prog, [k \in Inputs |-> ClearInput(k)])

(* On every wire the evaluator has reached, its label is the garbler's     *)
(* m_{w,0}, plus the garbler's Delta iff the wire's Lambda is 1: through   *)
(* inputs, constants, XOR, NOT and AND, also when both operands are one    *)
(* wire.  The next row can only be opened if this holds.                   *)
LabelsMatch ==
    At(Evaluator, "evaluate") =>
      \A k \in DOMAIN lab[Evaluator] : k \in DOMAIN lab[Garbler] =>
        lab[Evaluator][k] = lab[Garbler][k] ++ (msk[Evaluator][k] ** Delta(Garbler))

(* The Lambda recovered from LSB1 of the label and the bit in the row is   *)
(* the one that masks the clear value of the wire; from the gamma pass on  *)
(* the garbler has it too.  This is what Engine takes for granted.         *)
MasksCorrect ==
    /\ at[Evaluator] \notin {"inputs", "open"} =>
         \A k \in DOMAIN lab[Evaluator] : msk[Evaluator][k] = Clear[k] ++ MaskOf(DrawsOf[k])
    /\ At(Garbler, "decode") /\ NumAnds > 0 =>
         \A k \in DOMAIN msk[Garbler] : msk[Garbler][k] = Clear[k] ++ MaskOf(DrawsOf[k])

(* Both parties seed the half-gate hash at the same point of the           *)
(* transcript, although the garbler may already have sent rows when the    *)
(* evaluator gets there.                                                   *)
SeedsAgree ==
    seed[Garbler] # <<>> /\ seed[Evaluator] # <<>> => seed[Garbler] = seed[Evaluator]

(* No check fails between two parties that follow the protocol: the MAC    *)
(* hashes of process_inputs and decode, and the digest of the c_gamma      *)
(* witnesses, which one party computes from MACs and the other from keys.  *)
NoHonestAbort ==
    /\ \A p \in Party : at[p] # "abort"
    /\ \A j \in DOMAIN M1_t[Garbler] : M1_t[Garbler][j] = M1_t[Evaluator][j]

(* decode returns the clear outputs.  (At the garbler after an AND-free    *)
(* run it may not: see RevealCorrect in module AG2PCSession.)              *)
DecodeCorrect ==
    \A p \in Party : val[p] # <<>> /\ (recipient # Garbler \/ NumAnds > 0) =>
      val[p] = [k \in DOMAIN prog.outputs |-> Clear[prog.outputs[k] + 1]]
================================================================================
