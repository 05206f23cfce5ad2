--------------------------- MODULE HalfGates_proofs ---------------------------
(***************************************************************************)
(* Proofs about HalfGates, for every program, every assignment of inputs   *)
(* to parties and every recipient, and every interleaving of the parties:  *)
(* the half-gate hash is seeded at the same point of the transcript at     *)
(* both parties, the labels of the evaluator follow those of the garbler,  *)
(* the masks are right, no check fails, and the outputs are decoded right. *)
(*                                                                         *)
(* What a run computes is a function of the run alone (Runs), so that the  *)
(* invariant can say of each party's tables, of each message under way and *)
(* of the counts of messages what they are (RunInv).                       *)
(***************************************************************************)
EXTENDS HalfGates, Engine_proofs, Blocks_proofs, TLAPS

(* The steps up to the seed; the ones after it.                            *)
Setup == {"inputs", "open", "labels", "seed"}
Later == {"garble", "evaluate", "Lambda_AND", "c_gamma", "gamma", "decode", "broadcast",
          "done", "abort"}

(* What party p has sent and read before each of its first steps, if the   *)
(* wires in S are secret: each party opens its share bits, then the        *)
(* garbler sends the labels; without secret inputs nothing is sent.        *)
Counted(p, a, S) ==
    [c \in Channel |->
       CASE a = "open" /\ c = send_io(p)    -> 1
         [] a = "labels" /\ c # "io_back"   -> 1
         [] a = "seed" /\ c = "io" /\ S # {}  -> 2
         [] a = "seed" /\ c = "sib" /\ S # {} -> 1
         [] OTHER                           -> 0]

(* The transcript at which the seed is taken.                              *)
SeedPoint == Counted(Garbler, "seed", Secret)

SeedInv ==
    /\ at \in [Party -> Setup \cup Later]
    /\ seen \in [Party -> [Channel -> Nat]]
    /\ DOMAIN seed = Party
    /\ \A p \in Party :
         /\ at[p] \in {"inputs", "open", "labels"} => Secret # {}
         /\ at[p] \in Setup => seen[p] = Counted(p, at[p], Secret)
         /\ seed[p] # <<>> => seed[p] = SeedPoint
-------------------------------------------------------------------------------
(* At the seed the roles no longer matter.                                 *)
LEMMA SameAtSeed == ASSUME NEW p \in Party PROVE Counted(p, "seed", Secret) = SeedPoint
BY DEF Counted, SeedPoint

(* A step of party p alone, from step b to step a.                         *)
LEMMA Advanced ==
    ASSUME SeedInv, NEW p \in Party, NEW a \in Setup \cup Later, NEW d \in [Channel -> Nat],
           Goto(p, a), seen' = [seen EXCEPT ![p] = d], UNCHANGED <<prog, owner>>,
           DOMAIN seed' = Party, \A q \in Party \ {p} : seed'[q] = seed[q],
           seed'[p] # <<>> => seed'[p] = SeedPoint,
           a \in {"inputs", "open", "labels"} => Secret # {},
           a \in Setup => d = Counted(p, a, Secret)
    PROVE  SeedInv'
<1>1. Secret' = Secret
  BY DEF Secret, Inputs, NumIn
<1>2. SeedPoint' = SeedPoint
  BY <1>1 DEF SeedPoint
<1>3. /\ at' = [at EXCEPT ![p] = a] /\ at \in [Party -> Setup \cup Later]
      /\ seen \in [Party -> [Channel -> Nat]]
  BY DEF SeedInv, Goto
<1>4. at' \in [Party -> Setup \cup Later] /\ seen' \in [Party -> [Channel -> Nat]]
  BY <1>3
<1>5. ASSUME NEW q \in Party
      PROVE  /\ at'[q] \in {"inputs", "open", "labels"} => Secret' # {}
             /\ at'[q] \in Setup => seen'[q] = Counted(q, at'[q], Secret')
             /\ seed'[q] # <<>> => seed'[q] = SeedPoint'
  <2>1. CASE q = p
    BY <1>1, <1>2, <1>3, <2>1
  <2>2. CASE q # p
    <3>1. at'[q] = at[q] /\ seen'[q] = seen[q] /\ seed'[q] = seed[q]
      BY <1>3, <2>2
    <3> QED
      BY <1>1, <1>2, <3>1 DEF SeedInv
  <2> QED
    BY <2>1, <2>2
<1> QED
  BY <1>1, <1>2, <1>4, <1>5 DEF SeedInv

(* Sending or reading on one channel.                                      *)
LEMMA OneMore ==
    ASSUME SeedInv, NEW p \in Party, NEW c \in Channel, NEW msg,
           Send(p, c, msg) \/ Recv(p, c)
    PROVE  /\ [seen[p] EXCEPT ![c] = @ + 1] \in [Channel -> Nat]
           /\ seen' = [seen EXCEPT ![p] = [seen[p] EXCEPT ![c] = @ + 1]]
BY DEF SeedInv, Send, Recv

(* The counts of the first exchanges.                                      *)
LEMMA SetupCounts ==
    ASSUME NEW p \in Party, NEW S, S # {}
    PROVE  /\ [Counted(p, "inputs", S) EXCEPT ![send_io(p)] = @ + 1] = Counted(p, "open", S)
           /\ [Counted(p, "open", S) EXCEPT ![recv_io(p)] = @ + 1] = Counted(p, "labels", S)
           /\ [Counted(p, "labels", S) EXCEPT !["io"] = @ + 1] = Counted(p, "seed", S)
<1> DEFINE o == send_io(p)
           i == recv_io(p)
<1>1. o # i /\ {o, i} = {"io", "sib"} /\ Channel = {"io", "io_back", "sib"}
  BY PartyAssumption DEF Party, Peer, send_io, recv_io, Channel
<1>2. /\ Counted(p, "inputs", S) = [c \in Channel |-> 0]
      /\ Counted(p, "open", S) = [c \in Channel |-> IF c = o THEN 1 ELSE 0]
      /\ Counted(p, "labels", S) = [c \in Channel |-> IF c = "io_back" THEN 0 ELSE 1]
      /\ Counted(p, "seed", S) =
           [c \in Channel |-> IF c = "io" THEN 2 ELSE IF c = "sib" THEN 1 ELSE 0]
  BY DEF Counted
<1> HIDE DEF o, i
<1>3. [Counted(p, "inputs", S) EXCEPT ![o] = @ + 1] = Counted(p, "open", S)
  BY <1>1, <1>2
<1>4. [Counted(p, "open", S) EXCEPT ![i] = @ + 1] = Counted(p, "labels", S)
  BY <1>1, <1>2
<1>5. [Counted(p, "labels", S) EXCEPT !["io"] = @ + 1] = Counted(p, "seed", S)
  BY <1>1, <1>2
<1> QED
  BY <1>3, <1>4, <1>5 DEF o, i

(* A step after the seed, or to an abort, that sends or reads at most once.*)
LEMMA LaterStep ==
    ASSUME SeedInv, NEW p \in Party, NEW a \in Later, Goto(p, a), UNCHANGED <<prog, owner, seed>>,
           NEW c \in Channel, NEW msg,
           UNCHANGED seen \/ Send(p, c, msg) \/ Recv(p, c)
    PROVE  SeedInv'
<1>1. PICK d \in [Channel -> Nat] : seen' = [seen EXCEPT ![p] = d]
  <2>1. CASE UNCHANGED seen
    <3>1. seen' = [seen EXCEPT ![p] = seen[p]] /\ seen[p] \in [Channel -> Nat]
      BY <2>1 DEF SeedInv
    <3> QED
      BY <3>1
  <2>2. CASE Send(p, c, msg) \/ Recv(p, c)
    BY <2>2, OneMore
  <2> QED
    BY <2>1, <2>2
<1>2. a \notin Setup /\ a \notin {"inputs", "open", "labels"}
  BY DEF Later, Setup
<1>3. DOMAIN seed = Party /\ (seed[p] # <<>> => seed[p] = SeedPoint)
  BY DEF SeedInv
<1> QED
  BY <1>1, <1>2, <1>3, Advanced

(* A step of the first exchange, which sends or reads once.                *)
LEMMA SetupStep ==
    ASSUME SeedInv, NEW p \in Party, NEW a \in {"open", "labels", "seed"}, Goto(p, a),
           at[p] \in {"inputs", "open", "labels"},
           UNCHANGED <<prog, owner, seed>>, NEW c \in Channel, NEW msg,
           Send(p, c, msg) \/ Recv(p, c),
           [Counted(p, at[p], Secret) EXCEPT ![c] = @ + 1] = Counted(p, a, Secret)
    PROVE  SeedInv'
<1>1. /\ seen' = [seen EXCEPT ![p] = Counted(p, a, Secret)]
      /\ Counted(p, a, Secret) \in [Channel -> Nat]
  <2>1. seen[p] = Counted(p, at[p], Secret)
    BY DEF SeedInv, Setup
  <2> QED
    BY <2>1, OneMore
<1>2. Secret # {} /\ DOMAIN seed = Party /\ (seed[p] # <<>> => seed[p] = SeedPoint)
  BY DEF SeedInv
<1>3. a \in Setup \cup Later
  BY DEF Setup
<1> QED
  BY <1>1, <1>2, <1>3, Advanced

(* The initial state.                                                      *)
LEMMA InitSeedInv == Init => SeedInv
<1> SUFFICES ASSUME Init PROVE SeedInv
  OBVIOUS
<1>1. /\ at = [p \in Party |-> IF Secret = {} THEN "seed" ELSE "inputs"]
      /\ seen = [p \in Party |-> [c \in Channel |-> 0]]
      /\ seed = [p \in Party |-> <<>>]
  BY DEF Init, CommInit
<1>2. at \in [Party -> Setup \cup Later] /\ seen \in [Party -> [Channel -> Nat]]
  BY <1>1 DEF Setup
<1>3. ASSUME NEW p \in Party
      PROVE  /\ at[p] \in {"inputs", "open", "labels"} => Secret # {}
             /\ at[p] \in Setup => seen[p] = Counted(p, at[p], Secret)
             /\ seed[p] = <<>>
  BY <1>1 DEF Counted
<1> QED
  BY <1>1, <1>2, <1>3 DEF SeedInv

(* Every step of either party.                                             *)
LEMMA StepSeedInv == SeedInv /\ [Next]_vars => SeedInv'
<1> SUFFICES ASSUME SeedInv, [Next]_vars PROVE SeedInv'
  OBVIOUS
<1>0. /\ Garbler \in Party /\ Evaluator \in Party /\ Opener \in Party /\ Reader \in Party
      /\ {"io", "io_back"} \subseteq Channel /\ FromOpener \in Channel
  BY DEF Party, Opener, Reader, Peer, FromOpener, Channel
<1>1. ASSUME NEW p \in Party
      PROVE  send_io(p) \in Channel /\ recv_io(p) \in Channel
  BY DEF send_io, recv_io, Channel
<1>2. ASSUME NEW p \in Party, at[p] \in {"inputs", "open", "labels"} PROVE Secret # {}
  BY <1>2 DEF SeedInv
<1>3. ASSUME NEW p \in Party, InputsSend(p) PROVE SeedInv'
  <2>1. PICK msg : /\ at[p] = "inputs" /\ Goto(p, "open") /\ Send(p, send_io(p), msg)
                   /\ UNCHANGED <<prog, owner, seed>>
    BY <1>3 DEF InputsSend, At
  <2> QED
    BY <1>1, <1>2, <2>1, SetupCounts, SetupStep
<1>4. ASSUME NEW p \in Party, InputsRecv(p) PROVE SeedInv'
  <2>1. /\ at[p] = "open" /\ Recv(p, recv_io(p)) /\ UNCHANGED <<prog, owner, seed>>
        /\ Goto(p, "labels") \/ Goto(p, "abort")
    BY <1>4 DEF InputsRecv, At
  <2>2. "abort" \in Later
    BY DEF Later
  <2> QED
    BY <1>1, <1>2, <2>1, <2>2, SetupCounts, SetupStep, LaterStep
<1>5. CASE LabelsSend \/ LabelsRecv
  <2>1. PICK p \in Party : /\ at[p] = "labels" /\ Goto(p, "seed")
                           /\ \E msg : Send(p, "io", msg) \/ Recv(p, "io")
                           /\ UNCHANGED <<prog, owner, seed>>
    BY <1>0, <1>5 DEF LabelsSend, LabelsRecv, At
  <2> QED
    BY <1>0, <1>2, <2>1, SetupCounts, SetupStep
<1>6. ASSUME NEW p \in Party, Prepare(p) PROVE SeedInv'
  <2>1. /\ at[p] = "seed" /\ UNCHANGED <<prog, owner, seen>>
        /\ seed' = [seed EXCEPT ![p] = seen[p]]
        /\ Goto(p, IF p = Garbler THEN "garble" ELSE "evaluate")
    BY <1>6 DEF Prepare, At, Transcript, comm
  <2>2. seen[p] = SeedPoint
    BY <2>1, SameAtSeed DEF SeedInv, Setup
  <2>3. /\ seen' = [seen EXCEPT ![p] = seen[p]] /\ seen[p] \in [Channel -> Nat]
        /\ DOMAIN seed = Party
    BY <2>1 DEF SeedInv
  <2>4. /\ DOMAIN seed' = Party /\ \A q \in Party \ {p} : seed'[q] = seed[q]
        /\ seed'[p] = SeedPoint
    BY <2>1, <2>2, <2>3
  <2>5. \A a \in {"garble", "evaluate"} : a \in Later /\ a \notin Setup
    BY DEF Later, Setup
  <2> QED
    BY <2>1, <2>3, <2>4, <2>5, Advanced DEF Setup
<1>7. CASE GarbleFabric \/ EvaluateFabric \/ GammaGate \/ UNCHANGED vars
  <2>1. UNCHANGED <<prog, owner, at, seen, seed>>
    BY <1>7 DEF GarbleFabric, EvaluateFabric, GammaGate, vars, comm
  <2>2. UNCHANGED <<Secret, SeedPoint>>
    BY <2>1 DEF Secret, Inputs, NumIn, SeedPoint
  <2> QED
    BY <2>1, <2>2 DEF SeedInv
<1>8. CASE GarbleAnd \/ EvaluateAnd
  <2>1. PICK p \in Party : /\ at[p] \in {"garble", "evaluate"} /\ UNCHANGED at
                           /\ \E msg : Send(p, "io", msg) \/ Recv(p, "io")
                           /\ UNCHANGED <<prog, owner, seed>>
    BY <1>0, <1>8 DEF GarbleAnd, EvaluateAnd, At
  <2>2. at[p] \in Later /\ Goto(p, at[p])
    BY <2>1 DEF Later, Goto, SeedInv
  <2> QED
    BY <1>0, <2>1, <2>2, LaterStep
<1>9. CASE GarbleDone \/ EvaluateDone \/ LambdaRecv \/ GammaDone \/ GammaVerify
  <2>1. UNCHANGED <<prog, owner, seed>>
    BY <1>9 DEF GarbleDone, EvaluateDone, LambdaRecv, GammaDone, GammaVerify
  <2>2. PICK p \in Party, c \in {"io", "io_back"} :
          /\ \E a \in {"Lambda_AND", "decode", "c_gamma", "gamma", "abort"} : Goto(p, a)
          /\ \E msg : UNCHANGED seen \/ Send(p, c, msg) \/ Recv(p, c)
    BY <1>0, <1>9 DEF GarbleDone, EvaluateDone, LambdaRecv, GammaDone, GammaVerify, comm
  <2>3. {"Lambda_AND", "decode", "c_gamma", "gamma", "abort"} \subseteq Later
    BY DEF Later
  <2> QED
    BY <1>0, <2>1, <2>2, <2>3, LaterStep
<1>10. CASE DecodeSend \/ DecodeRecv \/ BroadcastSend \/ BroadcastRecv
  <2>1. UNCHANGED <<prog, owner, seed>>
    BY <1>10 DEF DecodeSend, DecodeRecv, BroadcastSend, BroadcastRecv
  <2>2. PICK p \in Party, c \in Channel :
          /\ \E a \in {"broadcast", "done", "abort"} : Goto(p, a)
          /\ \E msg : Send(p, c, msg) \/ Recv(p, c)
    BY <1>0, <1>10 DEF DecodeSend, DecodeRecv, BroadcastSend, BroadcastRecv, AfterDecode
  <2>3. {"broadcast", "done", "abort"} \subseteq Later
    BY DEF Later
  <2> QED
    BY <2>1, <2>2, <2>3, LaterStep
<1> QED
  BY <1>3, <1>4, <1>5, <1>6, <1>7, <1>8, <1>9, <1>10 DEF Next, Finished

(* Both parties seed the half-gate hash with the same transcript: with     *)
(* secret inputs after both openings and the labels, without them before   *)
(* anything was sent.                                                      *)
THEOREM RunSeedsAgree == Spec => []SeedsAgree
<1>1. SeedInv => SeedsAgree
  BY DEF SeedInv, SeedsAgree, Party
<1> QED
  BY <1>1, InitSeedInv, StepSeedInv, PTL DEF Spec
-------------------------------------------------------------------------------
(* What a run computes, as a function of the run R alone: its program, the *)
(* owners of the inputs and the recipient.                                 *)
Runs == [prog : Programs, owner : Owners, recipient : Recipients]

Running(R) == prog = R.prog /\ owner = R.owner /\ recipient = R.recipient

In(R) == R.prog.num_inputs
Size(R) == Len(R.prog.gates)
GateOf(R, j) == R.prog.gates[j]
A(R, j) == GateOf(R, j).in0 + 1
B(R, j) == GateOf(R, j).in1 + 1
Wires(R) == 1 .. (In(R) + Size(R))
SecretOf(R) == {k \in 1 .. In(R) : R.owner[k] \in Party}
PublicOf(R, k) == ConstBit(R.owner[k] = "One")
OutsOf(R) == {R.prog.outputs[k] + 1 : k \in DOMAIN R.prog.outputs}

DrawsIn(R) ==
    LET w == EvaluatedWires(R.prog, [k \in 1 .. In(R) |->
                 IF k \in SecretOf(R) THEN InputWire(k, X(k)) ELSE PublicWire(PublicOf(R, k))],
                 In(R))
    IN [k \in DOMAIN w |-> w[k].share]

ClearIn(R) ==
    ClearEval(R.prog, [k \in 1 .. In(R) |-> IF k \in SecretOf(R) THEN X(k) ELSE PublicOf(R, k)])

ClearOuts(R) == [k \in DOMAIN R.prog.outputs |-> ClearIn(R)[R.prog.outputs[k] + 1]]

(* lambda and Lambda of a wire, and a party's share of it.                 *)
MaskIn(R, k) == MaskOf(DrawsIn(R)[k])
LambdaIn(R, k) == ClearIn(R)[k] ++ MaskIn(R, k)
ShareIn(R, p, k) == WireShare(p, DrawsIn(R)[k])

(* The ANDs among the first n gates.                                       *)
Ands(R, n) == Cardinality({i \in AndGates(R.prog) : i <= n})
NumAndsOf(R) == Ands(R, Size(R))

SigmaIn(R, p, j) == SigmaShare(p, Ands(R, j), MaskIn(R, A(R, j)) ** MaskIn(R, B(R, j)))

(* The seed, and the tweak of an AND.                                      *)
SeedOf(R) == Counted(Garbler, "seed", SecretOf(R))
TweakOf(R, j) == <<SeedOf(R), Ands(R, j)>>

(* What gate j makes of the labels l before it, and the row of an AND.     *)
GarbledLabel(R, l, j) ==
    IF GateOf(R, j).op = "And"
    THEN OutLabel(l[A(R, j)], l[B(R, j)], SigmaIn(R, Garbler, j),
                  ShareIn(R, Garbler, In(R) + j), TweakOf(R, j))
    ELSE FabricLabel0(l, GateOf(R, j))

RowIn(R, l, j) ==
    Row(l[A(R, j)], l[B(R, j)], ShareIn(R, Garbler, A(R, j)), ShareIn(R, Garbler, B(R, j)),
        l[In(R) + j], TweakOf(R, j))

(* The witness of AND j as the garbler computes it.                        *)
WitnessIn(R, j) ==
    MacPart(SigmaIn(R, Garbler, j), ShareIn(R, Garbler, In(R) + j),
            ShareIn(R, Garbler, A(R, j)), ShareIn(R, Garbler, B(R, j)),
            LambdaIn(R, A(R, j)), LambdaIn(R, B(R, j)))

OpeningIn(R, p, ks) == [bits |-> [k \in ks |-> LSB(ShareIn(R, p, k).mac)],
                        D    |-> [k \in ks |-> ShareIn(R, p, k).mac]]
-------------------------------------------------------------------------------
(* The state of each party, as a function of the run and of where it is:   *)
(* a is its step, n the gates done in a pass.                              *)
IsQueue(w) == \E S : w \in Seq(S)

(* One element per AND among the first n gates.                            *)
ListsLambdas(R, n, L) ==
    /\ IsQueue(L) /\ Len(L) = Ands(R, n)
    /\ \A j \in 1 .. n : GateOf(R, j).op = "And" => L[Ands(R, j)] = LambdaIn(R, In(R) + j)

ListsWitnesses(R, n, M) ==
    /\ IsQueue(M) /\ Len(M) = Ands(R, n)
    /\ \A j \in 1 .. n : GateOf(R, j).op = "And" => M[Ands(R, j)] = WitnessIn(R, j)

MasksTo(R, n, m) ==
    /\ DOMAIN m = Wires(R)
    /\ \A k \in Wires(R) : k <= In(R) + n => m[k] = LambdaIn(R, k)

InputState(R, p, a, s, m) ==
    /\ s = [k \in 1 .. In(R) |-> ShareIn(R, p, k)]
    /\ DOMAIN m = 1 .. In(R)
    /\ \A k \in 1 .. In(R) :
         m[k] = IF a \in {"labels", "seed"} THEN LambdaIn(R, k) ELSE PublicOf(R, k)

SharesAre(R, p, s) == s = [k \in Wires(R) |-> ShareIn(R, p, k)]

(* The labels of the garbler after n gates, and those of the evaluator.    *)
LabelsAre(R, n, l) ==
    /\ IsQueue(l) /\ Len(l) = In(R) + n
    /\ \A k \in 1 .. Len(l) : IsBlock(l[k])
    /\ \A k \in 1 .. In(R) : k \notin SecretOf(R) => l[k] = PublicOf(R, k) ** Delta(Garbler)
    /\ \A j \in 1 .. n : l[In(R) + j] = GarbledLabel(R, l, j)

EvalLabelsAre(R, n, l) ==
    /\ IsQueue(l) /\ Len(l) = In(R) + n
    /\ \A k \in 1 .. In(R) : k \notin SecretOf(R) => l[k] = Zero
    /\ \A j \in 1 .. n :
         GateOf(R, j).op # "And" => l[In(R) + j] = FabricEvalLabel(l, GateOf(R, j))

(* How many gates the garbler has garbled.                                 *)
Garbled(R, a, n) == IF a \in Setup \cup {"garble"} THEN n ELSE Size(R)

GarblerSteps ==
    Setup \cup {"garble", "Lambda_AND", "gamma", "decode", "broadcast", "done"}
EvaluatorSteps == Setup \cup {"evaluate", "c_gamma", "decode", "broadcast", "done"}

Opens(R) == IF R.recipient = Garbler THEN Evaluator ELSE Garbler

(* The step of a party, and what is possible there.                        *)
StepOk(R, a, n) ==
    /\ n \in 0 .. Size(R)
    /\ a \in Setup => n = 0
    /\ a \in {"inputs", "open", "labels"} => SecretOf(R) # {}
    /\ a \in {"Lambda_AND", "c_gamma", "decode", "broadcast", "done"} => n = Size(R)
    /\ a \in {"Lambda_AND", "c_gamma", "gamma"} => NumAndsOf(R) > 0
    /\ a = "broadcast" => R.recipient = "Public"

GarblerState(R, a, n, s, m, l, sd, L, M) ==
    /\ a \in GarblerSteps /\ StepOk(R, a, n)
    /\ a \in Setup => InputState(R, Garbler, a, s, m)
    /\ a \notin Setup => /\ SharesAre(R, Garbler, s) /\ sd = SeedOf(R)
                         /\ MasksTo(R, IF a = "gamma" THEN n
                                       ELSE IF a \in {"garble", "Lambda_AND"} \/ NumAndsOf(R) = 0
                                       THEN 0 ELSE Size(R), m)
    /\ LabelsAre(R, Garbled(R, a, n), l)
    /\ a = "gamma" => ListsLambdas(R, Size(R), L)
    /\ ListsWitnesses(R, IF a \in {"gamma", "decode", "broadcast", "done"} THEN n ELSE 0, M)

EvaluatorState(R, a, n, s, m, l, sd, L, M) ==
    /\ a \in EvaluatorSteps /\ StepOk(R, a, n)
    /\ a \in Setup => InputState(R, Evaluator, a, s, m)
    /\ a \notin Setup => SharesAre(R, Evaluator, s) /\ sd = SeedOf(R) /\ MasksTo(R, n, m)
    /\ EvalLabelsAre(R, n, l)
    /\ ListsLambdas(R, n, L) /\ ListsWitnesses(R, n, M)

(* The two parties' labels, after g gates at the garbler and n at the      *)
(* evaluator, which is at step a: an AND is evaluated after it is garbled. *)
LabelsAgree(R, g, l, a, n, e) ==
    /\ \A j \in 1 .. n : GateOf(R, j).op = "And" => j <= g
    /\ a \notin {"inputs", "open", "labels"} =>
         \A k \in Wires(R) : k <= In(R) + g /\ k <= In(R) + n =>
           e[k] = l[k] ++ (LambdaIn(R, k) ** Delta(Garbler))
-------------------------------------------------------------------------------
(* The messages, by channel and number; l are the garbler's labels.        *)
Base(R) == IF SecretOf(R) = {} THEN 0 ELSE 2
Extra(R) == IF NumAndsOf(R) = 0 THEN 0 ELSE 1

WriterOf(c) == IF c = "io" THEN Garbler ELSE Evaluator
ReaderOf(c) == Peer(WriterOf(c))

InputMessage(R, p, msg) ==
    /\ msg.open = OpeningIn(R, p, SecretOf(R))
    /\ msg.x = [k \in {j \in SecretOf(R) : R.owner[j] = p} |-> X(k)]

IoMessage(R, l, n, msg) ==
    /\ n = 1 /\ SecretOf(R) # {} => InputMessage(R, Garbler, msg)
    /\ n = 2 /\ SecretOf(R) # {} =>
         msg = [k \in SecretOf(R) |-> l[k] ++ (LambdaIn(R, k) ** Delta(Garbler))]
    /\ \A j \in 1 .. Size(R) : GateOf(R, j).op = "And" /\ n = Base(R) + Ands(R, j) =>
         In(R) + j <= Len(l) /\ msg = RowIn(R, l, j)
    /\ NumAndsOf(R) > 0 /\ n = Base(R) + NumAndsOf(R) + 1 => ListsWitnesses(R, Size(R), msg)
    /\ n = Base(R) + NumAndsOf(R) + Extra(R) + 1 => msg = OpeningIn(R, Garbler, OutsOf(R))

BackMessage(R, n, msg) ==
    /\ NumAndsOf(R) > 0 /\ n = 1 => ListsLambdas(R, Size(R), msg)
    /\ n = Extra(R) + 1 =>
         msg = IF R.recipient = Garbler THEN OpeningIn(R, Evaluator, OutsOf(R)) ELSE ClearOuts(R)

Message(R, l, c, n, msg) ==
    /\ c = "io" => IoMessage(R, l, n, msg)
    /\ c = "io_back" => BackMessage(R, n, msg)
    /\ c = "sib" => (n = 1 => InputMessage(R, Evaluator, msg))

(* How many messages party p has sent or read at step a after n gates.     *)
IoCount(R, p, a, n) ==
    IF a \in {"inputs", "open", "labels", "seed"} THEN Counted(p, a, SecretOf(R))["io"]
    ELSE IF a \in {"garble", "evaluate"} THEN Base(R) + Ands(R, n)
    ELSE IF a \in {"Lambda_AND", "c_gamma", "gamma"} THEN Base(R) + NumAndsOf(R)
    ELSE IF a = "decode" \/ Opens(R) = Evaluator THEN Base(R) + NumAndsOf(R) + Extra(R)
    ELSE Base(R) + NumAndsOf(R) + Extra(R) + 1

BackCount(R, a) ==
    IF a \in {"c_gamma", "gamma"} THEN 1
    ELSE IF a \in {"decode", "broadcast"} THEN Extra(R)
    ELSE IF a = "done" THEN IF R.recipient = Evaluator THEN Extra(R) ELSE Extra(R) + 1
    ELSE 0

SibCount(R, p, a) ==
    IF a \in Setup THEN Counted(p, a, SecretOf(R))["sib"]
    ELSE IF SecretOf(R) = {} THEN 0 ELSE 1

CountIn(R, p, a, n, c) ==
    IF c = "io" THEN IoCount(R, p, a, n)
    ELSE IF c = "io_back" THEN BackCount(R, a) ELSE SibCount(R, p, a)

(* Queue w of channel c, of which s messages were sent and r read.         *)
Carries(R, l, c, w, s, r) ==
    /\ IsQueue(w) /\ r + Len(w) = s
    /\ \A j \in 1 .. Len(w) : Message(R, l, c, r + j, w[j])
-------------------------------------------------------------------------------
(* The outputs are right where they were opened or received, unless the    *)
(* garbler alone learns them and has no masks.                             *)
Decodes(R) == R.recipient # Garbler \/ NumAndsOf(R) > 0

ValuesAre(R, a, v) ==
    /\ \A p \in Party : v[p] = <<>> \/ v[p] = ClearOuts(R)
    /\ a = "broadcast" => v[Evaluator] = ClearOuts(R)

PartyState(R, p, a, n, s, m, l, sd, L, M) ==
    IF p = Garbler THEN GarblerState(R, a, n, s, m, l, sd, L, M)
                   ELSE EvaluatorState(R, a, n, s, m, l, sd, L, M)

Stands(R, p) ==
    PartyState(R, p, at[p], pc[p], shr[p], msk[p], lab[p], seed[p], Lambda_AND[p], M1_t[p])

CountedTo(R, p, a, n) == [c \in Channel |-> CountIn(R, p, a, n, c)]
CountsOk(R, p) == seen[p] = CountedTo(R, p, at[p], pc[p])

Matches(R) ==
    LabelsAgree(R, Garbled(R, at[Garbler], pc[Garbler]), lab[Garbler],
                at[Evaluator], pc[Evaluator], lab[Evaluator])

ChannelsOk(R) ==
    \A c \in Channel :
      Carries(R, lab[Garbler], c, wire[c], seen[WriterOf(c)][c], seen[ReaderOf(c)][c])

Tables ==
    /\ DOMAIN at = Party /\ DOMAIN pc = Party /\ DOMAIN val = Party
    /\ DOMAIN shr = Party /\ DOMAIN msk = Party /\ DOMAIN lab = Party
    /\ DOMAIN seed = Party /\ DOMAIN Lambda_AND = Party /\ DOMAIN M1_t = Party
    /\ DOMAIN wire = Channel /\ DOMAIN seen = Party

RunInv(R) ==
    /\ R \in Runs /\ Running(R) /\ Tables
    /\ \A p \in Party : Stands(R, p) /\ CountsOk(R, p)
    /\ Matches(R) /\ ChannelsOk(R)
    /\ Decodes(R) => ValuesAre(R, at[Evaluator], val)

ProtocolInv == \E R \in Runs : RunInv(R)
-------------------------------------------------------------------------------
(* The algebra of one AND.  D is the garbler's Delta; a bit of two shares  *)
(* is the sum of their share bits.                                         *)
LEMMA DeltaIsBlock == IsBlock(Delta(Garbler)) /\ IsBlock(Delta(Evaluator))
BY Variables

(* What the garbler knows of a shared bit cancels the evaluator's MAC up   *)
(* to Delta, and the evaluator's key the garbler's MAC.                    *)
LEMMA KeyPartIs ==
    ASSUME NEW s, NEW e, Shared(Garbler, s, e)
    PROVE  /\ IsBlock(KeyPart(s)) /\ IsBlock(s.mac) /\ IsBlock(e.mac) /\ IsBlock(e.key)
           /\ IsBit(LSB(s.mac)) /\ IsBit(LSB(e.mac)) /\ IsBit(Opened(s, e))
           /\ e.mac = KeyPart(s) ++ (Opened(s, e) ** Delta(Garbler))
           /\ s.mac = e.key ++ (LSB(s.mac) ** Delta(Evaluator))
<1> DEFINE D == Delta(Garbler)
           x == LSB(s.mac)
           y == LSB(e.mac)
<1>1. /\ IsBlock(s.mac) /\ IsBlock(s.key) /\ IsBlock(e.mac) /\ IsBlock(e.key)
      /\ s.mac = e.key ++ (x ** Delta(Evaluator)) /\ e.mac = s.key ++ (y ** D)
  BY SharedIs, Peers
<1>2. IsBit(x) /\ IsBit(y) /\ IsBit(x ++ y) /\ IsBlock(D)
  BY <1>1, LSBLaws, BitClosed, DeltaIsBlock
<1>3. IsBlock(x ** D) /\ IsBlock(y ** D) /\ IsBlock(s.key ++ (x ** D))
  BY <1>1, <1>2, BlockClosed
<1>4. (x ++ y) ** D = (x ** D) ++ (y ** D)
  BY <1>2, BitClosed, BlockClosed, Distribute
<1>5. \A k, u, v : k ++ v = (k ++ u) ++ (u ++ v)
  BY DEF ++, XorBit, SymDiff
<1>6. e.mac = (s.key ++ (x ** D)) ++ ((x ++ y) ** D)
  BY <1>1, <1>4, <1>5
<1> QED
  BY <1>1, <1>2, <1>3, <1>6 DEF KeyPart, Opened

(* A hash of the evaluator's label opens to one of two hashes; the row     *)
(* holds their difference.                                                 *)
LEMMA HalfOpens ==
    ASSUME NEW l, NEW x, NEW t, IsBlock(l), IsBit(x)
    PROVE  \E h : /\ IsBlock(h) /\ IsBlock(Half(l, t))
                  /\ Half(l ++ (x ** Delta(Garbler)), t) = Half(l, t) ++ (x ** h)
                  /\ Half(l, t) ++ Half(Flip(l), t) = h
<1> DEFINE D == Delta(Garbler)
           h == HashDiff(l, Garbler, t)
<1>1. One ** D = D
  BY DeltaIsBlock, BlockClosed, AndLaws
<1>2. /\ Half(l ++ (x ** D), t) = Half(l, t) ++ (x ** h) /\ IsBlock(Half(l, t)) /\ IsBlock(h)
  BY HashShift DEF Half
<1>3. Half(l ++ (One ** D), t) = Half(l, t) ++ (One ** h)
  BY HashShift, BitClosed DEF Half
<1>4. One ** h = h
  BY <1>2, BlockClosed, AndLaws
<1>5. Half(Flip(l), t) = Half(l, t) ++ h
  BY <1>1, <1>3, <1>4 DEF Flip
<1>6. \A u, v : u ++ (u ++ v) = v
  BY DEF ++, XorBit, SymDiff
<1> QED
  BY <1>2, <1>5, <1>6

(* The bits by which a block times a sum of bits is the sum.               *)
LEMMA SumTimes ==
    ASSUME NEW D, IsBlock(D), NEW p, NEW q, NEW r, NEW s, NEW u,
           IsBit(p), IsBit(q), IsBit(r), IsBit(s), IsBit(u)
    PROVE  /\ IsBit((((p ++ q) ++ r) ++ s) ++ u)
           /\ ((((p ++ q) ++ r) ++ s) ++ u) ** D =
                ((((p ** D) ++ (q ** D)) ++ (r ** D)) ++ (s ** D)) ++ (u ** D)
<1>1. /\ IsPoly(p) /\ IsPoly(q) /\ IsPoly(r) /\ IsPoly(s) /\ IsPoly(u) /\ IsPoly(D)
      /\ IsBit(p ++ q) /\ IsBit((p ++ q) ++ r) /\ IsBit(((p ++ q) ++ r) ++ s)
      /\ IsBit((((p ++ q) ++ r) ++ s) ++ u)
  BY BitClosed, BlockClosed
<1>2. /\ (p ++ q) ** D = (p ** D) ++ (q ** D)
      /\ ((p ++ q) ++ r) ** D = ((p ++ q) ** D) ++ (r ** D)
      /\ (((p ++ q) ++ r) ++ s) ** D = (((p ++ q) ++ r) ** D) ++ (s ** D)
      /\ ((((p ++ q) ++ r) ++ s) ++ u) ** D = ((((p ++ q) ++ r) ++ s) ** D) ++ (u ** D)
  BY <1>1, BitClosed, Distribute
<1> QED
  BY <1>1, <1>2

(* Lambda of the output of an AND, from Lambda and lambda of its operands  *)
(* and the shared bits sigma and g.                                        *)
AndLambda(La, Lb, ma, mb, ms, mg) == ((((La ** Lb) ++ (La ** mb)) ++ (Lb ** ma)) ++ ms) ++ mg

(* The evaluator's label of an AND.                                        *)
LEMMA AndLabelDecodes ==
    ASSUME NEW la, NEW lb, IsBlock(la), IsBlock(lb), NEW La, NEW Lb, IsBit(La), IsBit(Lb),
           NEW sg, NEW se, NEW gg, NEW ge, NEW ag, NEW ae, NEW bg, NEW be,
           Shared(Garbler, sg, se), Shared(Garbler, gg, ge),
           Shared(Garbler, ag, ae), Shared(Garbler, bg, be), NEW m, NEW t,
           NEW row, row = Row(la, lb, ag, bg, m, t),
           NEW D, D = Delta(Garbler)
    PROVE  /\ IsBlock(OutLabel(la, lb, sg, gg, t))
           /\ IsBit(AndLambda(La, Lb, Opened(ag, ae), Opened(bg, be), Opened(sg, se), Opened(gg, ge)))
           /\ EvalLabel(la ++ (La ** D), lb ++ (Lb ** D), row, La, Lb,
                        MacPart(se, ge, ae, be, La, Lb), t)
                = OutLabel(la, lb, sg, gg, t)
                  ++ (AndLambda(La, Lb, Opened(ag, ae), Opened(bg, be), Opened(sg, se),
                                Opened(gg, ge)) ** D)
<1> DEFINE ms == Opened(sg, se)
           mg == Opened(gg, ge)
           ma == Opened(ag, ae)
           mb == Opened(bg, be)
           Ks == KeyPart(sg)
           Kg == KeyPart(gg)
           Ka == KeyPart(ag)
           Kb == KeyPart(bg)
<1>1. /\ IsBlock(Ks) /\ IsBlock(Kg) /\ IsBlock(Ka) /\ IsBlock(Kb)
      /\ IsBit(ms) /\ IsBit(mg) /\ IsBit(ma) /\ IsBit(mb)
      /\ se.mac = Ks ++ (ms ** D) /\ ge.mac = Kg ++ (mg ** D)
      /\ ae.mac = Ka ++ (ma ** D) /\ be.mac = Kb ++ (mb ** D)
  BY KeyPartIs
<1>2. PICK h : /\ IsBlock(h) /\ IsBlock(Half(la, t))
               /\ Half(la ++ (La ** D), t) = Half(la, t) ++ (La ** h)
               /\ Half(la, t) ++ Half(Flip(la), t) = h
  BY HalfOpens
<1>3. PICK k : /\ IsBlock(k) /\ IsBlock(Half(lb, t))
               /\ Half(lb ++ (Lb ** D), t) = Half(lb, t) ++ (Lb ** k)
               /\ Half(lb, t) ++ Half(Flip(lb), t) = k
  BY HalfOpens
<1>4. row.G0 = h ++ Kb /\ row.G1 = (k ++ la) ++ Ka
  BY <1>2, <1>3 DEF Row
<1>5. /\ OutLabel(la, lb, sg, gg, t) = ((Half(la, t) ++ Half(lb, t)) ++ Ks) ++ Kg
      /\ IsBlock(OutLabel(la, lb, sg, gg, t))
  BY <1>1, <1>2, <1>3, BlockClosed DEF OutLabel
<1> DEFINE mac == MacPart(se, ge, ae, be, La, Lb)
           ea == la ++ (La ** D)
<1>6. EvalLabel(ea, lb ++ (Lb ** D), row, La, Lb, mac, t) =
        ((((Half(la, t) ++ (La ** h)) ++ (Half(lb, t) ++ (Lb ** k))) ++ (La ** (h ++ Kb)))
           ++ (Lb ** (((k ++ la) ++ Ka) ++ ea))) ++ mac
  BY <1>2, <1>3, <1>4 DEF EvalLabel
<1> HIDE DEF ms, mg, ma, mb, Ks, Kg, Ka, Kb
<1>7. IsBlock(D) /\ IsBlock(La ** D) /\ IsPoly(La) /\ IsPoly(Lb)
  BY DeltaIsBlock, BlockClosed, BitClosed
<1>8. La ** (h ++ Kb) = (La ** h) ++ (La ** Kb)
  BY <1>1, <1>2, <1>7, BlockClosed, Distribute
<1>9. Lb ** (((k ++ la) ++ Ka) ++ ea) = ((Lb ** k) ++ (Lb ** Ka)) ++ ((La ** Lb) ** D)
  <2>1. \A u, v, w, x : ((u ++ v) ++ w) ++ (v ++ x) = (u ++ w) ++ x
    BY DEF ++, XorBit, SymDiff
  <2>2. ((k ++ la) ++ Ka) ++ ea = (k ++ Ka) ++ (La ** D)
    BY <2>1
  <2>3. IsBlock(k ++ Ka) /\ IsPoly(k) /\ IsPoly(Ka) /\ IsPoly(k ++ Ka) /\ IsPoly(La ** D) /\ IsPoly(D)
    BY <1>1, <1>3, <1>7, BlockClosed
  <2>4. Lb ** ((k ++ Ka) ++ (La ** D)) = (Lb ** (k ++ Ka)) ++ (Lb ** (La ** D))
    BY <1>7, <2>3, Distribute
  <2>5. Lb ** (k ++ Ka) = (Lb ** k) ++ (Lb ** Ka)
    BY <1>7, <2>3, Distribute
  <2>6. Lb ** (La ** D) = (Lb ** La) ** D /\ Lb ** La = La ** Lb
    BY <1>7, <2>3, AndLaws
  <2> QED
    BY <2>2, <2>4, <2>5, <2>6
<1>10. mac = (((Ks ++ (ms ** D)) ++ (Kg ++ (mg ** D))) ++ ((La ** Kb) ++ ((La ** mb) ** D)))
               ++ ((Lb ** Ka) ++ ((Lb ** ma) ** D))
  <2>1. /\ IsPoly(Ka) /\ IsPoly(Kb) /\ IsPoly(ma) /\ IsPoly(mb) /\ IsPoly(D)
        /\ IsPoly(ma ** D) /\ IsPoly(mb ** D)
    BY <1>1, <1>7, BlockClosed, BitClosed
  <2>2. /\ La ** (Kb ++ (mb ** D)) = (La ** Kb) ++ (La ** (mb ** D))
        /\ Lb ** (Ka ++ (ma ** D)) = (Lb ** Ka) ++ (Lb ** (ma ** D))
    BY <1>7, <2>1, Distribute
  <2>3. La ** (mb ** D) = (La ** mb) ** D /\ Lb ** (ma ** D) = (Lb ** ma) ** D
    BY <1>7, <2>1, AndLaws
  <2> QED
    BY <1>1, <2>2, <2>3 DEF MacPart
<1>11. /\ IsBit(AndLambda(La, Lb, ma, mb, ms, mg))
       /\ AndLambda(La, Lb, ma, mb, ms, mg) ** D =
            (((((La ** Lb) ** D) ++ ((La ** mb) ** D)) ++ ((Lb ** ma) ** D)) ++ (ms ** D)) ++ (mg ** D)
  BY <1>1, <1>7, BitClosed, SumTimes DEF AndLambda
<1>12. \A H, J, a, b, c, e, f, s, g, p, q, ks, kg :
         (((((H ++ a) ++ (J ++ b)) ++ (a ++ c)) ++ ((b ++ e) ++ f))
            ++ ((((ks ++ s) ++ (kg ++ g)) ++ (c ++ p)) ++ (e ++ q)))
         = (((H ++ J) ++ ks) ++ kg) ++ ((((f ++ p) ++ q) ++ s) ++ g)
  BY DEF ++, XorBit, SymDiff
<1>13. EvalLabel(ea, lb ++ (Lb ** D), row, La, Lb, mac, t) =
         OutLabel(la, lb, sg, gg, t) ++ (AndLambda(La, Lb, ma, mb, ms, mg) ** D)
  BY <1>5, <1>6, <1>8, <1>9, <1>10, <1>11, <1>12
<1> QED
  BY <1>5, <1>11, <1>13 DEF ms, mg, ma, mb

(* The evaluator's witness of an AND is the garbler's, if the evaluator    *)
(* holds the right Lambda of its output.                                   *)
LEMMA WitnessesAgree ==
    ASSUME NEW La, NEW Lb, IsBit(La), IsBit(Lb),
           NEW sg, NEW se, NEW gg, NEW ge, NEW ag, NEW ae, NEW bg, NEW be,
           Shared(Garbler, sg, se), Shared(Garbler, gg, ge),
           Shared(Garbler, ag, ae), Shared(Garbler, bg, be),
           NEW Lg, Lg = AndLambda(La, Lb, Opened(ag, ae), Opened(bg, be), Opened(sg, se),
                                  Opened(gg, ge))
    PROVE  Witness(se, ge, ae, be, La, Lb, Lg) = MacPart(sg, gg, ag, bg, La, Lb)
<1> DEFINE E == Delta(Evaluator)
           xs == LSB(sg.mac)
           xg == LSB(gg.mac)
           xa == LSB(ag.mac)
           xb == LSB(bg.mac)
           ys == LSB(se.mac)
           yg == LSB(ge.mac)
           ya == LSB(ae.mac)
           yb == LSB(be.mac)
           ks == se.key
           kg == ge.key
           ka == ae.key
           kb == be.key
<1>1. /\ sg.mac = ks ++ (xs ** E) /\ gg.mac = kg ++ (xg ** E)
      /\ ag.mac = ka ++ (xa ** E) /\ bg.mac = kb ++ (xb ** E)
      /\ IsBlock(ks) /\ IsBlock(kg) /\ IsBlock(ka) /\ IsBlock(kb) /\ IsBlock(E)
      /\ IsBit(xs) /\ IsBit(xg) /\ IsBit(xa) /\ IsBit(xb)
      /\ IsBit(ys) /\ IsBit(yg) /\ IsBit(ya) /\ IsBit(yb)
  BY KeyPartIs, DeltaIsBlock
<1>2. MacPart(sg, gg, ag, bg, La, Lb) =
        (((ks ++ (xs ** E)) ++ (kg ++ (xg ** E))) ++ (La ** (kb ++ (xb ** E))))
          ++ (Lb ** (ka ++ (xa ** E)))
  BY <1>1 DEF MacPart
<1> DEFINE t1 == (((((La ** Lb) ++ Lg) ++ (La ** yb)) ++ (Lb ** ya)) ++ ys) ++ yg
<1>3. Witness(se, ge, ae, be, La, Lb, Lg) =
        ((((t1 ** E) ++ (La ** kb)) ++ (Lb ** ka)) ++ ks) ++ kg
  BY DEF Witness
<1>4. Lg = ((((La ** Lb) ++ (La ** (xb ++ yb))) ++ (Lb ** (xa ++ ya))) ++ (xs ++ ys)) ++ (xg ++ yg)
  BY DEF AndLambda, Opened
<1> HIDE DEF E, xs, xg, xa, xb, ys, yg, ya, yb, ks, kg, ka, kb
<1>5. /\ IsPoly(La) /\ IsPoly(Lb) /\ IsPoly(xa) /\ IsPoly(xb) /\ IsPoly(ya) /\ IsPoly(yb)
      /\ IsPoly(ka) /\ IsPoly(kb) /\ IsPoly(E) /\ IsPoly(xa ** E) /\ IsPoly(xb ** E)
  BY <1>1, BitClosed, BlockClosed
<1>6. /\ La ** (xb ++ yb) = (La ** xb) ++ (La ** yb)
      /\ Lb ** (xa ++ ya) = (Lb ** xa) ++ (Lb ** ya)
      /\ La ** (kb ++ (xb ** E)) = (La ** kb) ++ ((La ** xb) ** E)
      /\ Lb ** (ka ++ (xa ** E)) = (Lb ** ka) ++ ((Lb ** xa) ** E)
  <2>1. /\ La ** (kb ++ (xb ** E)) = (La ** kb) ++ (La ** (xb ** E))
        /\ Lb ** (ka ++ (xa ** E)) = (Lb ** ka) ++ (Lb ** (xa ** E))
        /\ La ** (xb ++ yb) = (La ** xb) ++ (La ** yb)
        /\ Lb ** (xa ++ ya) = (Lb ** xa) ++ (Lb ** ya)
    BY <1>5, Distribute
  <2>2. La ** (xb ** E) = (La ** xb) ** E /\ Lb ** (xa ** E) = (Lb ** xa) ** E
    BY <1>5, AndLaws
  <2> QED
    BY <2>1, <2>2
<1>7. t1 = ((((La ** xb) ++ (Lb ** xa)) ++ xs) ++ xg) ++ Zero
  <2>1. \A p, q, r, u, v, x, y, z, w :
          (((p ++ (q ++ r)) ++ (u ++ v)) ++ (x ++ y)) ++ (z ++ w)
          = ((((q ++ u) ++ x) ++ z) ++ p) ++ (((r ++ v) ++ y) ++ w)
    BY DEF ++, XorBit, SymDiff
  <2>2. \A p, m, s : p ++ ((m ++ p) ++ s) = m ++ s
    BY DEF ++, XorBit, SymDiff
  <2>3. \A m, r, v, y, w : ((((m ++ (((r ++ v) ++ y) ++ w)) ++ r) ++ v) ++ y) ++ w = m ++ {}
    BY DEF ++, XorBit, SymDiff
  <2> DEFINE P == La ** Lb
             m == (((La ** xb) ++ (Lb ** xa)) ++ xs) ++ xg
             S == (((La ** yb) ++ (Lb ** ya)) ++ ys) ++ yg
  <2>4. Lg = (m ++ P) ++ S
    BY <1>4, <1>6, <2>1
  <2>5. P ++ Lg = m ++ S
    BY <2>2, <2>4
  <2>6. t1 = ((((m ++ S) ++ (La ** yb)) ++ (Lb ** ya)) ++ ys) ++ yg
    BY <2>5
  <2> QED
    BY <2>3, <2>6 DEF Zero
<1>8. /\ IsBit(La ** xb) /\ IsBit(Lb ** xa) /\ IsBit(Zero)
  BY <1>1, BitClosed
<1>9. t1 ** E = (((((La ** xb) ** E) ++ ((Lb ** xa) ** E)) ++ (xs ** E)) ++ (xg ** E)) ++ (Zero ** E)
  BY <1>1, <1>7, <1>8, SumTimes
<1>10. Zero ** E = {}
  BY <1>5, AndLaws DEF Zero
<1>11. \A a, b, c, d, p, q, r, s :
         ((((((((p ++ q) ++ r) ++ s) ++ {}) ++ a) ++ b) ++ c) ++ d)
         = (((c ++ r) ++ (d ++ s)) ++ (a ++ p)) ++ (b ++ q)
  BY DEF ++, XorBit, SymDiff
<1> HIDE DEF t1
<1> QED
  BY <1>2, <1>3, <1>6, <1>9, <1>10, <1>11

(* Lambda of the output of an AND masks the product of the clear values.   *)
LEMMA AndLambdaIs ==
    ASSUME NEW ca, NEW cb, NEW ma, NEW mb, NEW mg, IsBit(ca), IsBit(cb), IsBit(ma), IsBit(mb)
    PROVE  AndLambda(ca ++ ma, cb ++ mb, ma, mb, ma ** mb, mg) = (ca ** cb) ++ mg
<1>1. /\ IsPoly(ca) /\ IsPoly(cb) /\ IsPoly(ma) /\ IsPoly(mb)
      /\ IsPoly(ca ++ ma) /\ IsPoly(cb ++ mb)
  BY BitClosed, PolyClosed
<1> DEFINE P == ca ** cb
           Q == ca ** mb
           R == ma ** cb
           S == ma ** mb
<1>2. (ca ++ ma) ** (cb ++ mb) = (P ++ Q) ++ (R ++ S)
  <2>1. (ca ++ ma) ** (cb ++ mb) = (ca ** (cb ++ mb)) ++ (ma ** (cb ++ mb))
    BY <1>1, Distribute
  <2>2. ca ** (cb ++ mb) = P ++ Q /\ ma ** (cb ++ mb) = R ++ S
    BY <1>1, Distribute
  <2> QED
    BY <2>1, <2>2
<1>3. (ca ++ ma) ** mb = Q ++ S
  BY <1>1, Distribute
<1>4. (cb ++ mb) ** ma = R ++ S
  <2>1. (cb ++ mb) ** ma = (cb ** ma) ++ (mb ** ma)
    BY <1>1, Distribute
  <2>2. cb ** ma = R /\ mb ** ma = S
    BY <1>1, AndLaws
  <2> QED
    BY <2>1, <2>2
<1>5. AndLambda(ca ++ ma, cb ++ mb, ma, mb, ma ** mb, mg) =
        (((((P ++ Q) ++ (R ++ S)) ++ (Q ++ S)) ++ (R ++ S)) ++ S) ++ mg
  BY <1>2, <1>3, <1>4 DEF AndLambda
<1>6. \A p, q, r, s : ((((p ++ q) ++ (r ++ s)) ++ (q ++ s)) ++ (r ++ s)) ++ s = p
  BY DEF ++, XorBit, SymDiff
<1> HIDE DEF P, Q, R, S
<1>7. ((((P ++ Q) ++ (R ++ S)) ++ (Q ++ S)) ++ (R ++ S)) ++ S = P
  BY <1>6
<1>8. AndLambda(ca ++ ma, cb ++ mb, ma, mb, ma ** mb, mg) = P ++ mg
  BY <1>5, <1>7
<1> QED
  BY <1>8 DEF P

(* The bit the evaluator finds with its label and the bit in the row.      *)
LEMMA RowBit ==
    ASSUME NEW m, NEW c, IsBlock(m), IsBit(c)
    PROVE  LSB1(m) ++ LSB1(m ++ (c ** Delta(Garbler))) = c
<1>1. IsBlock(c ** Delta(Garbler))
  BY DeltaIsBlock, BlockClosed
<1>2. LSB1(m ++ (c ** Delta(Garbler))) = LSB1(m) ++ c
  BY <1>1, LSBLaws
<1>3. \A u, v : u ++ (u ++ v) = v
  BY DEF ++, XorBit, SymDiff
<1> QED
  BY <1>2, <1>3

(* What TriplePool delivers for an AND.                                    *)
LEMMA SigmaShared ==
    ASSUME NEW j, NEW prod, IsBit(prod)
    PROVE  /\ Shared(Garbler, SigmaShare(Garbler, j, prod), SigmaShare(Evaluator, j, prod))
           /\ Opened(SigmaShare(Garbler, j, prod), SigmaShare(Evaluator, j, prod)) = prod
<1> DEFINE s == SigmaShare(Garbler, j, prod)
           e == SigmaShare(Evaluator, j, prod)
           x == ShareBit(Garbler, -j)
<1>0. Peer(Garbler) = Evaluator /\ Peer(Evaluator) = Garbler /\ Garbler # Evaluator
  BY Peers
<1>1. /\ s.key = KeyOf(Garbler, -j) /\ e.key = KeyOf(Evaluator, -j)
      /\ s.mac = e.key ++ (x ** Delta(Peer(Garbler)))
      /\ e.mac = s.key ++ ((x ++ prod) ** Delta(Garbler))
  BY <1>0 DEF SigmaShare
<1>2. IsBit(x) /\ IsBit(x ++ prod)
  BY Variables, BitClosed
<1>3. /\ IsBlock(s.key) /\ IsBlock(e.key) /\ LSB(s.key) = Zero /\ LSB(e.key) = Zero
  BY <1>1, Variables, PinnedBits
<1> HIDE DEF s, e, x
<1>4. Shared(Garbler, s, e) /\ LSB(s.mac) = x /\ LSB(e.mac) = x ++ prod
  BY <1>1, <1>2, <1>3, Peers, SharedBuilt
<1>5. \A u, v : u ++ (u ++ v) = v
  BY DEF ++, XorBit, SymDiff
<1> QED
  BY <1>4, <1>5 DEF Opened, s, e
-------------------------------------------------------------------------------
(* The program of a run.                                                   *)
GateBounds(R, j) ==
    LET g == GateOf(R, j)
    IN /\ g \in Gate /\ g.op \in {"And", "Xor", "Not", "Const0", "Const1"}
       /\ IsConst(g) <=> g.op \in {"Const0", "Const1"}
       /\ g.op \in {"And", "Xor", "Not"} => A(R, j) \in 1 .. (In(R) + (j - 1))
       /\ g.op \in {"And", "Xor"} => B(R, j) \in 1 .. (In(R) + (j - 1))

(* The program of a run is canonical: gate j reads wires before its own.   *)
LEMMA ProgramOk ==
    ASSUME NEW R \in Runs
    PROVE  /\ R.prog \in BooleanProgram /\ RecordCanonical(R.prog)
           /\ In(R) \in Nat /\ Size(R) \in Nat /\ R.prog.num_inputs = In(R)
           /\ Len(R.prog.gates) = Size(R) /\ DOMAIN R.prog.gates = 1 .. Size(R)
           /\ R.prog.num_wires = In(R) + Size(R)
           /\ OutsOf(R) \subseteq Wires(R)
           /\ \A j \in 1 .. Size(R) : GateBounds(R, j)
<1>1. R.prog \in BooleanProgram /\ RecordCanonical(R.prog)
  BY HalfGatesAssumption DEF Runs
<1>2. /\ R.prog.num_inputs \in Nat /\ R.prog.gates \in Seq(Gate) /\ R.prog.outputs \in Seq(Nat)
      /\ Len(R.prog.gates) \in Nat /\ DOMAIN R.prog.gates = 1 .. Len(R.prog.gates)
  BY <1>1, LenProperties DEF BooleanProgram
<1>3. R.prog.num_wires = R.prog.num_inputs + Len(R.prog.gates)
  BY <1>1 DEF RecordCanonical, validate_program
<1>4. \A k \in DOMAIN R.prog.outputs : R.prog.outputs[k] \in 0 .. (R.prog.num_wires - 1)
  BY <1>1, Zenon DEF RecordCanonical, validate_program
<1>5. OutsOf(R) \subseteq Wires(R)
  <2> SUFFICES ASSUME NEW k \in DOMAIN R.prog.outputs PROVE R.prog.outputs[k] + 1 \in Wires(R)
    BY DEF OutsOf
  <2>1. \A x, n \in Int : x \in 0 .. (n - 1) => x + 1 \in 1 .. n
    OBVIOUS
  <2>2. R.prog.outputs[k] \in 0 .. (R.prog.num_wires - 1) /\ R.prog.num_wires \in Int
    BY <1>2, <1>3, <1>4
  <2>3. R.prog.outputs[k] \in Int
    BY <2>2
  <2>4. R.prog.outputs[k] + 1 \in 1 .. R.prog.num_wires
    BY <2>1, <2>2, <2>3
  <2> QED
    BY <1>3, <2>4 DEF Wires, In, Size
<1>6. ASSUME NEW j \in 1 .. Size(R) PROVE GateBounds(R, j)
  <2> DEFINE g == GateOf(R, j)
  <2>1. /\ g \in Gate
        /\ \A v \in Reads(g) : v + 1 \in 1 .. (In(R) + (j - 1))
    BY <1>1, OperandsBelow DEF Size, GateOf, In
  <2> HIDE DEF g
  <2>2. /\ g.op \in {"And", "Xor", "Not", "Const0", "Const1"}
        /\ IsConst(g) <=> g.op \in {"Const0", "Const1"}
        /\ g.op \in {"And", "Xor"} => Reads(g) = {g.in0, g.in1}
        /\ g.op = "Not" => Reads(g) = {g.in0}
    BY <2>1, GateCases
  <2>3. g.op \in {"And", "Xor", "Not"} => g.in0 + 1 \in 1 .. (In(R) + (j - 1))
    BY <2>1, <2>2
  <2>4. g.op \in {"And", "Xor"} => g.in1 + 1 \in 1 .. (In(R) + (j - 1))
    BY <2>1, <2>2
  <2> QED
    BY <2>1, <2>2, <2>3, <2>4 DEF GateBounds, g, A, B
<1> QED
  BY <1>1, <1>2, <1>3, <1>5, <1>6 DEF In, Size

(* Counting the ANDs.                                                      *)
LEMMA AndsAre ==
    ASSUME NEW R \in Runs
    PROVE  /\ Ands(R, 0) = 0 /\ NumAndsOf(R) = Cardinality(AndGates(R.prog))
           /\ \A n \in Nat : Ands(R, n) \in Nat
           /\ \A j \in 1 .. Size(R) :
                Ands(R, j) = IF GateOf(R, j).op = "And" THEN Ands(R, j - 1) + 1 ELSE Ands(R, j - 1)
           /\ \A m, n \in Nat : m <= n => Ands(R, m) <= Ands(R, n)
           /\ NumAndsOf(R) \in Nat
<1> DEFINE S(k) == {j \in AndGates(R.prog) : j <= k}
<1>1. R.prog \in BooleanProgram /\ Size(R) \in Nat /\ DOMAIN R.prog.gates = 1 .. Size(R)
  BY ProgramOk
<1>2. AndGates(R.prog) = {k \in 1 .. Size(R) : GateOf(R, k).op = "And"}
  BY <1>1 DEF AndGates, GateOf
<1>3. IsFiniteSet(AndGates(R.prog))
  BY <1>1, AndGatesFinite
<1>4. \A k : IsFiniteSet(S(k)) /\ Cardinality(S(k)) \in Nat
  <2> SUFFICES ASSUME NEW k PROVE IsFiniteSet(S(k)) /\ Cardinality(S(k)) \in Nat
    OBVIOUS
  <2>1. S(k) \in SUBSET AndGates(R.prog)
    OBVIOUS
  <2> QED
    BY <1>3, <2>1, FS_Subset, FS_CardinalityType
<1>5. S(0) = {} /\ S(Size(R)) = AndGates(R.prog)
  BY <1>1, <1>2
<1>6. Ands(R, 0) = 0 /\ NumAndsOf(R) = Cardinality(AndGates(R.prog))
  BY <1>5, FS_EmptySet DEF Ands, NumAndsOf
<1>7. ASSUME NEW k \in 1 .. Size(R)
      PROVE  Ands(R, k) = IF GateOf(R, k).op = "And" THEN Ands(R, k - 1) + 1 ELSE Ands(R, k - 1)
  <2>1. CASE GateOf(R, k).op = "And"
    <3>1. S(k) = S(k - 1) \cup {k} /\ k \notin S(k - 1)
      BY <1>1, <1>2, <2>1
    <3> HIDE DEF S
    <3>2. Cardinality(S(k)) = Cardinality(S(k - 1)) + 1
      BY <1>4, <3>1, FS_AddElement
    <3> QED
      BY <2>1, <3>2 DEF Ands, S
  <2>2. CASE GateOf(R, k).op # "And"
    <3>1. S(k) = S(k - 1)
      BY <1>1, <1>2, <2>2
    <3> QED
      BY <2>2, <3>1 DEF Ands
  <2> QED
    BY <2>1, <2>2
<1>8. ASSUME NEW m \in Nat, NEW n \in Nat, m <= n PROVE Ands(R, m) <= Ands(R, n)
  <2>1. S(m) \subseteq S(n)
    BY <1>1, <1>2, <1>8
  <2> HIDE DEF S
  <2>2. Cardinality(S(m)) <= Cardinality(S(n))
    BY <1>4, <2>1, FS_Subset
  <2> QED
    BY <2>2 DEF Ands, S
<1>9. \A n \in Nat : Ands(R, n) \in Nat
  BY <1>4 DEF Ands
<1> QED
  BY <1>1, <1>6, <1>7, <1>8, <1>9 DEF NumAndsOf

(* The ANDs among the first n gates are numbered from 1 without gaps.      *)
IsAnd(R, j) == j \in 1 .. Size(R) /\ GateOf(R, j).op = "And"

(* The ANDs are numbered without gaps, in the order of the gates.          *)
LEMMA AndNumbers ==
    ASSUME NEW R \in Runs
    PROVE  /\ \A j : IsAnd(R, j) =>
                /\ j \in Nat /\ j - 1 \in Nat /\ Ands(R, j) \in 1 .. NumAndsOf(R)
                /\ Ands(R, j) = Ands(R, j - 1) + 1
           /\ \A j, k : IsAnd(R, j) /\ IsAnd(R, k) /\ Ands(R, j) = Ands(R, k) => j = k
           /\ \A j, n : IsAnd(R, j) /\ n \in Nat /\ Ands(R, j) <= Ands(R, n) => j <= n
           /\ \A n \in 0 .. Size(R) : \A i \in 1 .. Ands(R, n) :
                \E j \in 1 .. n : IsAnd(R, j) /\ Ands(R, j) = i
<1>0. /\ Size(R) \in Nat /\ Ands(R, 0) = 0 /\ NumAndsOf(R) = Ands(R, Size(R))
      /\ \A n \in Nat : Ands(R, n) \in Nat
      /\ \A m, n \in Nat : m <= n => Ands(R, m) <= Ands(R, n)
      /\ \A j \in 1 .. Size(R) :
                Ands(R, j) = IF GateOf(R, j).op = "And" THEN Ands(R, j - 1) + 1 ELSE Ands(R, j - 1)
  BY ProgramOk, AndsAre DEF NumAndsOf
<1>1. ASSUME NEW j, IsAnd(R, j)
      PROVE  /\ j \in Nat /\ j - 1 \in Nat /\ Ands(R, j) \in 1 .. NumAndsOf(R)
             /\ Ands(R, j) = Ands(R, j - 1) + 1
  <2>1. j \in 1 .. Size(R) /\ j - 1 \in Nat /\ j \in Nat /\ j <= Size(R)
    BY <1>0, <1>1 DEF IsAnd
  <2>2. Ands(R, j) = Ands(R, j - 1) + 1 /\ Ands(R, j - 1) \in Nat /\ Ands(R, j) <= NumAndsOf(R)
    BY <1>0, <1>1, <2>1 DEF IsAnd
  <2> QED
    BY <1>0, <2>1, <2>2
<1>2. ASSUME NEW j, NEW n \in Nat, IsAnd(R, j), Ands(R, j) <= Ands(R, n) PROVE j <= n
  <2> SUFFICES ASSUME ~(j <= n) PROVE FALSE
    OBVIOUS
  <2>1. j \in Nat /\ j - 1 \in Nat /\ Ands(R, j) = Ands(R, j - 1) + 1 /\ n <= j - 1
    BY <1>1, <1>2
  <2>2. Ands(R, n) <= Ands(R, j - 1) /\ Ands(R, n) \in Nat /\ Ands(R, j - 1) \in Nat
    BY <1>0, <2>1
  <2> QED
    BY <1>2, <2>1, <2>2
<1>3. ASSUME NEW j, NEW k, IsAnd(R, j), IsAnd(R, k), Ands(R, j) = Ands(R, k) PROVE j = k
  <2>1. j \in Nat /\ k \in Nat /\ Ands(R, j) \in Nat
    BY <1>0, <1>1, <1>3
  <2>2. j <= k /\ k <= j
    BY <1>2, <1>3, <2>1
  <2> QED
    BY <2>1, <2>2
<1> DEFINE G == {n \in Nat : n <= Size(R) => \A i \in 1 .. Ands(R, n) :
                                \E j \in 1 .. n : IsAnd(R, j) /\ Ands(R, j) = i}
<1>4. 0 \in G
  BY <1>0
<1>5. ASSUME NEW n \in Nat, n \in G PROVE n + 1 \in G
  <2> SUFFICES ASSUME n + 1 <= Size(R), NEW i \in 1 .. Ands(R, n + 1)
               PROVE  \E j \in 1 .. (n + 1) : IsAnd(R, j) /\ Ands(R, j) = i
    OBVIOUS
  <2>1. n + 1 \in 1 .. Size(R) /\ (n + 1) - 1 = n /\ n <= Size(R) /\ Ands(R, n) \in Nat
    BY <1>0
  <2>2. CASE i \in 1 .. Ands(R, n)
    <3>1. PICK j \in 1 .. n : IsAnd(R, j) /\ Ands(R, j) = i
      BY <1>5, <2>1, <2>2
    <3> QED
      BY <3>1
  <2>3. CASE i \notin 1 .. Ands(R, n)
    <3>1. GateOf(R, n + 1).op = "And" /\ Ands(R, n + 1) = Ands(R, n) + 1
      BY <1>0, <2>1, <2>3
    <3>2. IsAnd(R, n + 1) /\ Ands(R, n + 1) = i
      BY <2>1, <2>3, <3>1 DEF IsAnd
    <3> QED
      BY <3>2
  <2> QED
    BY <2>2, <2>3
<1> HIDE DEF G
<1>6. Nat \subseteq G
  BY <1>4, <1>5, SetInduction
<1>7. ASSUME NEW n \in 0 .. Size(R), NEW i \in 1 .. Ands(R, n)
      PROVE  \E j \in 1 .. n : IsAnd(R, j) /\ Ands(R, j) = i
  BY <1>0, <1>6 DEF G
<1> QED
  BY <1>1, <1>2, <1>3, <1>7
-------------------------------------------------------------------------------
(* A function on 1 .. n is a sequence of length n.                         *)
LEMMA FunIsSeq ==
    ASSUME NEW n \in Nat, NEW S, NEW f \in [1 .. n -> S]
    PROVE  f \in Seq(S) /\ Len(f) = n
OBVIOUS

(* The wires of a run: draws, clear values and masks.                      *)
InWiresOf(R) ==
    [k \in 1 .. In(R) |-> IF k \in SecretOf(R) THEN InputWire(k, X(k)) ELSE PublicWire(PublicOf(R, k))]
InBitsOf(R) == [k \in 1 .. In(R) |-> IF k \in SecretOf(R) THEN X(k) ELSE PublicOf(R, k)]

(* The draws behind every wire: of an input its own, and what pass 1 makes *)
(* of them at a gate.                                                      *)
LEMMA DrawsOfRun ==
    ASSUME NEW R \in Runs
    PROVE  /\ \A k \in 1 .. In(R) : DrawsIn(R)[k] = IF k \in SecretOf(R) THEN {k} ELSE {}
           /\ \A k \in Wires(R) : IsFiniteSet(DrawsIn(R)[k])
           /\ \A j \in 1 .. Size(R) :
                /\ GateOf(R, j).op = "Xor" =>
                     DrawsIn(R)[In(R) + j] = SymDiff(DrawsIn(R)[A(R, j)], DrawsIn(R)[B(R, j)])
                /\ GateOf(R, j).op = "Not" => DrawsIn(R)[In(R) + j] = DrawsIn(R)[A(R, j)]
                /\ GateOf(R, j).op \in {"Const0", "Const1"} => DrawsIn(R)[In(R) + j] = {}
           /\ DOMAIN DrawsIn(R) = Wires(R)
<1>1. PICK in : in = InWiresOf(R)
  OBVIOUS
<1>2. PICK w : w = EvaluatedWires(R.prog, in, In(R))
  OBVIOUS
<1>3. /\ R.prog \in BooleanProgram /\ RecordCanonical(R.prog) /\ In(R) \in Nat /\ Size(R) \in Nat
      /\ R.prog.num_inputs = In(R) /\ Len(R.prog.gates) = Size(R)
      /\ \A j \in 1 .. Size(R) : GateBounds(R, j)
  BY ProgramOk
<1>4. PICK S : in \in Seq(S) /\ Len(in) = In(R) /\ DOMAIN in = 1 .. In(R)
  <2> DEFINE S == {in[k] : k \in 1 .. In(R)}
  <2>1. in \in [1 .. In(R) -> S]
    BY <1>1 DEF InWiresOf
  <2>2. in \in Seq(S) /\ Len(in) = In(R)
    BY <1>3, <2>1, FunIsSeq
  <2> QED
    BY <2>1, <2>2
<1>5. /\ Len(w) = In(R) + Size(R)
      /\ \A k \in 1 .. In(R) : w[k] = in[k]
      /\ \A j \in 1 .. Size(R) : w[In(R) + j] = GateWire(R.prog, In(R), w, GateOf(R, j))
  <2>1. PICK p, d : p = R.prog /\ d = In(R)
    OBVIOUS
  <2>2. /\ p \in BooleanProgram /\ RecordCanonical(p) /\ Len(in) = p.num_inputs
        /\ w = EvaluatedWires(p, in, d)
    BY <1>2, <1>3, <1>4, <2>1
  <2>3. /\ Len(w) = p.num_inputs + Len(p.gates)
        /\ \A j \in 1 .. p.num_inputs : w[j] = in[j]
        /\ \A k \in 1 .. Len(p.gates) :
             w[p.num_inputs + k] = GateWire(p, d, w, p.gates[k])
    BY <1>4, <2>2, WiresAre
  <2> QED
    BY <1>3, <2>1, <2>3 DEF GateOf
<1>6. DOMAIN w = Wires(R)
  BY <1>2, <1>3, <1>4, <1>5, WiresDomain DEF Wires
<1>7. DrawsIn(R) = [k \in DOMAIN w |-> w[k].share]
  BY <1>1, <1>2 DEF DrawsIn, InWiresOf
<1>8. \A k \in Wires(R) : DrawsIn(R)[k] = w[k].share
  BY <1>6, <1>7
<1>9. \A k \in 1 .. In(R) : k \in Wires(R) /\ w[k] = IF k \in SecretOf(R) THEN InputWire(k, X(k))
                                                    ELSE PublicWire(PublicOf(R, k))
  BY <1>1, <1>3, <1>5 DEF Wires, InWiresOf
<1>10. ASSUME NEW k \in 1 .. In(R)
       PROVE  /\ IsWire(in[k]) /\ in[k].share = IF k \in SecretOf(R) THEN {k} ELSE {}
              /\ in[k].share \subseteq 1 .. In(R)
  <2>1. \A s, a, b : LET x == [share |-> s, lamA |-> a, lamB |-> b] IN IsWire(x) /\ x.share = s
    BY DEF IsWire
  <2>2. CASE k \in SecretOf(R)
    <3>1. in[k] = InputWire(k, X(k))
      BY <1>5, <1>9, <2>2
    <3> QED
      BY <2>1, <2>2, <3>1 DEF InputWire
  <2>3. CASE k \notin SecretOf(R)
    <3>1. in[k] = PublicWire(PublicOf(R, k))
      BY <1>5, <1>9, <2>3
    <3> QED
      BY <2>1, <2>3, <3>1 DEF PublicWire
  <2> QED
    BY <2>2, <2>3
<1>11. ASSUME NEW k \in Wires(R) PROVE IsFiniteSet(DrawsIn(R)[k])
  <2>1. /\ Cardinality(AndGates(R.prog)) \in Nat
        /\ w[k].share \subseteq 1 .. (In(R) + Cardinality(AndGates(R.prog)))
    BY <1>2, <1>3, <1>4, <1>10, SharesBounded DEF Wires
  <2>2. In(R) + Cardinality(AndGates(R.prog)) \in Nat
    BY <1>3, <2>1
  <2>3. \A m \in Nat : IsFiniteSet(1 .. m)
    BY FS_Interval
  <2>4. IsFiniteSet(w[k].share)
    BY <2>1, <2>2, <2>3, FS_Subset
  <2> QED
    BY <1>8, <2>4
<1>12. ASSUME NEW j \in 1 .. Size(R)
       PROVE  /\ GateOf(R, j).op = "Xor" =>
                     DrawsIn(R)[In(R) + j] = SymDiff(DrawsIn(R)[A(R, j)], DrawsIn(R)[B(R, j)])
              /\ GateOf(R, j).op = "Not" => DrawsIn(R)[In(R) + j] = DrawsIn(R)[A(R, j)]
              /\ GateOf(R, j).op \in {"Const0", "Const1"} => DrawsIn(R)[In(R) + j] = {}
  <2>1. PICK g : g = GateOf(R, j)
    OBVIOUS
  <2>2. /\ IsConst(g) <=> g.op \in {"Const0", "Const1"}
        /\ g.op \in {"Xor", "Not"} => g.in0 + 1 \in Wires(R) /\ A(R, j) = g.in0 + 1
        /\ g.op = "Xor" => g.in1 + 1 \in Wires(R) /\ B(R, j) = g.in1 + 1
        /\ In(R) + j \in Wires(R)
    BY <1>3, <2>1 DEF GateBounds, A, B, Wires
  <2>3. DrawsIn(R)[In(R) + j] = GateWire(R.prog, In(R), w, g).share
    BY <1>5, <1>8, <2>1, <2>2
  <2>4. CASE g.op = "Xor"
    <3>1. GateWire(R.prog, In(R), w, g) = EvalXor(w[g.in0 + 1], w[g.in1 + 1])
      BY <2>2, <2>4 DEF GateWire
    <3> QED
      BY <1>8, <2>1, <2>2, <2>3, <2>4, <3>1 DEF EvalXor, XorShares
  <2>5. CASE g.op = "Not"
    <3>1. GateWire(R.prog, In(R), w, g) = EvalNot(w[g.in0 + 1])
      BY <2>2, <2>5 DEF GateWire
    <3> QED
      BY <1>8, <2>1, <2>2, <2>3, <2>5, <3>1 DEF EvalNot
  <2>6. CASE g.op \in {"Const0", "Const1"}
    <3>1. GateWire(R.prog, In(R), w, g) = PublicWire(ConstBit(g.op = "Const1"))
      BY <2>2, <2>6 DEF GateWire
    <3> QED
      BY <2>1, <2>3, <2>6, <3>1 DEF PublicWire
  <2> QED
    BY <2>1, <2>4, <2>5, <2>6
<1>13. ASSUME NEW k \in 1 .. In(R)
       PROVE  DrawsIn(R)[k] = IF k \in SecretOf(R) THEN {k} ELSE {}
  BY <1>5, <1>8, <1>9, <1>10
<1>14. DOMAIN DrawsIn(R) = Wires(R)
  BY <1>6, <1>7
<1> QED
  BY <1>11, <1>12, <1>13, <1>14

(* The clear value of every wire.                                          *)
LEMMA ClearOfRun ==
    ASSUME NEW R \in Runs
    PROVE  /\ \A k \in 1 .. In(R) :
                ClearIn(R)[k] = IF k \in SecretOf(R) THEN X(k) ELSE PublicOf(R, k)
           /\ \A j \in 1 .. Size(R) : ClearIn(R)[In(R) + j] = ClearBit(ClearIn(R), GateOf(R, j))
           /\ \A k \in Wires(R) : IsBit(ClearIn(R)[k])
<1>1. PICK in : in = InBitsOf(R)
  OBVIOUS
<1>2. PICK v : v = ClearEval(R.prog, in)
  OBVIOUS
<1>3. /\ R.prog \in BooleanProgram /\ RecordCanonical(R.prog) /\ In(R) \in Nat /\ Size(R) \in Nat
      /\ R.prog.num_inputs = In(R) /\ Len(R.prog.gates) = Size(R)
      /\ \A j \in 1 .. Size(R) : GateBounds(R, j)
  BY ProgramOk
<1>4. PICK S : in \in Seq(S) /\ Len(in) = In(R)
  <2> DEFINE S == {in[k] : k \in 1 .. In(R)}
  <2>1. in \in [1 .. In(R) -> S]
    BY <1>1 DEF InBitsOf
  <2>2. in \in Seq(S) /\ Len(in) = In(R)
    BY <1>3, <2>1, FunIsSeq
  <2> QED
    BY <2>1, <2>2
<1>5. /\ \A k \in 1 .. In(R) : v[k] = in[k]
      /\ \A j \in 1 .. Size(R) : v[In(R) + j] = ClearBit(v, GateOf(R, j))
  <2>1. PICK p : p = R.prog
    OBVIOUS
  <2>2. /\ p \in BooleanProgram /\ RecordCanonical(p) /\ Len(in) = p.num_inputs
        /\ v = ClearEval(p, in)
    BY <1>2, <1>3, <1>4, <2>1
  <2>3. /\ \A j \in 1 .. p.num_inputs : v[j] = in[j]
        /\ \A k \in 1 .. Len(p.gates) : v[p.num_inputs + k] = ClearBit(v, p.gates[k])
    BY <1>4, <2>2, ClearAre
  <2> QED
    BY <1>3, <2>1, <2>3 DEF GateOf
<1>6. ClearIn(R) = v
  BY <1>1, <1>2 DEF ClearIn, InBitsOf
<1>7. \A k \in 1 .. In(R) : v[k] = IF k \in SecretOf(R) THEN X(k) ELSE PublicOf(R, k)
  BY <1>1, <1>5 DEF InBitsOf
<1>8. \A b : IsBit(ConstBit(b))
  BY BitClosed DEF ConstBit
<1>9. \A k : IsBit(X(k))
  <2>1. \A k : IsFiniteSet({{<<"input", k>>}})
    BY FS_Singleton
  <2>2. "input" \notin BlockTags
    BY DEF BlockTags
  <2> QED
    BY <2>1, <2>2 DEF IsBit, IsPoly, X, Var, BlockVar
<1> DEFINE G == {k \in Nat : IsBit(v[k])}
<1>10. \A k \in 1 .. In(R) : k \in G
  BY <1>3, <1>7, <1>8, <1>9 DEF PublicOf
<1>11. ASSUME NEW j \in 1 .. Size(R), \A u \in Reads(GateOf(R, j)) : u + 1 \in G
       PROVE  In(R) + j \in G
  <2>1. PICK g : g = GateOf(R, j)
    OBVIOUS
  <2>2. /\ g \in Gate /\ g.op \in {"And", "Xor", "Not", "Const0", "Const1"}
        /\ IsConst(g) <=> g.op \in {"Const0", "Const1"}
    BY <1>3, <2>1 DEF GateBounds
  <2>3. /\ g.op \in {"And", "Xor"} => Reads(g) = {g.in0, g.in1}
        /\ g.op = "Not" => Reads(g) = {g.in0}
    BY <2>2, GateCases
  <2>4. /\ g.op \in {"And", "Xor", "Not"} => IsBit(v[g.in0 + 1])
        /\ g.op \in {"And", "Xor"} => IsBit(v[g.in1 + 1])
    BY <1>11, <2>1, <2>3
  <2>5. IsBit(ClearBit(v, g))
    <3>1. CASE g.op = "And"
      <4>1. ClearBit(v, g) = v[g.in0 + 1] ** v[g.in1 + 1]
        BY <3>1 DEF ClearBit, IsConst, **
      <4> QED
        BY <2>4, <3>1, <4>1, BitClosed
    <3>2. CASE g.op = "Xor"
      <4>1. ClearBit(v, g) = v[g.in0 + 1] ++ v[g.in1 + 1]
        BY <3>2 DEF ClearBit, IsConst, ++
      <4> QED
        BY <2>4, <3>2, <4>1, BitClosed
    <3>3. CASE g.op = "Not"
      <4>1. ClearBit(v, g) = v[g.in0 + 1] ++ One
        BY <3>3 DEF ClearBit, IsConst, ++, NotBit, XorBit
      <4> QED
        BY <2>4, <3>3, <4>1, BitClosed
    <3>4. CASE g.op \in {"Const0", "Const1"}
      <4>1. ClearBit(v, g) = ConstBit(g.op = "Const1")
        BY <2>2, <3>4 DEF ClearBit, IsConst
      <4> QED
        BY <4>1, <1>8
    <3> QED
      BY <2>2, <3>1, <3>2, <3>3, <3>4
  <2> QED
    BY <1>3, <1>5, <2>1, <2>5
<1> HIDE DEF G
<1>12. \A k \in 1 .. (In(R) + Size(R)) : k \in G
  BY <1>3, <1>10, <1>11, WireInduction DEF GateOf
<1> QED
  BY <1>5, <1>6, <1>7, <1>12 DEF G, Wires

(* The Lambda of every wire, gate by gate.                                 *)
LEMMA LambdasOfRun ==
    ASSUME NEW R \in Runs
    PROVE  /\ \A k \in Wires(R) : IsBit(LambdaIn(R, k)) /\ IsBit(MaskIn(R, k)) /\ IsBit(ClearIn(R)[k])
           /\ \A k \in 1 .. In(R) :
                LambdaIn(R, k) = IF k \in SecretOf(R) THEN X(k) ++ MaskOf({k}) ELSE PublicOf(R, k)
           /\ \A j \in 1 .. Size(R) :
                /\ GateOf(R, j).op = "Xor" =>
                     LambdaIn(R, In(R) + j) = LambdaIn(R, A(R, j)) ++ LambdaIn(R, B(R, j))
                /\ GateOf(R, j).op = "Not" => LambdaIn(R, In(R) + j) = NotBit(LambdaIn(R, A(R, j)))
                /\ GateOf(R, j).op \in {"Const0", "Const1"} =>
                     LambdaIn(R, In(R) + j) = GateMask(GateOf(R, j))
                /\ GateOf(R, j).op = "And" =>
                     LambdaIn(R, In(R) + j) = (ClearIn(R)[A(R, j)] ** ClearIn(R)[B(R, j)])
                                              ++ MaskIn(R, In(R) + j)
<1>1. /\ In(R) \in Nat /\ Size(R) \in Nat /\ \A j \in 1 .. Size(R) : GateBounds(R, j)
  BY ProgramOk
<1>2. \A k \in Wires(R) : IsBit(MaskIn(R, k))
  BY DrawsOfRun, MaskIs DEF MaskIn
<1>3. \A k \in Wires(R) : IsBit(LambdaIn(R, k)) /\ IsBit(ClearIn(R)[k])
  BY <1>2, ClearOfRun, BitClosed DEF LambdaIn
<1>4. MaskOf({}) = Zero
  <2>1. MaskOf(SymDiff({}, {})) = MaskOf({}) ++ MaskOf({})
    BY FS_EmptySet, MaskOfXor
  <2>2. SymDiff({}, {}) = {}
    BY DEF SymDiff
  <2> QED
    BY <2>1, <2>2, XorIs
<1>5. ASSUME NEW k \in 1 .. In(R)
      PROVE  LambdaIn(R, k) = IF k \in SecretOf(R) THEN X(k) ++ MaskOf({k}) ELSE PublicOf(R, k)
  <2>1. /\ ClearIn(R)[k] = IF k \in SecretOf(R) THEN X(k) ELSE PublicOf(R, k)
        /\ DrawsIn(R)[k] = IF k \in SecretOf(R) THEN {k} ELSE {}
    BY ClearOfRun, DrawsOfRun
  <2>2. \A p : p ++ Zero = p
    BY XorIs
  <2> QED
    BY <1>4, <2>1, <2>2 DEF LambdaIn, MaskIn
<1>6. ASSUME NEW j \in 1 .. Size(R)
      PROVE  /\ GateOf(R, j).op = "Xor" =>
                     LambdaIn(R, In(R) + j) = LambdaIn(R, A(R, j)) ++ LambdaIn(R, B(R, j))
             /\ GateOf(R, j).op = "Not" => LambdaIn(R, In(R) + j) = NotBit(LambdaIn(R, A(R, j)))
             /\ GateOf(R, j).op \in {"Const0", "Const1"} =>
                     LambdaIn(R, In(R) + j) = GateMask(GateOf(R, j))
             /\ GateOf(R, j).op = "And" =>
                     LambdaIn(R, In(R) + j) = (ClearIn(R)[A(R, j)] ** ClearIn(R)[B(R, j)])
                                              ++ MaskIn(R, In(R) + j)
  <2> DEFINE g == GateOf(R, j)
             k == In(R) + j
             a == A(R, j)
             b == B(R, j)
  <2>1. /\ g.op \in {"And", "Xor", "Not", "Const0", "Const1"}
        /\ IsConst(g) <=> g.op \in {"Const0", "Const1"}
        /\ g.op \in {"And", "Xor", "Not"} => a \in Wires(R)
        /\ g.op \in {"And", "Xor"} => b \in Wires(R)
    BY <1>1 DEF GateBounds, Wires
  <2>2. ClearIn(R)[k] = ClearBit(ClearIn(R), g)
    BY ClearOfRun
  <2>3. /\ g.op = "Xor" => DrawsIn(R)[k] = SymDiff(DrawsIn(R)[a], DrawsIn(R)[b])
        /\ g.op = "Not" => DrawsIn(R)[k] = DrawsIn(R)[a]
        /\ g.op \in {"Const0", "Const1"} => DrawsIn(R)[k] = {}
        /\ \A w \in Wires(R) : IsFiniteSet(DrawsIn(R)[w])
    BY DrawsOfRun
  <2>4. g.in0 + 1 = a /\ g.in1 + 1 = b
    BY DEF A, B
  <2> HIDE DEF g, k, a, b
  <2>5. CASE g.op = "Xor"
    <3>1. ClearIn(R)[k] = ClearIn(R)[a] ++ ClearIn(R)[b]
      BY <2>2, <2>4, <2>5 DEF ClearBit, IsConst, ++
    <3>2. MaskIn(R, k) = MaskIn(R, a) ++ MaskIn(R, b)
      BY <2>1, <2>3, <2>5, MaskOfXor DEF MaskIn
    <3>3. \A p, q, r, s : (p ++ q) ++ (r ++ s) = (p ++ r) ++ (q ++ s)
      BY DEF ++, XorBit, SymDiff
    <3> QED
      BY <2>5, <3>1, <3>2, <3>3 DEF LambdaIn, g, k, a, b
  <2>6. CASE g.op = "Not"
    <3>1. ClearIn(R)[k] = NotBit(ClearIn(R)[a])
      BY <2>2, <2>4, <2>6 DEF ClearBit, IsConst
    <3>2. MaskIn(R, k) = MaskIn(R, a)
      BY <2>3, <2>6 DEF MaskIn
    <3>3. \A p, q : NotBit(p) ++ q = NotBit(p ++ q)
      BY DEF ++, NotBit, XorBit, SymDiff
    <3> QED
      BY <2>6, <3>1, <3>2, <3>3 DEF LambdaIn, g, k, a
  <2>7. CASE g.op \in {"Const0", "Const1"}
    <3>1. ClearIn(R)[k] = ConstBit(g.op = "Const1")
      BY <2>1, <2>2, <2>7 DEF ClearBit, IsConst
    <3>2. MaskIn(R, k) = Zero
      BY <1>4, <2>3, <2>7 DEF MaskIn
    <3>3. \A p : p ++ Zero = p
      BY XorIs
    <3> QED
      BY <2>7, <3>1, <3>2, <3>3 DEF LambdaIn, GateMask, g, k
  <2>8. CASE g.op = "And"
    <3>1. ClearIn(R)[k] = ClearIn(R)[a] ** ClearIn(R)[b]
      BY <2>2, <2>4, <2>8 DEF ClearBit, IsConst, **
    <3> QED
      BY <2>8, <3>1 DEF LambdaIn, g, k, a, b
  <2> QED
    BY <2>1, <2>5, <2>6, <2>7, <2>8 DEF g, k, a, b
<1> QED
  BY <1>2, <1>3, <1>5, <1>6

(* The shares of the wires and of sigma.                                   *)
LEMMA SharesOfRun ==
    ASSUME NEW R \in Runs
    PROVE  /\ \A k \in Wires(R) :
                /\ Shared(Garbler, ShareIn(R, Garbler, k), ShareIn(R, Evaluator, k))
                /\ Opened(ShareIn(R, Garbler, k), ShareIn(R, Evaluator, k)) = MaskIn(R, k)
           /\ \A j \in 1 .. Size(R) : GateOf(R, j).op = "And" =>
                /\ Shared(Garbler, SigmaIn(R, Garbler, j), SigmaIn(R, Evaluator, j))
                /\ Opened(SigmaIn(R, Garbler, j), SigmaIn(R, Evaluator, j))
                     = MaskIn(R, A(R, j)) ** MaskIn(R, B(R, j))
<1>1. ASSUME NEW k \in Wires(R)
      PROVE  /\ Shared(Garbler, ShareIn(R, Garbler, k), ShareIn(R, Evaluator, k))
             /\ Opened(ShareIn(R, Garbler, k), ShareIn(R, Evaluator, k)) = MaskIn(R, k)
  <2>1. IsFiniteSet(DrawsIn(R)[k])
    BY DrawsOfRun
  <2> QED
    BY <2>1, WireShared, Peers DEF ShareIn, MaskIn, MaskOf
<1>2. ASSUME NEW j \in 1 .. Size(R), GateOf(R, j).op = "And"
      PROVE  /\ Shared(Garbler, SigmaIn(R, Garbler, j), SigmaIn(R, Evaluator, j))
             /\ Opened(SigmaIn(R, Garbler, j), SigmaIn(R, Evaluator, j))
                  = MaskIn(R, A(R, j)) ** MaskIn(R, B(R, j))
  <2>1. A(R, j) \in Wires(R) /\ B(R, j) \in Wires(R)
    BY <1>2, ProgramOk DEF GateBounds, Wires
  <2>2. IsBit(MaskIn(R, A(R, j)) ** MaskIn(R, B(R, j)))
    BY <2>1, LambdasOfRun, BitClosed
  <2> QED
    BY <2>2, SigmaShared DEF SigmaIn
<1> QED
  BY <1>1, <1>2

(* The evaluator's label of wire k is the garbler's, plus Delta if Lambda  *)
(* is 1.                                                                   *)
Opens0(R, l, e, k) == e[k] = l[k] ++ (LambdaIn(R, k) ** Delta(Garbler))

(* An AND of the run at both parties.                                      *)
GarbledAt(R, l, j) == l[In(R) + j] = GarbledLabel(R, l, j)

IsLabelOf(R, j, l, e, x) ==
    x = EvalLabel(e[A(R, j)], e[B(R, j)], RowIn(R, l, j),
                  LambdaIn(R, A(R, j)), LambdaIn(R, B(R, j)),
                  MacPart(SigmaIn(R, Evaluator, j), ShareIn(R, Evaluator, In(R) + j),
                          ShareIn(R, Evaluator, A(R, j)), ShareIn(R, Evaluator, B(R, j)),
                          LambdaIn(R, A(R, j)), LambdaIn(R, B(R, j))),
                  TweakOf(R, j))

IsWitnessOf(R, j, y) ==
    y = Witness(SigmaIn(R, Evaluator, j), ShareIn(R, Evaluator, In(R) + j),
                ShareIn(R, Evaluator, A(R, j)), ShareIn(R, Evaluator, B(R, j)),
                LambdaIn(R, A(R, j)), LambdaIn(R, B(R, j)), LambdaIn(R, In(R) + j))

(* What the evaluator makes of a row: the label, Lambda and the witness.   *)
LEMMA AndOfRun ==
    ASSUME NEW R \in Runs, NEW j, IsAnd(R, j), NEW l, NEW e,
           IsBlock(l[A(R, j)]), IsBlock(l[B(R, j)]), GarbledAt(R, l, j),
           Opens0(R, l, e, A(R, j)), Opens0(R, l, e, B(R, j)),
           NEW x, IsLabelOf(R, j, l, e, x), NEW y, IsWitnessOf(R, j, y)
    PROVE  /\ x = l[In(R) + j] ++ (LambdaIn(R, In(R) + j) ** Delta(Garbler))
           /\ RowIn(R, l, j).b ++ LSB1(x) = LambdaIn(R, In(R) + j)
           /\ y = WitnessIn(R, j)
<1> DEFINE a == A(R, j)
           b == B(R, j)
           k == In(R) + j
           La == LambdaIn(R, a)
           Lb == LambdaIn(R, b)
           sg == SigmaIn(R, Garbler, j)
           se == SigmaIn(R, Evaluator, j)
           gg == ShareIn(R, Garbler, k)
           ge == ShareIn(R, Evaluator, k)
           ag == ShareIn(R, Garbler, a)
           ae == ShareIn(R, Evaluator, a)
           bg == ShareIn(R, Garbler, b)
           be == ShareIn(R, Evaluator, b)
           c == AndLambda(La, Lb, Opened(ag, ae), Opened(bg, be), Opened(sg, se), Opened(gg, ge))
           t == TweakOf(R, j)
           row == RowIn(R, l, j)
<1>1. /\ j \in 1 .. Size(R) /\ GateOf(R, j).op = "And"
      /\ a \in Wires(R) /\ b \in Wires(R) /\ k \in Wires(R)
  BY ProgramOk DEF IsAnd, GateBounds, Wires
<1>2. /\ Shared(Garbler, sg, se) /\ Shared(Garbler, gg, ge)
      /\ Shared(Garbler, ag, ae) /\ Shared(Garbler, bg, be)
      /\ Opened(ag, ae) = MaskIn(R, a) /\ Opened(bg, be) = MaskIn(R, b)
      /\ Opened(gg, ge) = MaskIn(R, k) /\ Opened(sg, se) = MaskIn(R, a) ** MaskIn(R, b)
  BY <1>1, SharesOfRun
<1>3. /\ IsBit(La) /\ IsBit(Lb) /\ IsBit(LambdaIn(R, k))
      /\ IsBit(MaskIn(R, a)) /\ IsBit(MaskIn(R, b)) /\ IsBit(ClearIn(R)[a]) /\ IsBit(ClearIn(R)[b])
  BY <1>1, LambdasOfRun
<1>4. c = LambdaIn(R, k)
  <2>1. c = (ClearIn(R)[a] ** ClearIn(R)[b]) ++ MaskIn(R, k)
    BY <1>2, <1>3, AndLambdaIs DEF LambdaIn
  <2> QED
    BY <1>1, <2>1, LambdasOfRun
<1>5. /\ row = Row(l[a], l[b], ag, bg, l[k], t)
      /\ l[k] = OutLabel(l[a], l[b], sg, gg, t)
  BY <1>1 DEF RowIn, GarbledLabel, GarbledAt
<1>6. /\ e[a] = l[a] ++ (La ** Delta(Garbler)) /\ e[b] = l[b] ++ (Lb ** Delta(Garbler))
      /\ x = EvalLabel(e[a], e[b], row, La, Lb, MacPart(se, ge, ae, be, La, Lb), t)
      /\ y = Witness(se, ge, ae, be, La, Lb, LambdaIn(R, k))
      /\ WitnessIn(R, j) = MacPart(sg, gg, ag, bg, La, Lb)
  BY DEF Opens0, WitnessIn, IsLabelOf, IsWitnessOf
<1>7. IsBlock(l[a]) /\ IsBlock(l[b])
  OBVIOUS
<1> HIDE DEF a, b, k, La, Lb, sg, se, gg, ge, ag, ae, bg, be, t, row
<1>8. /\ IsBlock(OutLabel(l[a], l[b], sg, gg, t))
      /\ EvalLabel(l[a] ++ (La ** Delta(Garbler)), l[b] ++ (Lb ** Delta(Garbler)), row, La, Lb,
                   MacPart(se, ge, ae, be, La, Lb), t)
           = OutLabel(l[a], l[b], sg, gg, t) ++ (c ** Delta(Garbler))
  BY <1>2, <1>3, <1>5, <1>7, AndLabelDecodes
<1>9. IsBlock(l[k]) /\ x = l[k] ++ (LambdaIn(R, k) ** Delta(Garbler))
  BY <1>4, <1>5, <1>6, <1>8
<1>10. row.b ++ LSB1(x) = LambdaIn(R, k)
  <2>1. row.b = LSB1(l[k])
    BY <1>5 DEF Row
  <2> QED
    BY <1>3, <1>9, <2>1, RowBit
<1>11. y = WitnessIn(R, j)
  BY <1>2, <1>3, <1>4, <1>6, WitnessesAgree
<1> QED
  BY <1>9, <1>10, <1>11 DEF k, row

(* A label of the garbler is a block.                                      *)
LEMMA GarbledIsBlock ==
    ASSUME NEW R \in Runs, NEW j \in 1 .. Size(R), NEW l,
           \A k \in 1 .. (In(R) + (j - 1)) : IsBlock(l[k])
    PROVE  IsBlock(GarbledLabel(R, l, j))
<1> DEFINE g == GateOf(R, j)
           a == A(R, j)
           b == B(R, j)
<1>1. /\ g.op \in {"And", "Xor", "Not", "Const0", "Const1"}
      /\ IsConst(g) <=> g.op \in {"Const0", "Const1"}
      /\ g.op \in {"And", "Xor", "Not"} => IsBlock(l[a])
      /\ g.op \in {"And", "Xor"} => IsBlock(l[b])
      /\ g.in0 + 1 = a /\ g.in1 + 1 = b
  BY ProgramOk DEF GateBounds, A, B
<1>2. CASE g.op = "And"
  <2>1. IsAnd(R, j) /\ In(R) + j \in Wires(R)
    BY <1>2, ProgramOk DEF IsAnd, Wires
  <2>2. /\ Shared(Garbler, SigmaIn(R, Garbler, j), SigmaIn(R, Evaluator, j))
        /\ Shared(Garbler, ShareIn(R, Garbler, In(R) + j), ShareIn(R, Evaluator, In(R) + j))
    BY <1>2, <2>1, SharesOfRun
  <2>3. IsBlock(KeyPart(SigmaIn(R, Garbler, j))) /\ IsBlock(KeyPart(ShareIn(R, Garbler, In(R) + j)))
    BY <2>2, KeyPartIs
  <2>4. IsBlock(Half(l[a], TweakOf(R, j))) /\ IsBlock(Half(l[b], TweakOf(R, j)))
    BY <1>1, <1>2, HalfOpens, BitClosed
  <2> HIDE DEF a, b
  <2> QED
    BY <1>2, <2>3, <2>4, BlockClosed DEF GarbledLabel, OutLabel, a, b
<1>3. CASE g.op = "Xor"
  <2>1. FabricLabel0(l, g) = l[a] ++ l[b]
    BY <1>1, <1>3 DEF FabricLabel0
  <2> QED
    BY <1>1, <1>3, <2>1, BlockClosed DEF GarbledLabel
<1>4. CASE g.op = "Not"
  <2>1. FabricLabel0(l, g) = l[a] ++ Delta(Garbler)
    BY <1>1, <1>4 DEF FabricLabel0, Flip
  <2> QED
    BY <1>1, <1>4, <2>1, BlockClosed, DeltaIsBlock DEF GarbledLabel
<1>5. CASE g.op \in {"Const0", "Const1"}
  <2>1. FabricLabel0(l, g) = ConstBit(g.op = "Const1") ** Delta(Garbler)
    BY <1>1, <1>5 DEF FabricLabel0, GateMask
  <2>2. IsBit(ConstBit(g.op = "Const1"))
    BY BitClosed DEF ConstBit
  <2> QED
    BY <1>5, <2>1, <2>2, BlockClosed, DeltaIsBlock DEF GarbledLabel
<1> QED
  BY <1>1, <1>2, <1>3, <1>4, <1>5

(* A gate without communication at both parties.                           *)
LEMMA FabricOfRun ==
    ASSUME NEW R \in Runs, NEW j \in 1 .. Size(R), GateOf(R, j).op # "And", NEW l, NEW e,
           \A k \in 1 .. (In(R) + (j - 1)) : IsBlock(l[k]) /\ Opens0(R, l, e, k)
    PROVE  FabricEvalLabel(e, GateOf(R, j)) =
             GarbledLabel(R, l, j) ++ (LambdaIn(R, In(R) + j) ** Delta(Garbler))
<1> DEFINE g == GateOf(R, j)
           a == A(R, j)
           b == B(R, j)
           k == In(R) + j
           D == Delta(Garbler)
<1>1. /\ g.op \in {"Xor", "Not", "Const0", "Const1"}
      /\ IsConst(g) <=> g.op \in {"Const0", "Const1"}
      /\ g.op \in {"Xor", "Not"} => IsBlock(l[a]) /\ Opens0(R, l, e, a) /\ a \in Wires(R)
      /\ g.op = "Xor" => IsBlock(l[b]) /\ Opens0(R, l, e, b) /\ b \in Wires(R)
      /\ g.in0 + 1 = a /\ g.in1 + 1 = b /\ k \in Wires(R)
  BY ProgramOk DEF GateBounds, A, B, Wires
<1>2. /\ g.op = "Xor" => LambdaIn(R, k) = LambdaIn(R, a) ++ LambdaIn(R, b)
      /\ g.op = "Not" => LambdaIn(R, k) = NotBit(LambdaIn(R, a))
      /\ g.op \in {"Const0", "Const1"} => LambdaIn(R, k) = GateMask(g)
      /\ \A w \in Wires(R) : IsBit(LambdaIn(R, w))
  BY LambdasOfRun
<1>3. GarbledLabel(R, l, j) = FabricLabel0(l, g)
  BY DEF GarbledLabel
<1> HIDE DEF g, a, b, k
<1>4. IsBlock(D) /\ IsPoly(D)
  BY DeltaIsBlock, BlockClosed
<1>5. CASE g.op = "Xor"
  <2>1. /\ FabricLabel0(l, g) = l[a] ++ l[b] /\ FabricEvalLabel(e, g) = e[a] ++ e[b]
    BY <1>1, <1>5 DEF FabricLabel0, FabricEvalLabel
  <2>2. (LambdaIn(R, a) ++ LambdaIn(R, b)) ** D = (LambdaIn(R, a) ** D) ++ (LambdaIn(R, b) ** D)
    BY <1>1, <1>2, <1>4, <1>5, BitClosed, Distribute
  <2>3. \A p, q, r, s : (p ++ q) ++ (r ++ s) = (p ++ r) ++ (q ++ s)
    BY DEF ++, XorBit, SymDiff
  <2>4. e[a] = l[a] ++ (LambdaIn(R, a) ** D) /\ e[b] = l[b] ++ (LambdaIn(R, b) ** D)
    BY <1>1, <1>5 DEF Opens0
  <2> QED
    BY <1>2, <1>3, <1>5, <2>1, <2>2, <2>3, <2>4 DEF g, k
<1>6. CASE g.op = "Not"
  <2>1. /\ FabricLabel0(l, g) = l[a] ++ D /\ FabricEvalLabel(e, g) = e[a]
    BY <1>1, <1>6 DEF FabricLabel0, FabricEvalLabel, Flip
  <2>2. NotBit(LambdaIn(R, a)) = LambdaIn(R, a) ++ One
    BY DEF NotBit, ++, XorBit
  <2>3. (LambdaIn(R, a) ++ One) ** D = (LambdaIn(R, a) ** D) ++ D
    <3>1. (LambdaIn(R, a) ++ One) ** D = (LambdaIn(R, a) ** D) ++ (One ** D)
      BY <1>1, <1>2, <1>4, <1>6, BitClosed, Distribute
    <3> QED
      BY <1>4, <3>1, AndLaws
  <2>4. \A p, q, r : p ++ q = (p ++ r) ++ (q ++ r)
    BY DEF ++, XorBit, SymDiff
  <2>5. e[a] = l[a] ++ (LambdaIn(R, a) ** D)
    BY <1>1, <1>6 DEF Opens0
  <2> QED
    BY <1>2, <1>3, <1>6, <2>1, <2>2, <2>3, <2>4, <2>5 DEF g, k
<1>7. CASE g.op \in {"Const0", "Const1"}
  <2>1. /\ FabricLabel0(l, g) = GateMask(g) ** D /\ FabricEvalLabel(e, g) = Zero
    BY <1>1, <1>7 DEF FabricLabel0, FabricEvalLabel
  <2>2. \A p : Zero = p ++ p
    BY XorIs
  <2> QED
    BY <1>2, <1>3, <1>7, <2>1, <2>2 DEF g, k
<1> QED
  BY <1>1, <1>5, <1>6, <1>7
-------------------------------------------------------------------------------
(* The names the actions use, in the run R.                                *)
LEMMA NamesAre ==
    ASSUME NEW R \in Runs, Running(R)
    PROVE  /\ NumIn = In(R) /\ Inputs = 1 .. In(R) /\ Secret = SecretOf(R)
           /\ \A k : PublicBit(k) = PublicOf(R, k)
           /\ DrawsOf = DrawsIn(R) /\ Clear = ClearIn(R)
           /\ OutWires = OutsOf(R) /\ Opener = Opens(R) /\ SeedPoint = SeedOf(R)
           /\ prog.num_wires = In(R) + Size(R) /\ 1 .. prog.num_wires = Wires(R)
           /\ Len(prog.gates) = Size(R) /\ NumAnds = NumAndsOf(R)
           /\ prog = R.prog /\ owner = R.owner /\ recipient = R.recipient
<1>1. prog = R.prog /\ owner = R.owner /\ recipient = R.recipient
  BY DEF Running
<1>2. NumIn = In(R) /\ Inputs = 1 .. In(R) /\ Secret = SecretOf(R)
  BY <1>1 DEF NumIn, Inputs, Secret, In, SecretOf
<1>3. \A k : PublicBit(k) = PublicOf(R, k)
  BY <1>1 DEF PublicBit, PublicOf
<1>4. DrawsOf = DrawsIn(R) /\ Clear = ClearIn(R)
  <2>1. [k \in Inputs |-> IF k \in Secret THEN InputWire(k, X(k)) ELSE PublicWire(PublicBit(k))]
          = [k \in 1 .. In(R) |->
               IF k \in SecretOf(R) THEN InputWire(k, X(k)) ELSE PublicWire(PublicOf(R, k))]
    BY <1>2, <1>3
  <2>2. [k \in Inputs |-> ClearInput(k)]
          = [k \in 1 .. In(R) |-> IF k \in SecretOf(R) THEN X(k) ELSE PublicOf(R, k)]
    BY <1>2, <1>3 DEF ClearInput
  <2> QED
    BY <1>1, <1>2, <2>1, <2>2 DEF DrawsOf, DrawsIn, Clear, ClearIn
<1>5. OutWires = OutsOf(R) /\ Opener = Opens(R) /\ SeedPoint = SeedOf(R)
  BY <1>1, <1>2 DEF OutWires, OutsOf, Opener, Opens, SeedPoint, SeedOf
<1>6. /\ R.prog.num_wires = In(R) + Size(R) /\ Len(R.prog.gates) = Size(R)
      /\ NumAndsOf(R) = Cardinality(AndGates(R.prog))
  BY ProgramOk, AndsAre
<1> QED
  BY <1>1, <1>2, <1>3, <1>4, <1>5, <1>6 DEF NumAnds, Wires

(* The gate party p is about to take.                                      *)
LEMMA GateIs ==
    ASSUME NEW R \in Runs, Running(R), NEW p \in Party, NEW n, pc[p] = n, n \in 0 .. Size(R)
    PROVE  /\ more(p) <=> n + 1 \in 1 .. Size(R)
           /\ ~more(p) <=> n = Size(R)
           /\ Now(p) = GateOf(R, n + 1)
           /\ In0(p) = A(R, n + 1) /\ In1(p) = B(R, n + 1) /\ Id(p) = In(R) + (n + 1)
           /\ IsAnd(R, n + 1) => Ai(p) = Ands(R, n + 1) /\ Sigma(p) = SigmaIn(R, p, n + 1)
<1>1. /\ prog = R.prog /\ NumIn = In(R) /\ Len(prog.gates) = Size(R) /\ DrawsOf = DrawsIn(R)
      /\ Size(R) \in Nat /\ In(R) \in Nat /\ n \in Nat
  BY NamesAre, ProgramOk
<1>2. (more(p) <=> n + 1 \in 1 .. Size(R)) /\ (~more(p) <=> n = Size(R))
  BY <1>1 DEF more
<1>3. Now(p) = GateOf(R, n + 1) /\ Id(p) = In(R) + (n + 1)
  BY <1>1 DEF Now, GateOf, Id
<1>4. In0(p) = A(R, n + 1) /\ In1(p) = B(R, n + 1)
  BY <1>3 DEF In0, In1, A, B
<1>5. ASSUME IsAnd(R, n + 1) PROVE Ai(p) = Ands(R, n + 1) /\ Sigma(p) = SigmaIn(R, p, n + 1)
  <2>1. Ai(p) = Ands(R, n) + 1
    BY <1>1 DEF Ai, Ands
  <2>2. Ands(R, n + 1) = Ands(R, (n + 1) - 1) + 1 /\ (n + 1) - 1 = n
    BY <1>1, <1>5, AndNumbers
  <2>3. Ai(p) = Ands(R, n + 1)
    BY <2>1, <2>2
  <2> QED
    BY <1>1, <1>4, <2>3 DEF Sigma, SigmaIn, MaskIn
<1> QED
  BY <1>2, <1>3, <1>4, <1>5
-------------------------------------------------------------------------------
(* The channels.                                                           *)
LEMMA ChannelEnds ==
    /\ \A c \in Channel : WriterOf(c) \in Party /\ ReaderOf(c) \in Party /\ WriterOf(c) # ReaderOf(c)
    /\ \A p \in Party : /\ send_io(p) \in Channel /\ WriterOf(send_io(p)) = p
                        /\ recv_io(p) \in Channel /\ ReaderOf(recv_io(p)) = p
                        /\ recv_io(p) = send_io(Peer(p))
                        /\ send_io(p) # recv_io(p)
                        /\ send_io(p) \in {"io", "sib"} /\ recv_io(p) \in {"io", "sib"}
    /\ Channel = {"io", "io_back", "sib"}
    /\ send_io(Garbler) = "io" /\ recv_io(Garbler) = "sib"
    /\ send_io(Evaluator) = "sib" /\ recv_io(Evaluator) = "io"
    /\ WriterOf("io") = Garbler /\ ReaderOf("io") = Evaluator
    /\ WriterOf("sib") = Evaluator /\ ReaderOf("sib") = Garbler
    /\ WriterOf("io_back") = Evaluator /\ ReaderOf("io_back") = Garbler
    /\ Party = {Garbler, Evaluator} /\ Garbler # Evaluator
    /\ Peer(Garbler) = Evaluator /\ Peer(Evaluator) = Garbler
BY PartyAssumption DEF Channel, WriterOf, ReaderOf, Party, Peer, send_io, recv_io

(* A message sent is the next on its channel.                              *)
LEMMA QueueAppend ==
    ASSUME NEW R, NEW l, NEW c, NEW w, NEW s \in Nat, NEW r \in Nat, NEW msg,
           Carries(R, l, c, w, s, r), Message(R, l, c, s + 1, msg)
    PROVE  Carries(R, l, c, Append(w, msg), s + 1, r)
<1>1. PICK S : w \in Seq(S)
  BY DEF Carries, IsQueue
<1> DEFINE T == S \cup {msg}
           v == Append(w, msg)
<1>2. w \in Seq(T) /\ msg \in T /\ Len(w) \in Nat
  BY <1>1
<1> HIDE DEF T
<1>3. /\ v \in Seq(T) /\ Len(v) = Len(w) + 1
      /\ \A j \in 1 .. Len(w) : v[j] = w[j]
      /\ v[Len(w) + 1] = msg
  BY <1>2, AppendProperties
<1>4. r + Len(w) = s
  BY DEF Carries
<1>5. ASSUME NEW j \in 1 .. Len(v) PROVE Message(R, l, c, r + j, v[j])
  <2>1. CASE j \in 1 .. Len(w)
    BY <1>3, <2>1 DEF Carries
  <2>2. CASE j = Len(w) + 1
    <3>1. r + j = s + 1
      BY <1>2, <1>4, <2>2
    <3> QED
      BY <1>3, <2>2, <3>1
  <2> QED
    BY <1>2, <1>3, <2>1, <2>2
<1>6. r + Len(v) = s + 1
  BY <1>2, <1>3, <1>4
<1> QED
  BY <1>3, <1>5, <1>6 DEF Carries, IsQueue

(* A message read is the oldest on its channel.                            *)
LEMMA QueueTail ==
    ASSUME NEW R, NEW l, NEW c, NEW w, NEW s \in Nat, NEW r \in Nat,
           Carries(R, l, c, w, s, r), w # <<>>
    PROVE  Carries(R, l, c, Tail(w), s, r + 1) /\ Message(R, l, c, r + 1, Head(w))
<1>1. PICK S : w \in Seq(S)
  BY DEF Carries, IsQueue
<1> DEFINE v == Tail(w)
<1>2. /\ v \in Seq(S) /\ Head(w) = w[1] /\ Len(v) = Len(w) - 1
      /\ Len(w) \in Nat /\ Len(w) >= 1
      /\ \A j \in 1 .. Len(v) : v[j] = w[j + 1]
  <2>1. Len(w) \in Nat /\ (Len(w) = 0 => w = <<>>)
    BY <1>1, EmptySeq
  <2>2. v \in Seq(S) /\ Head(w) = w[1] /\ Len(v) = Len(w) - 1
        /\ \A j \in 1 .. Len(v) : v[j] = w[j + 1]
    BY <1>1, HeadTailProperties
  <2> QED
    BY <2>1, <2>2
<1>3. r + Len(w) = s
  BY DEF Carries
<1> HIDE DEF v
<1>4. ASSUME NEW j \in 1 .. Len(v) PROVE Message(R, l, c, (r + 1) + j, v[j])
  <2>1. j + 1 \in 1 .. Len(w) /\ r + (j + 1) = (r + 1) + j
    BY <1>2
  <2>2. Message(R, l, c, r + (j + 1), w[j + 1])
    BY <2>1 DEF Carries
  <2> QED
    BY <1>2, <2>1, <2>2
<1>5. (r + 1) + Len(v) = s
  <2>1. \A x, y \in Nat : x >= 1 /\ r + x = s /\ y = x - 1 => (r + 1) + y = s
    OBVIOUS
  <2>2. Len(v) \in Nat
    BY <1>2
  <2> QED
    BY <1>2, <1>3, <2>1, <2>2
<1>6. Message(R, l, c, r + 1, w[1])
  BY <1>2 DEF Carries
<1> QED
  BY <1>2, <1>4, <1>5, <1>6 DEF Carries, IsQueue, v

(* The garbler's labels only grow, and messages say nothing of labels to   *)
(* come.                                                                   *)
Grows(R, l, k) ==
    /\ Len(l) \in Nat /\ Len(k) \in Nat /\ In(R) <= Len(l) /\ Len(l) <= Len(k)
    /\ \A i \in 1 .. Len(l) : k[i] = l[i]

(* A message stays what it is when the garbler gets more labels.           *)
LEMMA MessageStays ==
    ASSUME NEW R \in Runs, NEW l, NEW k, Grows(R, l, k), NEW c, NEW n, NEW msg,
           Message(R, l, c, n, msg)
    PROVE  Message(R, k, c, n, msg)
<1>1. In(R) \in Nat /\ Size(R) \in Nat /\ \A j \in 1 .. Size(R) : GateBounds(R, j)
  BY ProgramOk
<1>2. /\ Len(l) \in Nat /\ Len(k) \in Nat /\ In(R) <= Len(l) /\ Len(l) <= Len(k)
      /\ \A i \in 1 .. Len(l) : k[i] = l[i]
  BY DEF Grows
<1>3. \A i \in SecretOf(R) : k[i] = l[i]
  BY <1>1, <1>2 DEF SecretOf
<1>4. [i \in SecretOf(R) |-> l[i] ++ (LambdaIn(R, i) ** Delta(Garbler))]
        = [i \in SecretOf(R) |-> k[i] ++ (LambdaIn(R, i) ** Delta(Garbler))]
  BY <1>3
<1>5. ASSUME NEW j \in 1 .. Size(R), GateOf(R, j).op = "And", In(R) + j <= Len(l)
      PROVE  In(R) + j <= Len(k) /\ RowIn(R, k, j) = RowIn(R, l, j)
  <2>1. A(R, j) \in 1 .. (In(R) + (j - 1)) /\ B(R, j) \in 1 .. (In(R) + (j - 1))
    BY <1>1, <1>5 DEF GateBounds
  <2>2. /\ A(R, j) \in 1 .. Len(l) /\ B(R, j) \in 1 .. Len(l)
        /\ In(R) + j \in 1 .. Len(l) /\ In(R) + j <= Len(k)
    BY <1>1, <1>2, <1>5, <2>1
  <2> QED
    BY <1>2, <2>2 DEF RowIn
<1>6. IoMessage(R, l, n, msg) => IoMessage(R, k, n, msg)
  BY <1>4, <1>5 DEF IoMessage
<1> QED
  BY <1>6 DEF Message

(* The channels are right after a step that sends and reads nothing,       *)
LEMMA ChannelsStay ==
    ASSUME NEW R \in Runs, ChannelsOk(R), Grows(R, lab[Garbler], lab'[Garbler]),
           UNCHANGED <<wire, seen>>
    PROVE  ChannelsOk(R)'
<1>1. ASSUME NEW c \in Channel
      PROVE  Carries(R, lab'[Garbler], c, wire'[c], seen'[WriterOf(c)][c], seen'[ReaderOf(c)][c])
  <2>1. Carries(R, lab[Garbler], c, wire[c], seen[WriterOf(c)][c], seen[ReaderOf(c)][c])
    BY DEF ChannelsOk
  <2> QED
    BY <2>1, MessageStays DEF Carries
<1> QED
  BY <1>1 DEF ChannelsOk

(* after one that sends the right message,                                 *)
LEMMA SendOk ==
    ASSUME NEW R \in Runs, ChannelsOk(R), Grows(R, lab[Garbler], lab'[Garbler]),
           DOMAIN wire = Channel, seen \in [Party -> [Channel -> Nat]],
           NEW p, NEW c \in Channel, p = WriterOf(c), NEW msg,
           Send(p, c, msg), Message(R, lab'[Garbler], c, seen[p][c] + 1, msg)
    PROVE  ChannelsOk(R)'
<1>1. \A e \in Channel : WriterOf(e) \in Party /\ ReaderOf(e) \in Party /\ WriterOf(e) # ReaderOf(e)
  BY ChannelEnds
<1>2. /\ wire' = [wire EXCEPT ![c] = Append(@, msg)]
      /\ seen' = [seen EXCEPT ![p][c] = @ + 1]
  BY DEF Send
<1>3. ASSUME NEW e \in Channel
      PROVE  Carries(R, lab'[Garbler], e, wire'[e], seen'[WriterOf(e)][e], seen'[ReaderOf(e)][e])
  <2>1. Carries(R, lab[Garbler], e, wire[e], seen[WriterOf(e)][e], seen[ReaderOf(e)][e])
    BY DEF ChannelsOk
  <2>2. Carries(R, lab'[Garbler], e, wire[e], seen[WriterOf(e)][e], seen[ReaderOf(e)][e])
    BY <2>1, MessageStays DEF Carries
  <2>3. CASE e # c
    <3>1. wire'[e] = wire[e] /\ \A q \in Party : seen'[q][e] = seen[q][e]
      BY <1>2, <2>3
    <3> QED
      BY <1>1, <2>2, <3>1
  <2>4. CASE e = c
    <3>1. /\ wire'[c] = Append(wire[c], msg) /\ seen'[p][c] = seen[p][c] + 1
          /\ seen'[ReaderOf(c)][c] = seen[ReaderOf(c)][c]
      BY <1>1, <1>2
    <3>2. seen[p][c] \in Nat /\ seen[ReaderOf(c)][c] \in Nat
      BY <1>1
    <3> QED
      BY <2>2, <2>4, <3>1, <3>2, QueueAppend
  <2> QED
    BY <2>3, <2>4
<1> QED
  BY <1>3 DEF ChannelsOk

(* and after one that reads a message.                                     *)
LEMMA RecvOk ==
    ASSUME NEW R \in Runs, ChannelsOk(R), Grows(R, lab[Garbler], lab'[Garbler]),
           DOMAIN wire = Channel, seen \in [Party -> [Channel -> Nat]],
           NEW p, NEW c \in Channel, p = ReaderOf(c), Arrived(c), Recv(p, c)
    PROVE  ChannelsOk(R)'
<1>1. \A e \in Channel : WriterOf(e) \in Party /\ ReaderOf(e) \in Party /\ WriterOf(e) # ReaderOf(e)
  BY ChannelEnds
<1>2. wire' = [wire EXCEPT ![c] = Tail(@)] /\ seen' = [seen EXCEPT ![p][c] = @ + 1]
  BY DEF Recv
<1>3. ASSUME NEW e \in Channel
      PROVE  Carries(R, lab'[Garbler], e, wire'[e], seen'[WriterOf(e)][e], seen'[ReaderOf(e)][e])
  <2>1. Carries(R, lab[Garbler], e, wire[e], seen[WriterOf(e)][e], seen[ReaderOf(e)][e])
    BY DEF ChannelsOk
  <2>2. Carries(R, lab'[Garbler], e, wire[e], seen[WriterOf(e)][e], seen[ReaderOf(e)][e])
    BY <2>1, MessageStays DEF Carries
  <2>3. CASE e # c
    <3>1. wire'[e] = wire[e] /\ \A q \in Party : seen'[q][e] = seen[q][e]
      BY <1>2, <2>3
    <3> QED
      BY <1>1, <2>2, <3>1
  <2>4. CASE e = c
    <3>1. /\ wire'[c] = Tail(wire[c]) /\ seen'[p][c] = seen[p][c] + 1
          /\ seen'[WriterOf(c)][c] = seen[WriterOf(c)][c]
      BY <1>1, <1>2
    <3>2. seen[WriterOf(c)][c] \in Nat /\ seen[p][c] \in Nat /\ wire[c] # <<>>
      BY <1>1 DEF Arrived
    <3> QED
      BY <2>2, <2>4, <3>1, <3>2, QueueTail
  <2> QED
    BY <2>3, <2>4
<1> QED
  BY <1>3 DEF ChannelsOk

(* The message a party reads.                                              *)
LEMMA HeadOk ==
    ASSUME NEW R \in Runs, ChannelsOk(R), seen \in [Party -> [Channel -> Nat]],
           NEW p, NEW c \in Channel, p = ReaderOf(c), Arrived(c)
    PROVE  Message(R, lab[Garbler], c, seen[p][c] + 1, Head(wire[c]))
<1>1. WriterOf(c) \in Party /\ ReaderOf(c) \in Party
  BY ChannelEnds
<1>2. Carries(R, lab[Garbler], c, wire[c], seen[WriterOf(c)][c], seen[p][c])
  BY DEF ChannelsOk
<1> QED
  BY <1>1, <1>2, QueueTail DEF Arrived
-------------------------------------------------------------------------------
(* A step of party p: it gets to step a after n gates, with the tables     *)
(* that follow; party q keeps all it has.                                  *)
Same(q) ==
    /\ at'[q] = at[q] /\ pc'[q] = pc[q] /\ shr'[q] = shr[q] /\ msk'[q] = msk[q]
    /\ lab'[q] = lab[q] /\ seed'[q] = seed[q] /\ Lambda_AND'[q] = Lambda_AND[q]
    /\ M1_t'[q] = M1_t[q]

Becomes(p, a, n, s, m, l, sd, L, M) ==
    /\ at'[p] = a /\ pc'[p] = n /\ shr'[p] = s /\ msk'[p] = m
    /\ lab'[p] = l /\ seed'[p] = sd /\ Lambda_AND'[p] = L /\ M1_t'[p] = M
    /\ \A q \in Party : q # p => Same(q)
    /\ Tables' /\ UNCHANGED <<prog, owner, recipient>>

Talked(R, p, a, n) ==
    /\ seen'[p] = CountedTo(R, p, a, n) /\ \A q \in Party : q # p => seen'[q] = seen[q]
    /\ ChannelsOk(R)'

(* Such a step keeps the invariant, if what it makes of party p is right.  *)
LEMMA Moved ==
    ASSUME NEW R \in Runs, RunInv(R), NEW p \in Party, NEW a, NEW n, NEW s, NEW m, NEW l, NEW sd,
           NEW L, NEW M, Becomes(p, a, n, s, m, l, sd, L, M),
           PartyState(R, p, a, n, s, m, l, sd, L, M), Talked(R, p, a, n), Matches(R)',
           Decodes(R) => ValuesAre(R, at'[Evaluator], val')
    PROVE  RunInv(R)'
<1>1. Running(R)' /\ Tables'
  BY DEF RunInv, Running, Becomes
<1>2. ASSUME NEW q \in Party PROVE Stands(R, q)' /\ CountsOk(R, q)'
  <2>1. CASE q = p
    BY <2>1 DEF Becomes, Talked, Stands, CountsOk
  <2>2. CASE q # p
    <3>1. Same(q) /\ seen'[q] = seen[q]
      BY <2>2 DEF Becomes, Talked
    <3>2. Stands(R, q) /\ CountsOk(R, q)
      BY DEF RunInv
    <3> QED
      BY <3>1, <3>2 DEF Same, Stands, CountsOk
  <2> QED
    BY <2>1, <2>2
<1> QED
  BY <1>1, <1>2 DEF RunInv, Talked

(* Table t becomes u: it has v at p.                                       *)
Sets(t, u, p, v) == (u = t /\ v = t[p]) \/ u = [t EXCEPT ![p] = v]

(* Only the entry of p changes.                                            *)
LEMMA SetsOne ==
    ASSUME NEW t, DOMAIN t = Party, NEW p \in Party, NEW u, NEW v, Sets(t, u, p, v)
    PROVE  DOMAIN u = Party /\ u[p] = v /\ \A q \in Party : q # p => u[q] = t[q]
<1>1. CASE u = t /\ v = t[p]
  BY <1>1
<1>2. CASE u = [t EXCEPT ![p] = v]
  BY <1>2
<1> QED
  BY <1>1, <1>2 DEF Sets

Puts(p, a, n, s, m, l, sd, L, M) ==
    /\ Sets(at, at', p, a) /\ Sets(pc, pc', p, n) /\ Sets(shr, shr', p, s)
    /\ Sets(msk, msk', p, m) /\ Sets(lab, lab', p, l) /\ Sets(seed, seed', p, sd)
    /\ Sets(Lambda_AND, Lambda_AND', p, L) /\ Sets(M1_t, M1_t', p, M)
    /\ \E v : Sets(val, val', p, v)
    /\ UNCHANGED <<wire, seen>> \/ \E c, msg : Send(p, c, msg) \/ Recv(p, c)
    /\ UNCHANGED <<prog, owner, recipient>>

(* The updates of an action, table by table, make such a step.             *)
LEMMA BecomesBy ==
    ASSUME NEW p \in Party, Tables, NEW a, NEW n, NEW s, NEW m, NEW l, NEW sd, NEW L, NEW M,
           Puts(p, a, n, s, m, l, sd, L, M)
    PROVE  Becomes(p, a, n, s, m, l, sd, L, M)
<1>1. /\ DOMAIN at = Party /\ DOMAIN pc = Party /\ DOMAIN shr = Party /\ DOMAIN msk = Party
      /\ DOMAIN lab = Party /\ DOMAIN seed = Party /\ DOMAIN Lambda_AND = Party
      /\ DOMAIN M1_t = Party /\ DOMAIN val = Party
      /\ DOMAIN wire = Channel /\ DOMAIN seen = Party
  BY DEF Tables
<1>2. PICK v : /\ Sets(at, at', p, a) /\ Sets(pc, pc', p, n) /\ Sets(shr, shr', p, s)
               /\ Sets(msk, msk', p, m) /\ Sets(lab, lab', p, l) /\ Sets(seed, seed', p, sd)
               /\ Sets(Lambda_AND, Lambda_AND', p, L) /\ Sets(M1_t, M1_t', p, M)
               /\ Sets(val, val', p, v)
  BY DEF Puts
<1>3. DOMAIN wire' = Channel /\ DOMAIN seen' = Party
  <2>1. CASE UNCHANGED <<wire, seen>>
    BY <1>1, <2>1
  <2>2. CASE \E c, msg : Send(p, c, msg) \/ Recv(p, c)
    BY <1>1, <2>2 DEF Send, Recv
  <2> QED
    BY <2>1, <2>2 DEF Puts
<1>4. DOMAIN at' = Party /\ at'[p] = a /\ \A q \in Party : q # p => at'[q] = at[q]
  BY <1>1, <1>2, SetsOne
<1>5. DOMAIN pc' = Party /\ pc'[p] = n /\ \A q \in Party : q # p => pc'[q] = pc[q]
  BY <1>1, <1>2, SetsOne
<1>6. DOMAIN shr' = Party /\ shr'[p] = s /\ \A q \in Party : q # p => shr'[q] = shr[q]
  BY <1>1, <1>2, SetsOne
<1>7. DOMAIN msk' = Party /\ msk'[p] = m /\ \A q \in Party : q # p => msk'[q] = msk[q]
  BY <1>1, <1>2, SetsOne
<1>8. DOMAIN lab' = Party /\ lab'[p] = l /\ \A q \in Party : q # p => lab'[q] = lab[q]
  BY <1>1, <1>2, SetsOne
<1>9. DOMAIN seed' = Party /\ seed'[p] = sd /\ \A q \in Party : q # p => seed'[q] = seed[q]
  BY <1>1, <1>2, SetsOne
<1>10. /\ DOMAIN Lambda_AND' = Party /\ Lambda_AND'[p] = L
       /\ \A q \in Party : q # p => Lambda_AND'[q] = Lambda_AND[q]
  BY <1>1, <1>2, SetsOne
<1>11. /\ DOMAIN M1_t' = Party /\ M1_t'[p] = M
       /\ \A q \in Party : q # p => M1_t'[q] = M1_t[q]
  BY <1>1, <1>2, SetsOne
<1>12. \A q \in Party : q # p => Same(q)
  BY <1>4, <1>5, <1>6, <1>7, <1>8, <1>9, <1>10, <1>11 DEF Same
<1>13. Tables'
  <2>1. DOMAIN val' = Party
    BY <1>1, <1>2, SetsOne
  <2> QED
    BY <1>3, <1>4, <1>5, <1>6, <1>7, <1>8, <1>9, <1>10, <1>11, <2>1 DEF Tables
<1>14. UNCHANGED <<prog, owner, recipient>>
  BY DEF Puts
<1> QED
  BY <1>4, <1>5, <1>6, <1>7, <1>8, <1>9, <1>10, <1>11, <1>12, <1>13, <1>14 DEF Becomes

(* One message more on channel c, none on the others.                      *)
Counts(R, p, a, n, b, k, c) ==
    \A e \in Channel : CountIn(R, p, b, k, e) = IF e = c THEN CountIn(R, p, a, n, e) + 1
                                                         ELSE CountIn(R, p, a, n, e)

OneMoreSeen(p, c) == seen' = [seen EXCEPT ![p][c] = @ + 1]

(* seen follows the counts.                                                *)
LEMMA OneMoreCounted ==
    ASSUME NEW R \in Runs, NEW p \in Party, seen \in [Party -> [Channel -> Nat]], CountsOk(R, p),
           NEW b, NEW k, NEW c \in Channel, Counts(R, p, at[p], pc[p], b, k, c),
           OneMoreSeen(p, c)
    PROVE  /\ seen'[p] = CountedTo(R, p, b, k) /\ \A q \in Party : q # p => seen'[q] = seen[q]
           /\ seen[p][c] = CountIn(R, p, at[p], pc[p], c)
<1>1. seen' = [seen EXCEPT ![p][c] = @ + 1]
  BY DEF OneMoreSeen
<1>2. seen[p] = [e \in Channel |-> CountIn(R, p, at[p], pc[p], e)]
  BY DEF CountsOk, CountedTo
<1>3. \A e \in Channel : seen[p][e] = CountIn(R, p, at[p], pc[p], e)
  BY <1>2
<1>4. seen'[p] = [e \in Channel |-> IF e = c THEN seen[p][e] + 1 ELSE seen[p][e]]
  BY <1>1
<1>5. seen'[p] = [e \in Channel |-> CountIn(R, p, b, k, e)]
  BY <1>3, <1>4 DEF Counts
<1>6. \A q \in Party : q # p => seen'[q] = seen[q]
  BY <1>1
<1> QED
  BY <1>3, <1>5, <1>6 DEF CountedTo

(* Party p sends the message that is next on channel c,                    *)
LEMMA TalkedBySend ==
    ASSUME NEW R \in Runs, RunInv(R), SeedInv, NEW p \in Party,
           Grows(R, lab[Garbler], lab'[Garbler]),
           NEW b, NEW k, NEW c \in Channel, p = WriterOf(c), NEW msg, Send(p, c, msg),
           Counts(R, p, at[p], pc[p], b, k, c),
           Message(R, lab'[Garbler], c, CountIn(R, p, at[p], pc[p], c) + 1, msg)
    PROVE  Talked(R, p, b, k)
<1>0. OneMoreSeen(p, c)
  BY DEF Send, OneMoreSeen
<1>1. /\ seen \in [Party -> [Channel -> Nat]] /\ ChannelsOk(R) /\ CountsOk(R, p)
      /\ DOMAIN wire = Channel
  BY DEF RunInv, SeedInv, Tables
<1>2. /\ seen'[p] = CountedTo(R, p, b, k) /\ \A q \in Party : q # p => seen'[q] = seen[q]
      /\ seen[p][c] = CountIn(R, p, at[p], pc[p], c)
  BY <1>0, <1>1, OneMoreCounted
<1>3. ChannelsOk(R)'
  BY <1>1, <1>2, SendOk
<1> QED
  BY <1>2, <1>3 DEF Talked

(* or reads the next one,                                                  *)
LEMMA TalkedByRecv ==
    ASSUME NEW R \in Runs, RunInv(R), SeedInv, NEW p \in Party,
           Grows(R, lab[Garbler], lab'[Garbler]),
           NEW b, NEW k, NEW c \in Channel, p = ReaderOf(c), Arrived(c), Recv(p, c),
           Counts(R, p, at[p], pc[p], b, k, c)
    PROVE  Talked(R, p, b, k)
<1>0. OneMoreSeen(p, c)
  BY DEF Recv, OneMoreSeen
<1>1. /\ seen \in [Party -> [Channel -> Nat]] /\ ChannelsOk(R) /\ CountsOk(R, p)
      /\ DOMAIN wire = Channel
  BY DEF RunInv, SeedInv, Tables
<1>2. /\ seen'[p] = CountedTo(R, p, b, k) /\ \A q \in Party : q # p => seen'[q] = seen[q]
      /\ seen[p][c] = CountIn(R, p, at[p], pc[p], c)
  BY <1>0, <1>1, OneMoreCounted
<1>3. ChannelsOk(R)'
  BY ONLY <1>1, RecvOk, R \in Runs, Grows(R, lab[Garbler], lab'[Garbler]), c \in Channel,
          p = ReaderOf(c), Arrived(c), Recv(p, c)
<1> QED
  BY <1>2, <1>3 DEF Talked

(* or does neither.                                                        *)
LEMMA TalkedNot ==
    ASSUME NEW R \in Runs, RunInv(R), NEW p \in Party,
           Grows(R, lab[Garbler], lab'[Garbler]), UNCHANGED <<wire, seen>>, NEW b, NEW k,
           \A e \in Channel : CountIn(R, p, b, k, e) = CountIn(R, p, at[p], pc[p], e)
    PROVE  Talked(R, p, b, k)
<1>1. ChannelsOk(R) /\ CountsOk(R, p)
  BY DEF RunInv
<1>2. ChannelsOk(R)'
  BY <1>1, ChannelsStay
<1>3. CountedTo(R, p, b, k) = CountedTo(R, p, at[p], pc[p])
  BY DEF CountedTo
<1> QED
  BY <1>1, <1>2, <1>3 DEF Talked, CountsOk

(* The message party p reads.                                              *)
LEMMA MessageRead ==
    ASSUME NEW R \in Runs, RunInv(R), SeedInv, NEW p \in Party,
           NEW c \in Channel, p = ReaderOf(c), Arrived(c)
    PROVE  Message(R, lab[Garbler], c, CountIn(R, p, at[p], pc[p], c) + 1, Head(wire[c]))
<1>1. /\ seen \in [Party -> [Channel -> Nat]] /\ ChannelsOk(R) /\ CountsOk(R, p)
  BY DEF RunInv, SeedInv
<1>2. seen[p][c] = CountIn(R, p, at[p], pc[p], c)
  BY <1>1 DEF CountsOk, CountedTo
<1> QED
  BY <1>1, <1>2, HeadOk

(* What RunInv says of the parties.                                        *)
LEMMA PartiesAre ==
    ASSUME NEW R \in Runs, RunInv(R)
    PROVE  /\ GarblerState(R, at[Garbler], pc[Garbler], shr[Garbler], msk[Garbler], lab[Garbler],
                           seed[Garbler], Lambda_AND[Garbler], M1_t[Garbler])
           /\ EvaluatorState(R, at[Evaluator], pc[Evaluator], shr[Evaluator], msk[Evaluator],
                             lab[Evaluator], seed[Evaluator], Lambda_AND[Evaluator],
                             M1_t[Evaluator])
           /\ Running(R) /\ Tables /\ Matches(R) /\ ChannelsOk(R)
           /\ Decodes(R) => ValuesAre(R, at[Evaluator], val)
<1>1. Stands(R, Garbler) /\ Stands(R, Evaluator) /\ Garbler # Evaluator
  BY ChannelEnds DEF RunInv
<1> QED
  BY <1>1 DEF RunInv, Stands, PartyState

(* The labels of the garbler, one for each input and for each gate         *)
(* garbled.                                                                *)
LEMMA GarblerGrows ==
    ASSUME NEW R \in Runs, RunInv(R)
    PROVE  /\ Len(lab[Garbler]) = In(R) + Garbled(R, at[Garbler], pc[Garbler])
           /\ Garbled(R, at[Garbler], pc[Garbler]) \in 0 .. Size(R)
           /\ In(R) \in Nat /\ Size(R) \in Nat
           /\ lab'[Garbler] = lab[Garbler] => Grows(R, lab[Garbler], lab'[Garbler])
<1>1. GarblerState(R, at[Garbler], pc[Garbler], shr[Garbler], msk[Garbler], lab[Garbler],
                   seed[Garbler], Lambda_AND[Garbler], M1_t[Garbler])
  BY PartiesAre
<1>2. In(R) \in Nat /\ Size(R) \in Nat
  BY ProgramOk
<1>3. pc[Garbler] \in 0 .. Size(R)
  BY <1>1 DEF GarblerState, StepOk
<1>4. Garbled(R, at[Garbler], pc[Garbler]) \in 0 .. Size(R)
  BY <1>2, <1>3 DEF Garbled
<1>5. Len(lab[Garbler]) = In(R) + Garbled(R, at[Garbler], pc[Garbler])
  BY <1>1 DEF GarblerState, LabelsAre
<1> QED
  BY <1>2, <1>4, <1>5 DEF Grows

(* A step that gives nobody a label.                                       *)
Early == {"inputs", "open", "labels"}

(* The labels of both parties still agree.                                 *)
LEMMA MatchesKeep ==
    ASSUME NEW R \in Runs, RunInv(R), lab'[Garbler] = lab[Garbler], lab'[Evaluator] = lab[Evaluator],
           pc'[Evaluator] = pc[Evaluator],
           Garbled(R, at'[Garbler], pc'[Garbler]) = Garbled(R, at[Garbler], pc[Garbler]),
           at'[Evaluator] \in Early \/ at[Evaluator] \notin Early
    PROVE  Matches(R)' /\ Grows(R, lab[Garbler], lab'[Garbler])
<1>1. Matches(R)
  BY PartiesAre
<1>2. Matches(R)'
  BY <1>1 DEF Matches, LabelsAgree, Early
<1> QED
  BY <1>2, GarblerGrows

(* The outputs do not change.                                              *)
LEMMA ValuesKeep ==
    ASSUME NEW R \in Runs, RunInv(R), UNCHANGED val,
           at'[Evaluator] = "broadcast" => at[Evaluator] = "broadcast"
    PROVE  Decodes(R) => ValuesAre(R, at'[Evaluator], val')
BY PartiesAre DEF ValuesAre
-------------------------------------------------------------------------------
(* Counting the messages.                                                  *)
SibOf(R) == IF SecretOf(R) = {} THEN 0 ELSE 1

(* The counts after the first exchanges, i messages on io and b on io_back *)
(* later.                                                                  *)
Tally(R, c, i, b) == IF c = "io" THEN Base(R) + i ELSE IF c = "io_back" THEN b ELSE SibOf(R)

(* The counts at each step.                                                *)
LEMMA CountsAre ==
    ASSUME NEW R \in Runs, NEW p \in Party, NEW n, NEW c \in Channel
    PROVE  /\ CountIn(R, p, "inputs", n, c) = 0
           /\ CountIn(R, p, "open", n, c) = IF c = send_io(p) THEN 1 ELSE 0
           /\ CountIn(R, p, "labels", n, c) = IF c = "io_back" THEN 0 ELSE 1
           /\ CountIn(R, p, "seed", n, c) = Tally(R, c, 0, 0)
           /\ CountIn(R, p, "garble", n, c) = Tally(R, c, Ands(R, n), 0)
           /\ CountIn(R, p, "evaluate", n, c) = Tally(R, c, Ands(R, n), 0)
           /\ CountIn(R, p, "Lambda_AND", n, c) = Tally(R, c, NumAndsOf(R), 0)
           /\ CountIn(R, p, "c_gamma", n, c) = Tally(R, c, NumAndsOf(R), 1)
           /\ CountIn(R, p, "gamma", n, c) = Tally(R, c, NumAndsOf(R), 1)
           /\ CountIn(R, p, "decode", n, c) = Tally(R, c, NumAndsOf(R) + Extra(R), Extra(R))
           /\ CountIn(R, p, "broadcast", n, c) =
                Tally(R, c, IF Opens(R) = Evaluator THEN NumAndsOf(R) + Extra(R)
                          ELSE NumAndsOf(R) + Extra(R) + 1, Extra(R))
           /\ CountIn(R, p, "done", n, c) =
                Tally(R, c, IF Opens(R) = Evaluator THEN NumAndsOf(R) + Extra(R)
                          ELSE NumAndsOf(R) + Extra(R) + 1,
                    IF R.recipient = Evaluator THEN Extra(R) ELSE Extra(R) + 1)
<1>1. Channel = {"io", "io_back", "sib"} /\ send_io(p) \in {"io", "sib"}
  BY ChannelEnds
<1>2. /\ Base(R) \in Nat /\ Extra(R) \in Nat /\ NumAndsOf(R) \in Nat
      /\ Base(R) = IF SecretOf(R) = {} THEN 0 ELSE 2
  BY AndsAre DEF Base, Extra
<1>3. \A e \in Channel :
        /\ Counted(p, "inputs", SecretOf(R))[e] = 0
        /\ Counted(p, "open", SecretOf(R))[e] = IF e = send_io(p) THEN 1 ELSE 0
        /\ Counted(p, "labels", SecretOf(R))[e] = IF e = "io_back" THEN 0 ELSE 1
        /\ Counted(p, "seed", SecretOf(R))[e] =
             IF SecretOf(R) = {} THEN 0 ELSE IF e = "io" THEN 2 ELSE IF e = "sib" THEN 1 ELSE 0
  BY <1>1 DEF Counted
<1>4. /\ CountIn(R, p, "inputs", n, c) = 0
      /\ CountIn(R, p, "open", n, c) = IF c = send_io(p) THEN 1 ELSE 0
      /\ CountIn(R, p, "labels", n, c) = IF c = "io_back" THEN 0 ELSE 1
      /\ CountIn(R, p, "seed", n, c) = Tally(R, c, 0, 0)
  BY <1>1, <1>2, <1>3 DEF CountIn, IoCount, BackCount, SibCount, Tally, SibOf, Setup
<1>5. /\ CountIn(R, p, "garble", n, c) = Tally(R, c, Ands(R, n), 0)
      /\ CountIn(R, p, "evaluate", n, c) = Tally(R, c, Ands(R, n), 0)
      /\ CountIn(R, p, "Lambda_AND", n, c) = Tally(R, c, NumAndsOf(R), 0)
      /\ CountIn(R, p, "c_gamma", n, c) = Tally(R, c, NumAndsOf(R), 1)
      /\ CountIn(R, p, "gamma", n, c) = Tally(R, c, NumAndsOf(R), 1)
  BY <1>1 DEF CountIn, IoCount, BackCount, SibCount, Tally, SibOf, Setup
<1>6. \A x, y, z \in Nat : x + y + z = x + (y + z) /\ x + y + z + 1 = x + (y + z + 1)
  OBVIOUS
<1>7. /\ Base(R) + NumAndsOf(R) + Extra(R) = Base(R) + (NumAndsOf(R) + Extra(R))
      /\ Base(R) + NumAndsOf(R) + Extra(R) + 1 = Base(R) + (NumAndsOf(R) + Extra(R) + 1)
  BY <1>2, <1>6
<1>8. CountIn(R, p, "decode", n, c) = Tally(R, c, NumAndsOf(R) + Extra(R), Extra(R))
  BY <1>1, <1>7 DEF CountIn, IoCount, BackCount, SibCount, Tally, SibOf, Setup
<1>9. CountIn(R, p, "broadcast", n, c) =
        Tally(R, c, IF Opens(R) = Evaluator THEN NumAndsOf(R) + Extra(R)
                  ELSE NumAndsOf(R) + Extra(R) + 1, Extra(R))
  BY <1>1, <1>7 DEF CountIn, IoCount, BackCount, SibCount, Tally, SibOf, Setup
<1>10. CountIn(R, p, "done", n, c) =
         Tally(R, c, IF Opens(R) = Evaluator THEN NumAndsOf(R) + Extra(R)
                   ELSE NumAndsOf(R) + Extra(R) + 1,
             IF R.recipient = Evaluator THEN Extra(R) ELSE Extra(R) + 1)
  BY <1>1, <1>7 DEF CountIn, IoCount, BackCount, SibCount, Tally, SibOf, Setup
<1> QED
  BY <1>4, <1>5, <1>8, <1>9, <1>10

(* One message more on io or io_back.                                      *)
LEMMA TallyMoves ==
    ASSUME NEW R \in Runs, NEW c \in Channel, NEW i \in Nat, NEW b \in Nat
    PROVE  /\ Tally(R, c, i + 1, b) = IF c = "io" THEN Tally(R, c, i, b) + 1 ELSE Tally(R, c, i, b)
           /\ Tally(R, c, i, b + 1) = IF c = "io_back" THEN Tally(R, c, i, b) + 1 ELSE Tally(R, c, i, b)
           /\ Tally(R, "io", i, b) = Base(R) + i /\ Tally(R, "io_back", i, b) = b
           /\ Base(R) \in {0, 2} /\ (SecretOf(R) # {} => Base(R) = 2) /\ SibOf(R) \in {0, 1}
           /\ NumAndsOf(R) \in Nat /\ Extra(R) \in {0, 1}
           /\ NumAndsOf(R) = 0 => Extra(R) = 0
           /\ NumAndsOf(R) > 0 => Extra(R) = 1
<1>1. Base(R) \in {0, 2} /\ SibOf(R) \in {0, 1} /\ (SecretOf(R) # {} => Base(R) = 2)
  BY DEF Base, SibOf
<1>2. NumAndsOf(R) \in Nat
  BY AndsAre
<1>3. /\ Extra(R) \in {0, 1} /\ (NumAndsOf(R) = 0 => Extra(R) = 0)
      /\ (NumAndsOf(R) > 0 => Extra(R) = 1)
  BY <1>2 DEF Extra
<1> QED
  BY <1>1, <1>2, <1>3 DEF Tally

(* The messages of the garbler.                                            *)
LEMMA IoNumbers ==
    ASSUME NEW R \in Runs
    PROVE  /\ Base(R) \in {0, 2} /\ (SecretOf(R) # {} => Base(R) = 2) /\ NumAndsOf(R) \in Nat
           /\ Extra(R) \in {0, 1} /\ (NumAndsOf(R) > 0 => Extra(R) = 1)
           /\ \A j \in 1 .. Size(R) : GateOf(R, j).op = "And" =>
                Ands(R, j) \in Nat /\ Ands(R, j) >= 1 /\ Ands(R, j) <= NumAndsOf(R)
<1>1. "io" \in Channel
  BY DEF Channel
<1>2. \A j : IsAnd(R, j) => Ands(R, j) \in 1 .. NumAndsOf(R)
  BY AndNumbers
<1>3. /\ Base(R) \in {0, 2} /\ (SecretOf(R) # {} => Base(R) = 2) /\ NumAndsOf(R) \in Nat
      /\ Extra(R) \in {0, 1} /\ (NumAndsOf(R) > 0 => Extra(R) = 1)
  BY <1>1, TallyMoves
<1> QED
  BY <1>2, <1>3 DEF IsAnd

(* The opening and the input bits of process_inputs.                       *)
LEMMA SendsInputs ==
    ASSUME NEW R \in Runs, NEW p \in Party, SecretOf(R) # {}, NEW l, NEW msg, InputMessage(R, p, msg)
    PROVE  Message(R, l, send_io(p), 1, msg)
<1>1. CASE p = Garbler
  <2>1. IoMessage(R, l, 1, msg)
    BY <1>1, IoNumbers DEF IoMessage
  <2> QED
    BY <1>1, <2>1, ChannelEnds DEF Message
<1>2. CASE p = Evaluator
  BY <1>2, ChannelEnds DEF Message
<1> QED
  BY <1>1, <1>2, ChannelEnds

(* The labels of the secret inputs.                                        *)
LEMMA SendsLabels ==
    ASSUME NEW R \in Runs, SecretOf(R) # {}, NEW l, NEW msg,
           msg = [k \in SecretOf(R) |-> l[k] ++ (LambdaIn(R, k) ** Delta(Garbler))]
    PROVE  Message(R, l, "io", 2, msg)
<1>1. IoMessage(R, l, 2, msg)
  BY IoNumbers DEF IoMessage
<1> QED
  BY <1>1 DEF Message

(* The row of AND j is message Ands(R, j) after the first ones.            *)
LEMMA SendsRow ==
    ASSUME NEW R \in Runs, NEW j, IsAnd(R, j), NEW l, In(R) + j <= Len(l), NEW msg,
           msg = RowIn(R, l, j), NEW n, n = Base(R) + Ands(R, j)
    PROVE  Message(R, l, "io", n, msg)
<1>1. j \in 1 .. Size(R) /\ GateOf(R, j).op = "And"
  BY DEF IsAnd
<1>2. Ands(R, j) \in Nat /\ Ands(R, j) >= 1 /\ Ands(R, j) <= NumAndsOf(R)
  BY <1>1, IoNumbers
<1>3. ASSUME NEW k \in 1 .. Size(R), GateOf(R, k).op = "And", n = Base(R) + Ands(R, k)
      PROVE  k = j
  <2>1. Ands(R, k) \in Nat /\ Base(R) \in Nat
    BY <1>3, IoNumbers
  <2>2. Ands(R, k) = Ands(R, j)
    BY <1>2, <1>3, <2>1
  <2>3. IsAnd(R, k)
    BY <1>3 DEF IsAnd
  <2> QED
    BY <2>2, <2>3, AndNumbers
<1>4. IoMessage(R, l, n, msg)
  <2>1. /\ SecretOf(R) # {} => n # 1 /\ n # 2
        /\ n # Base(R) + NumAndsOf(R) + 1 /\ n # Base(R) + NumAndsOf(R) + Extra(R) + 1
    BY <1>2, IoNumbers
  <2> QED
    BY <1>3, <2>1 DEF IoMessage
<1> QED
  BY <1>4 DEF Message

(* The witnesses come after all rows.                                      *)
LEMMA SendsWitnesses ==
    ASSUME NEW R \in Runs, NumAndsOf(R) > 0, NEW l, NEW msg, ListsWitnesses(R, Size(R), msg),
           NEW n, n = Base(R) + NumAndsOf(R) + 1
    PROVE  Message(R, l, "io", n, msg)
<1>1. IoMessage(R, l, n, msg)
  <2>1. /\ SecretOf(R) # {} => n # 1 /\ n # 2
        /\ n # Base(R) + NumAndsOf(R) + Extra(R) + 1
    BY IoNumbers
  <2>2. \A j \in 1 .. Size(R) : GateOf(R, j).op = "And" => n # Base(R) + Ands(R, j)
    BY IoNumbers
  <2> QED
    BY <2>1, <2>2 DEF IoMessage
<1> QED
  BY <1>1 DEF Message

(* The opening of the outputs comes last.                                  *)
LEMMA SendsOpening ==
    ASSUME NEW R \in Runs, NEW l, NEW msg, msg = OpeningIn(R, Garbler, OutsOf(R)),
           NEW n, n = Base(R) + NumAndsOf(R) + Extra(R) + 1
    PROVE  Message(R, l, "io", n, msg)
<1>1. IoMessage(R, l, n, msg)
  <2>1. /\ SecretOf(R) # {} => n # 1 /\ n # 2
        /\ NumAndsOf(R) > 0 => n # Base(R) + NumAndsOf(R) + 1
    BY IoNumbers
  <2>2. \A j \in 1 .. Size(R) : GateOf(R, j).op = "And" => n # Base(R) + Ands(R, j)
    BY IoNumbers
  <2> QED
    BY <2>1, <2>2 DEF IoMessage
<1> QED
  BY <1>1 DEF Message

(* The messages of the evaluator on io_back.                               *)
LEMMA SendsBack ==
    ASSUME NEW R \in Runs, NEW l, NEW n, NEW msg,
           \/ NumAndsOf(R) > 0 /\ n = 1 /\ ListsLambdas(R, Size(R), msg)
           \/ n = Extra(R) + 1 /\ msg = IF R.recipient = Garbler
                                        THEN OpeningIn(R, Evaluator, OutsOf(R)) ELSE ClearOuts(R)
    PROVE  Message(R, l, "io_back", n, msg)
<1>1. BackMessage(R, n, msg)
  BY IoNumbers DEF BackMessage
<1> QED
  BY <1>1 DEF Message
-------------------------------------------------------------------------------
(* The first exchanges.                                                    *)
LEMMA SetupIs ==
    ASSUME NEW R \in Runs, RunInv(R), NEW p \in Party, at[p] \in Setup
    PROVE  /\ pc[p] = 0 /\ InputState(R, p, at[p], shr[p], msk[p])
           /\ \A k \in 1 .. In(R) : shr[p][k] = ShareIn(R, p, k)
           /\ at[p] \in Early => SecretOf(R) # {}
<1>1. /\ p = Garbler \/ p = Evaluator
      /\ InputState(R, p, at[p], shr[p], msk[p]) /\ StepOk(R, at[p], pc[p])
  BY PartiesAre, ChannelEnds DEF GarblerState, EvaluatorState
<1> QED
  BY <1>1 DEF StepOk, InputState, Early

(* A party goes from one of the first steps to another.                    *)
LEMMA SetupMoves ==
    ASSUME NEW R \in Runs, RunInv(R), NEW p \in Party, at[p] \in Setup, NEW a \in Setup,
           a \in Early => SecretOf(R) # {}, NEW m, InputState(R, p, a, shr[p], m),
           NEW l, p = Garbler => l = lab[Garbler], p = Evaluator => EvalLabelsAre(R, 0, l)
    PROVE  PartyState(R, p, a, pc[p], shr[p], m, l, seed[p], Lambda_AND[p], M1_t[p])
<1>1. Size(R) \in Nat /\ pc[p] = 0
  BY ProgramOk, SetupIs
<1>2. /\ a \notin {"Lambda_AND", "c_gamma", "decode", "broadcast", "done", "gamma", "garble",
                   "evaluate"}
      /\ at[p] \notin {"Lambda_AND", "c_gamma", "decode", "broadcast", "done", "gamma", "garble",
                   "evaluate"}
  BY DEF Setup
<1>3. StepOk(R, a, pc[p])
  BY <1>1, <1>2 DEF StepOk, Early
<1>4. CASE p = Garbler
  <2>1. GarblerState(R, at[p], pc[p], shr[p], msk[p], lab[p], seed[p], Lambda_AND[p], M1_t[p])
    BY <1>4, PartiesAre
  <2>2. /\ LabelsAre(R, Garbled(R, at[p], pc[p]), lab[p]) /\ ListsWitnesses(R, 0, M1_t[p])
    BY <1>2, <2>1 DEF GarblerState
  <2>3. Garbled(R, a, pc[p]) = Garbled(R, at[p], pc[p])
    BY DEF Garbled
  <2>4. GarblerState(R, a, pc[p], shr[p], m, l, seed[p], Lambda_AND[p], M1_t[p])
    BY <1>2, <1>3, <1>4, <2>2, <2>3 DEF GarblerState, GarblerSteps
  <2> QED
    BY <1>4, <2>4 DEF PartyState
<1>5. CASE p = Evaluator
  <2>1. EvaluatorState(R, at[p], pc[p], shr[p], msk[p], lab[p], seed[p], Lambda_AND[p], M1_t[p])
    BY <1>5, PartiesAre
  <2>2. EvaluatorState(R, a, pc[p], shr[p], m, l, seed[p], Lambda_AND[p], M1_t[p])
    BY <1>1, <1>2, <1>3, <1>5, <2>1 DEF EvaluatorState, EvaluatorSteps
  <2> QED
    BY <1>5, <2>2, ChannelEnds DEF PartyState
<1> QED
  BY <1>4, <1>5, ChannelEnds

(* The two shares of a wire.                                               *)
LEMMA ShareOk ==
    ASSUME NEW R \in Runs, NEW p \in Party, NEW k \in Wires(R)
    PROVE  /\ ShareIn(R, Peer(p), k).mac =
                ShareIn(R, p, k).key ++ (LSB(ShareIn(R, Peer(p), k).mac) ** Delta(p))
           /\ LSB(ShareIn(R, p, k).mac) ++ LSB(ShareIn(R, Peer(p), k).mac) = MaskIn(R, k)
<1>1. IsFiniteSet(DrawsIn(R)[k])
  BY DrawsOfRun
<1>2. /\ Shared(p, ShareIn(R, p, k), ShareIn(R, Peer(p), k))
  BY <1>1, WireShared DEF ShareIn
<1>3. ShareIn(R, Peer(p), k).mac =
        ShareIn(R, p, k).key ++ (LSB(ShareIn(R, Peer(p), k).mac) ** Delta(p))
  BY <1>2, SharedIs, Peers
<1>4. LSB(ShareIn(R, Garbler, k).mac) ++ LSB(ShareIn(R, Evaluator, k).mac) = MaskIn(R, k)
  BY SharesOfRun DEF Opened
<1>5. \A x, y : x ++ y = y ++ x
  BY DEF ++, XorBit, SymDiff
<1> QED
  BY <1>3, <1>4, <1>5, ChannelEnds

(* What a party opens, and the peer's check of it.                         *)
LEMMA OpeningOk ==
    ASSUME NEW R \in Runs, NEW p \in Party, NEW ks, ks \subseteq Wires(R),
           \A k \in ks : shr[p][k] = ShareIn(R, p, k)
    PROVE  /\ Opening(p, ks) = OpeningIn(R, p, ks)
           /\ Verified(p, OpeningIn(R, Peer(p), ks), ks)
<1>1. Opening(p, ks) = OpeningIn(R, p, ks)
  BY DEF Opening, OpeningIn
<1> DEFINE m == OpeningIn(R, Peer(p), ks)
<1>2. /\ m.D = [k \in ks |-> ShareIn(R, Peer(p), k).mac]
      /\ \A k \in ks : m.bits[k] = LSB(ShareIn(R, Peer(p), k).mac)
  BY DEF OpeningIn
<1> HIDE DEF m
<1>3. \A k \in ks : ShareIn(R, Peer(p), k).mac = shr[p][k].key ++ (m.bits[k] ** Delta(p))
  BY <1>2, ShareOk
<1>4. m.D = [k \in ks |-> shr[p][k].key ++ (m.bits[k] ** Delta(p))]
  BY <1>2, <1>3
<1> QED
  BY <1>1, <1>4 DEF Verified, m

(* Each party opens its share bits of the secret inputs,                   *)
LEMMA InputsSendKeeps ==
    ASSUME NEW R \in Runs, RunInv(R), SeedInv, NEW p \in Party, InputsSend(p)
    PROVE  RunInv(R)'
<1>0. Tables
  BY PartiesAre
<1>1. /\ at[p] = "inputs" /\ Goto(p, "open") /\ UNCHANGED <<prog, owner, recipient, pc, seed, val>>
      /\ UNCHANGED <<shr, msk, lab, Lambda_AND, M1_t>>
  BY DEF InputsSend, At, wires, gamma
<1>2. PICK msg : /\ Send(p, send_io(p), msg) /\ msg.open = Opening(p, Secret)
                 /\ msg.x = [k \in {j \in Secret : owner[j] = p} |-> X(k)]
  BY DEF InputsSend
<1>3. at[p] \in Setup /\ "open" \in Setup /\ Tables /\ Running(R) /\ In(R) \in Nat /\ Size(R) \in Nat
  BY <1>1, PartiesAre, ProgramOk DEF Setup
<1>4. Becomes(p, "open", pc[p], shr[p], msk[p], lab[p], seed[p], Lambda_AND[p], M1_t[p])
  <2>1. Puts(p, "open", pc[p], shr[p], msk[p], lab[p], seed[p], Lambda_AND[p], M1_t[p])
    BY <1>1, <1>2, <1>3 DEF Puts, Sets, Goto
  <2> QED
    BY <1>0, <2>1, BecomesBy
<1>5. SecretOf(R) # {} /\ InputState(R, p, "inputs", shr[p], msk[p])
      /\ \A k \in 1 .. In(R) : shr[p][k] = ShareIn(R, p, k)
  BY <1>1, <1>3, SetupIs DEF Early
<1>6. InputState(R, p, "open", shr[p], msk[p])
  BY <1>5 DEF InputState
<1>7. PartyState(R, p, "open", pc[p], shr[p], msk[p], lab[p], seed[p], Lambda_AND[p], M1_t[p])
  <2>1. p = Evaluator => EvalLabelsAre(R, 0, lab[p])
    BY <1>3, SetupIs, PartiesAre DEF EvaluatorState
  <2> QED
    BY <1>3, <1>5, <1>6, <2>1, SetupMoves
<1>8. InputMessage(R, p, msg)
  <2>1. SecretOf(R) \subseteq Wires(R) /\ \A k \in SecretOf(R) : shr[p][k] = ShareIn(R, p, k)
    BY <1>3, <1>5 DEF SecretOf, Wires
  <2>2. Opening(p, SecretOf(R)) = OpeningIn(R, p, SecretOf(R))
    BY <2>1, OpeningOk
  <2> QED
    BY <1>2, <1>3, <2>2, NamesAre DEF InputMessage
<1>9. Matches(R)' /\ Grows(R, lab[Garbler], lab'[Garbler])
  <2>1. at' = [at EXCEPT ![p] = "open"]
    BY <1>1 DEF Goto
  <2>2. /\ Garbled(R, at'[Garbler], pc'[Garbler]) = Garbled(R, at[Garbler], pc[Garbler])
        /\ at'[Evaluator] \in Early \/ at[Evaluator] \notin Early
    BY <1>1, <1>3, <2>1, ChannelEnds DEF Tables, Garbled, Early
  <2> QED
    BY <1>1, <2>2, MatchesKeep
<1>10. Talked(R, p, "open", pc[p])
  <2>1. /\ send_io(p) \in Channel /\ p = WriterOf(send_io(p))
        /\ Counts(R, p, at[p], pc[p], "open", pc[p], send_io(p))
        /\ CountIn(R, p, at[p], pc[p], send_io(p)) + 1 = 1
    BY <1>1, ChannelEnds, CountsAre DEF Counts
  <2>2. Message(R, lab'[Garbler], send_io(p), 1, msg)
    BY <1>5, <1>8, SendsInputs
  <2> QED
    BY <1>2, <1>9, <2>1, <2>2, TalkedBySend
<1>11. Decodes(R) => ValuesAre(R, at'[Evaluator], val')
  <2>1. at'[Evaluator] = "broadcast" => at[Evaluator] = "broadcast"
    BY <1>1, <1>3 DEF Tables, Goto
  <2> QED
    BY <1>1, <2>1, ValuesKeep
<1> QED
  BY <1>4, <1>7, <1>9, <1>10, <1>11, Moved

(* The opened bits and the owner's bit give Lambda of a secret input.      *)
LEMMA ReconstructedIs ==
    ASSUME NEW R \in Runs, Running(R), NEW p \in Party, NEW msg, InputMessage(R, Peer(p), msg),
           NEW k \in SecretOf(R), shr[p][k] = ShareIn(R, p, k)
    PROVE  Reconstructed(p, msg, k) = LambdaIn(R, k)
<1>1. k \in 1 .. In(R) /\ k \in Wires(R) /\ R.owner[k] \in Party /\ owner = R.owner
  BY ProgramOk, NamesAre DEF SecretOf, Wires
<1>2. msg.open.bits[k] = LSB(ShareIn(R, Peer(p), k).mac)
  BY DEF InputMessage, OpeningIn
<1>3. owner[k] # p => msg.x[k] = X(k)
  <2>1. owner[k] # p => owner[k] = Peer(p)
    BY <1>1, ChannelEnds
  <2>2. msg.x = [j \in {i \in SecretOf(R) : R.owner[i] = Peer(p)} |-> X(j)]
    BY DEF InputMessage
  <2> QED
    BY <1>1, <2>1, <2>2
<1>4. Reconstructed(p, msg, k)
        = (LSB(ShareIn(R, p, k).mac) ++ LSB(ShareIn(R, Peer(p), k).mac)) ++ X(k)
  BY <1>2, <1>3 DEF Reconstructed
<1>5. Reconstructed(p, msg, k) = MaskIn(R, k) ++ X(k)
  BY <1>1, <1>4, ShareOk
<1>6. ClearIn(R)[k] = X(k)
  BY <1>1, ClearOfRun
<1>7. \A x, y : x ++ y = y ++ x
  BY DEF ++, XorBit, SymDiff
<1> QED
  BY <1>5, <1>6, <1>7 DEF LambdaIn

(* finds the MACs of the other right and has Lambda of every input.        *)
LEMMA InputsRecvKeeps ==
    ASSUME NEW R \in Runs, RunInv(R), SeedInv, NEW p \in Party, InputsRecv(p)
    PROVE  RunInv(R)'
<1>0. Tables
  BY PartiesAre
<1>1. /\ at[p] = "open" /\ Arrived(recv_io(p)) /\ Recv(p, recv_io(p))
      /\ UNCHANGED <<prog, owner, recipient, pc, seed, val>>
      /\ UNCHANGED <<shr, lab, Lambda_AND, M1_t>>
  BY DEF InputsRecv, At, gamma
<1>2. at[p] \in Setup /\ "labels" \in Setup /\ Tables /\ Running(R) /\ In(R) \in Nat /\ Size(R) \in Nat
  BY <1>1, PartiesAre, ProgramOk DEF Setup
<1>3. /\ SecretOf(R) # {} /\ InputState(R, p, "open", shr[p], msk[p])
      /\ \A k \in 1 .. In(R) : shr[p][k] = ShareIn(R, p, k)
      /\ Secret = SecretOf(R) /\ Inputs = 1 .. In(R)
      /\ SecretOf(R) \subseteq Wires(R) /\ SecretOf(R) \subseteq 1 .. In(R)
  BY <1>1, <1>2, SetupIs, NamesAre DEF Early, SecretOf, Wires
<1>4. PICK msg : msg = Head(wire[recv_io(p)])
  OBVIOUS
<1>5. InputMessage(R, Peer(p), msg)
  <2>1. /\ recv_io(p) \in Channel /\ p = ReaderOf(recv_io(p)) /\ recv_io(p) = send_io(Peer(p))
        /\ send_io(p) # recv_io(p)
    BY ChannelEnds
  <2>2. CountIn(R, p, at[p], pc[p], recv_io(p)) = 0
    BY <1>1, <2>1, CountsAre
  <2>3. Message(R, lab[Garbler], recv_io(p), 0 + 1, msg)
    BY <1>1, <1>4, <2>1, <2>2, MessageRead
  <2>4. CASE p = Garbler
    BY <2>3, <2>4, ChannelEnds DEF Message
  <2>5. CASE p = Evaluator
    BY <1>3, <2>3, <2>5, ChannelEnds DEF Message, IoMessage
  <2> QED
    BY <2>4, <2>5, ChannelEnds
<1>6. Verified(p, msg.open, Secret)
  BY <1>3, <1>5, OpeningOk DEF InputMessage
<1>7. PICK m : m = [k \in Inputs |-> IF k \in Secret THEN Reconstructed(p, msg, k) ELSE msk[p][k]]
  OBVIOUS
<1>8. at' = [at EXCEPT ![p] = "labels"] /\ msk' = [msk EXCEPT ![p] = m]
  BY <1>4, <1>6, <1>7 DEF InputsRecv, Goto
<1>9. Becomes(p, "labels", pc[p], shr[p], m, lab[p], seed[p], Lambda_AND[p], M1_t[p])
  <2>1. Puts(p, "labels", pc[p], shr[p], m, lab[p], seed[p], Lambda_AND[p], M1_t[p])
    BY <1>1, <1>2, <1>8 DEF Puts, Sets
  <2> QED
    BY <1>0, <2>1, BecomesBy
<1>10. InputState(R, p, "labels", shr[p], m)
  <2>1. DOMAIN m = 1 .. In(R)
    BY <1>3, <1>7
  <2>2. ASSUME NEW k \in 1 .. In(R) PROVE m[k] = LambdaIn(R, k)
    <3>1. CASE k \in SecretOf(R)
      <4>1. m[k] = Reconstructed(p, msg, k)
        BY <1>3, <1>7, <3>1
      <4> QED
        BY <1>2, <1>3, <1>5, <3>1, <4>1, ReconstructedIs
    <3>2. CASE k \notin SecretOf(R)
      <4>1. m[k] = PublicOf(R, k)
        BY <1>3, <1>7, <3>2 DEF InputState
      <4> QED
        BY <3>2, <4>1, LambdasOfRun
    <3> QED
      BY <3>1, <3>2
  <2> QED
    BY <1>3, <2>1, <2>2 DEF InputState
<1>11. PartyState(R, p, "labels", pc[p], shr[p], m, lab[p], seed[p], Lambda_AND[p], M1_t[p])
  <2>1. p = Evaluator => EvalLabelsAre(R, 0, lab[p])
    BY <1>2, SetupIs, PartiesAre DEF EvaluatorState
  <2> QED
    BY <1>2, <1>3, <1>10, <2>1, SetupMoves
<1>12. Matches(R)' /\ Grows(R, lab[Garbler], lab'[Garbler])
  <2>1. /\ Garbled(R, at'[Garbler], pc'[Garbler]) = Garbled(R, at[Garbler], pc[Garbler])
        /\ at'[Evaluator] \in Early \/ at[Evaluator] \notin Early
    BY <1>1, <1>2, <1>8, ChannelEnds DEF Tables, Garbled, Early
  <2> QED
    BY <1>1, <2>1, MatchesKeep
<1>13. Talked(R, p, "labels", pc[p])
  <2>1. /\ recv_io(p) \in Channel /\ p = ReaderOf(recv_io(p))
        /\ Counts(R, p, at[p], pc[p], "labels", pc[p], recv_io(p))
    BY <1>1, ChannelEnds, CountsAre DEF Counts
  <2> QED
    BY <1>1, <1>12, <2>1, TalkedByRecv
<1>14. Decodes(R) => ValuesAre(R, at'[Evaluator], val')
  <2>1. at'[Evaluator] = "broadcast" => at[Evaluator] = "broadcast"
    BY <1>2, <1>8 DEF Tables
  <2> QED
    BY <1>1, <2>1, ValuesKeep
<1> QED
  BY <1>9, <1>11, <1>12, <1>13, <1>14, Moved

(* The garbler sends a label for each secret input,                        *)
LEMMA LabelsSendKeeps ==
    ASSUME NEW R \in Runs, RunInv(R), SeedInv, LabelsSend
    PROVE  RunInv(R)'
<1> DEFINE p == Garbler
<1>0. Tables
  BY PartiesAre
<1>1. /\ at[p] = "labels" /\ Goto(p, "seed") /\ UNCHANGED <<prog, owner, recipient, pc, seed, val>>
      /\ UNCHANGED <<shr, msk, lab, Lambda_AND, M1_t>> /\ p \in Party
  BY ChannelEnds DEF LabelsSend, At, wires, gamma
<1>2. PICK msg : /\ Send(p, "io", msg)
                 /\ msg = [k \in Secret |-> lab[p][k] ++ (msk[p][k] ** Delta(p))]
  BY DEF LabelsSend
<1> HIDE DEF p
<1>3. at[p] \in Setup /\ "seed" \in Setup /\ Tables /\ Running(R) /\ In(R) \in Nat /\ Size(R) \in Nat
  BY <1>1, PartiesAre, ProgramOk DEF Setup
<1>4. Becomes(p, "seed", pc[p], shr[p], msk[p], lab[p], seed[p], Lambda_AND[p], M1_t[p])
  <2>1. Puts(p, "seed", pc[p], shr[p], msk[p], lab[p], seed[p], Lambda_AND[p], M1_t[p])
    BY <1>1, <1>2, <1>3 DEF Puts, Sets, Goto
  <2> QED
    BY <1>0, <1>1, <2>1, BecomesBy
<1>5. SecretOf(R) # {} /\ InputState(R, p, "labels", shr[p], msk[p])
  BY <1>1, <1>3, SetupIs DEF Early
<1>6. InputState(R, p, "seed", shr[p], msk[p])
  BY <1>5 DEF InputState
<1>7. PartyState(R, p, "seed", pc[p], shr[p], msk[p], lab[p], seed[p], Lambda_AND[p], M1_t[p])
  BY <1>1, <1>3, <1>5, <1>6, SetupMoves, ChannelEnds DEF p
<1>8. msg = [k \in SecretOf(R) |-> lab[Garbler][k] ++ (LambdaIn(R, k) ** Delta(Garbler))]
  <2>1. \A k \in SecretOf(R) : msk[p][k] = LambdaIn(R, k)
    BY <1>5 DEF InputState, SecretOf
  <2> QED
    BY <1>2, <1>3, <2>1, NamesAre DEF p
<1>9. Matches(R)' /\ Grows(R, lab[Garbler], lab'[Garbler])
  <2>1. at' = [at EXCEPT ![p] = "seed"]
    BY <1>1 DEF Goto
  <2>2. /\ Garbled(R, at'[Garbler], pc'[Garbler]) = Garbled(R, at[Garbler], pc[Garbler])
        /\ at'[Evaluator] = at[Evaluator]
    BY <1>1, <1>3, <2>1, ChannelEnds DEF Tables, Garbled, p
  <2> QED
    BY <1>1, <2>2, MatchesKeep
<1>10. Talked(R, p, "seed", pc[p])
  <2>0. \A c \in Channel : Tally(R, c, 0, 0) = IF c = "io" THEN 2 ELSE IF c = "io_back" THEN 0 ELSE 1
    BY <1>5 DEF Tally, Base, SibOf
  <2>1. /\ "io" \in Channel /\ p = WriterOf("io")
        /\ Counts(R, p, at[p], pc[p], "seed", pc[p], "io")
        /\ CountIn(R, p, at[p], pc[p], "io") + 1 = 2
    BY <1>1, <2>0, ChannelEnds, CountsAre DEF Counts, p
  <2>2. lab'[Garbler] = lab[Garbler]
    BY <1>1
  <2>3. Message(R, lab'[Garbler], "io", 2, msg)
    BY <1>5, <1>8, <2>2, SendsLabels
  <2> QED
    BY <1>1, <1>2, <1>9, <2>1, <2>3, TalkedBySend
<1>11. Decodes(R) => ValuesAre(R, at'[Evaluator], val')
  <2>1. at'[Evaluator] = "broadcast" => at[Evaluator] = "broadcast"
    BY <1>1, <1>3 DEF Tables, Goto
  <2> QED
    BY <1>1, <2>1, ValuesKeep
<1> QED
  BY <1>1, <1>4, <1>7, <1>9, <1>10, <1>11, Moved

(* the one for Lambda, which the evaluator takes.                          *)
LEMMA LabelsRecvKeeps ==
    ASSUME NEW R \in Runs, RunInv(R), SeedInv, LabelsRecv
    PROVE  RunInv(R)'
<1> DEFINE p == Evaluator
<1>0. Tables
  BY PartiesAre
<1>1. /\ at[p] = "labels" /\ Goto(p, "seed") /\ UNCHANGED <<prog, owner, recipient, pc, seed, val>>
      /\ UNCHANGED <<shr, msk, Lambda_AND, M1_t>> /\ p \in Party /\ Arrived("io") /\ Recv(p, "io")
  BY ChannelEnds DEF LabelsRecv, At, gamma
<1>2. PICK l : l = [k \in Inputs |-> IF k \in Secret THEN Head(wire["io"])[k] ELSE lab[p][k]]
  OBVIOUS
<1>3. lab' = [lab EXCEPT ![p] = l]
  BY <1>2 DEF LabelsRecv
<1> HIDE DEF p
<1>4. at[p] \in Setup /\ "seed" \in Setup /\ Tables /\ Running(R) /\ In(R) \in Nat /\ Size(R) \in Nat
  BY <1>1, PartiesAre, ProgramOk DEF Setup
<1>5. Becomes(p, "seed", pc[p], shr[p], msk[p], l, seed[p], Lambda_AND[p], M1_t[p])
  <2>1. Puts(p, "seed", pc[p], shr[p], msk[p], l, seed[p], Lambda_AND[p], M1_t[p])
    BY <1>1, <1>3, <1>4 DEF Puts, Sets, Goto
  <2> QED
    BY <1>0, <1>1, <2>1, BecomesBy
<1>6. SecretOf(R) # {} /\ InputState(R, p, "labels", shr[p], msk[p]) /\ pc[p] = 0
  BY <1>1, <1>4, SetupIs DEF Early
<1>7. Inputs = 1 .. In(R) /\ Secret = SecretOf(R)
  BY <1>4, NamesAre
<1>8. \A k \in SecretOf(R) : l[k] = lab[Garbler][k] ++ (LambdaIn(R, k) ** Delta(Garbler))
  <2>1. CountIn(R, p, at[p], pc[p], "io") = 1 /\ "io" \in Channel /\ p = ReaderOf("io")
    BY <1>1, ChannelEnds, CountsAre DEF p
  <2>2. Message(R, lab[Garbler], "io", 1 + 1, Head(wire["io"]))
    BY <1>1, <2>1, MessageRead
  <2>3. Head(wire["io"]) =
          [k \in SecretOf(R) |-> lab[Garbler][k] ++ (LambdaIn(R, k) ** Delta(Garbler))]
    BY <1>6, <2>2 DEF Message, IoMessage
  <2>4. SecretOf(R) \subseteq 1 .. In(R)
    BY DEF SecretOf
  <2> QED
    BY <1>2, <1>7, <2>3, <2>4
<1>9. EvalLabelsAre(R, 0, lab[p])
  BY <1>6, PartiesAre DEF EvaluatorState, p
<1>10. \A k \in 1 .. In(R) : k \notin SecretOf(R) => l[k] = Zero
  BY <1>2, <1>7, <1>9 DEF EvalLabelsAre
<1>11. EvalLabelsAre(R, 0, l)
  <2> DEFINE S == {l[k] : k \in 1 .. In(R)}
  <2>1. l \in [1 .. In(R) -> S]
    BY <1>2, <1>7
  <2>2. l \in Seq(S) /\ Len(l) = In(R)
    BY <1>4, <2>1, FunIsSeq
  <2> QED
    BY <1>4, <1>10, <2>2 DEF EvalLabelsAre, IsQueue
<1>12. PartyState(R, p, "seed", pc[p], shr[p], msk[p], l, seed[p], Lambda_AND[p], M1_t[p])
  <2>1. InputState(R, p, "seed", shr[p], msk[p])
    BY <1>6 DEF InputState
  <2> QED
    BY <1>1, <1>4, <1>6, <1>11, <2>1, SetupMoves, ChannelEnds DEF p
<1>13. lab'[Garbler] = lab[Garbler] /\ lab'[Evaluator] = l /\ at'[Garbler] = at[Garbler]
       /\ at'[Evaluator] = "seed" /\ pc'[Evaluator] = 0 /\ pc'[Garbler] = pc[Garbler]
  BY <1>1, <1>3, <1>4, <1>6, ChannelEnds DEF Tables, Goto, p
<1>14. Matches(R)' /\ Grows(R, lab[Garbler], lab'[Garbler])
  <2>1. ASSUME NEW k \in 1 .. In(R)
        PROVE  l[k] = lab[Garbler][k] ++ (LambdaIn(R, k) ** Delta(Garbler))
    <3>1. CASE k \in SecretOf(R)
      BY <1>8, <3>1
    <3>2. CASE k \notin SecretOf(R)
      <4>1. lab[Garbler][k] = PublicOf(R, k) ** Delta(Garbler)
        BY <3>2, PartiesAre DEF GarblerState, LabelsAre
      <4>2. LambdaIn(R, k) = PublicOf(R, k) /\ l[k] = Zero
        BY <1>10, <3>2, LambdasOfRun
      <4>3. \A x : Zero = x ++ x
        BY XorIs
      <4> QED
        BY <4>1, <4>2, <4>3
    <3> QED
      BY <3>1, <3>2
  <2>2. \A k \in Wires(R) : k <= In(R) + 0 => k \in 1 .. In(R)
    BY <1>4 DEF Wires
  <2>3. LabelsAgree(R, Garbled(R, at[Garbler], pc[Garbler]), lab[Garbler], "seed", 0, l)
    BY <2>1, <2>2 DEF LabelsAgree
  <2>4. Matches(R)'
    BY <1>13, <2>3 DEF Matches
  <2> QED
    BY <1>13, <2>4, GarblerGrows
<1>15. Talked(R, p, "seed", pc[p])
  <2>0. \A c \in Channel : Tally(R, c, 0, 0) = IF c = "io" THEN 2 ELSE IF c = "io_back" THEN 0 ELSE 1
    BY <1>6 DEF Tally, Base, SibOf
  <2>1. /\ "io" \in Channel /\ p = ReaderOf("io")
        /\ Counts(R, p, at[p], pc[p], "seed", pc[p], "io")
    BY <1>1, <2>0, ChannelEnds, CountsAre DEF Counts, p
  <2> QED
    BY <1>1, <1>14, <2>1, TalkedByRecv
<1>16. Decodes(R) => ValuesAre(R, at'[Evaluator], val')
  BY <1>1, <1>13, ValuesKeep
<1> QED
  BY <1>1, <1>5, <1>12, <1>14, <1>15, <1>16, Moved

(* Pass 1 and the seed.                                                    *)
LEMMA PrepareKeeps ==
    ASSUME NEW R \in Runs, RunInv(R), SeedInv, NEW p \in Party, Prepare(p)
    PROVE  RunInv(R)'
<1>0. Tables
  BY PartiesAre
<1>1. PICK a : a = IF p = Garbler THEN "garble" ELSE "evaluate"
  OBVIOUS
<1>2. PICK s : s = [k \in 1 .. prog.num_wires |-> WireShare(p, DrawsOf[k])]
  OBVIOUS
<1>3. PICK m : m = [k \in 1 .. prog.num_wires |->
                      IF k \in Inputs THEN msk[p][k] ELSE GateMask(prog.gates[k - NumIn])]
  OBVIOUS
<1>4. /\ at[p] = "seed" /\ UNCHANGED <<prog, owner, recipient, pc, lab, val, wire, seen>>
      /\ UNCHANGED <<Lambda_AND, M1_t>>
      /\ at' = [at EXCEPT ![p] = a] /\ shr' = [shr EXCEPT ![p] = s] /\ msk' = [msk EXCEPT ![p] = m]
      /\ seed' = [seed EXCEPT ![p] = seen[p]]
  BY <1>1, <1>2, <1>3 DEF Prepare, At, gamma, comm, Goto, Transcript
<1>5. /\ at[p] \in Setup /\ Tables /\ Running(R) /\ In(R) \in Nat /\ Size(R) \in Nat
      /\ a \notin Setup
  <2>1. Tables /\ Running(R) /\ In(R) \in Nat /\ Size(R) \in Nat
    BY PartiesAre, ProgramOk
  <2> QED
    BY <1>1, <1>4, <2>1 DEF Setup
<1>6. Becomes(p, a, pc[p], s, m, lab[p], seen[p], Lambda_AND[p], M1_t[p])
  <2>1. Puts(p, a, pc[p], s, m, lab[p], seen[p], Lambda_AND[p], M1_t[p])
    BY <1>4, <1>5 DEF Puts, Sets
  <2> QED
    BY <1>0, <2>1, BecomesBy
<1>7. InputState(R, p, "seed", shr[p], msk[p]) /\ pc[p] = 0
  BY <1>4, <1>5, SetupIs
<1>8. seen[p] = SeedOf(R)
  <2>1. seen[p] = SeedPoint
    BY <1>4, <1>5, SameAtSeed DEF SeedInv
  <2> QED
    BY <1>5, <2>1, NamesAre
<1>9. /\ 1 .. prog.num_wires = Wires(R) /\ Inputs = 1 .. In(R) /\ DrawsOf = DrawsIn(R)
  BY <1>5, NamesAre
<1>10. SharesAre(R, p, s)
  BY <1>2, <1>9 DEF SharesAre, ShareIn
<1>11. MasksTo(R, 0, m)
  <2>1. DOMAIN m = Wires(R)
    BY <1>3, <1>9
  <2>2. ASSUME NEW k \in Wires(R), k <= In(R) + 0 PROVE m[k] = LambdaIn(R, k)
    <3>1. k \in 1 .. In(R)
      BY <1>5, <2>2 DEF Wires
    <3>2. m[k] = msk[p][k]
      BY <1>3, <1>9, <3>1
    <3> QED
      BY <1>7, <3>1, <3>2 DEF InputState
  <2> QED
    BY <2>1, <2>2 DEF MasksTo
<1>12. PartyState(R, p, a, pc[p], s, m, lab[p], seen[p], Lambda_AND[p], M1_t[p])
  <2>1. StepOk(R, a, pc[p])
    BY <1>1, <1>5, <1>7 DEF StepOk
  <2>2. CASE p = Garbler
    <3>1. a = "garble" /\ at[Garbler] = "seed"
      BY <1>1, <1>4, <2>2
    <3>2. LabelsAre(R, Garbled(R, "seed", 0), lab[p]) /\ ListsWitnesses(R, 0, M1_t[p])
      BY <1>7, <2>2, <3>1, PartiesAre DEF GarblerState
    <3>3. Garbled(R, "seed", 0) = Garbled(R, a, 0)
      BY <3>1 DEF Garbled, Setup
    <3>4. GarblerState(R, a, pc[p], s, m, lab[p], seen[p], Lambda_AND[p], M1_t[p])
      BY <1>5, <1>7, <1>8, <1>10, <1>11, <2>1, <2>2, <3>1, <3>2, <3>3 DEF GarblerState, GarblerSteps
    <3> QED
      BY <2>2, <3>4 DEF PartyState
  <2>3. CASE p = Evaluator
    <3>1. a = "evaluate"
      BY <1>1, <2>3, ChannelEnds
    <3>2. EvalLabelsAre(R, 0, lab[p]) /\ ListsLambdas(R, 0, Lambda_AND[p])
          /\ ListsWitnesses(R, 0, M1_t[p])
      BY <1>7, <2>3, PartiesAre DEF EvaluatorState
    <3>3. EvaluatorState(R, a, pc[p], s, m, lab[p], seen[p], Lambda_AND[p], M1_t[p])
      BY <1>5, <1>7, <1>8, <1>10, <1>11, <2>1, <2>3, <3>1, <3>2 DEF EvaluatorState, EvaluatorSteps
    <3> QED
      BY <2>3, <3>3, ChannelEnds DEF PartyState
  <2> QED
    BY <2>2, <2>3, ChannelEnds
<1>13. Matches(R)' /\ Grows(R, lab[Garbler], lab'[Garbler])
  <2>1. /\ Garbled(R, at'[Garbler], pc'[Garbler]) = Garbled(R, at[Garbler], pc[Garbler])
        /\ at'[Evaluator] \in Early \/ at[Evaluator] \notin Early
    BY <1>1, <1>4, <1>5, ChannelEnds DEF Tables, Garbled, Early, Setup
  <2> QED
    BY <1>4, <2>1, MatchesKeep
<1>14. Talked(R, p, a, pc[p])
  <2>1. Ands(R, 0) = 0
    BY AndsAre
  <2>2. \A c \in Channel : CountIn(R, p, a, pc[p], c) = CountIn(R, p, at[p], pc[p], c)
    BY <1>1, <1>4, <1>7, <2>1, CountsAre
  <2> QED
    BY <1>4, <1>13, <2>2, TalkedNot
<1>15. Decodes(R) => ValuesAre(R, at'[Evaluator], val')
  <2>1. at'[Evaluator] = "broadcast" => at[Evaluator] = "broadcast"
    BY <1>1, <1>4, <1>5 DEF Tables
  <2> QED
    BY <1>4, <2>1, ValuesKeep
<1> QED
  BY <1>6, <1>12, <1>13, <1>14, <1>15, Moved
-------------------------------------------------------------------------------
(* One label more.                                                         *)
Longer(w, x, v) ==
    /\ IsQueue(v) /\ Len(w) \in Nat /\ Len(v) = Len(w) + 1
    /\ \A i \in 1 .. Len(w) : v[i] = w[i]
    /\ v[Len(w) + 1] = x /\ Last(v) = x

(* Append makes a sequence longer by one.                                  *)
LEMMA AppendIs ==
    ASSUME NEW w, IsQueue(w), NEW x
    PROVE  Longer(w, x, Append(w, x))
<1>0. PICK v : v = Append(w, x)
  OBVIOUS
<1>1. PICK S : w \in Seq(S)
  BY DEF IsQueue
<1> DEFINE T == S \cup {x}
<1>2. w \in Seq(T) /\ x \in T /\ Len(w) \in Nat
  BY <1>1
<1> HIDE DEF T
<1>3. /\ v \in Seq(T) /\ Len(v) = Len(w) + 1
      /\ \A j \in 1 .. Len(w) : v[j] = w[j]
      /\ v[Len(w) + 1] = x
  BY <1>0, <1>2, AppendProperties
<1>4. Last(v) = x
  BY <1>3 DEF Last
<1> QED
  BY <1>0, <1>2, <1>3, <1>4 DEF IsQueue, Longer

(* The label of a gate depends on the labels before it.                    *)
LEMMA LabelReads ==
    ASSUME NEW R \in Runs, NEW j \in 1 .. Size(R), NEW l, NEW k,
           \A i \in 1 .. (In(R) + (j - 1)) : k[i] = l[i]
    PROVE  /\ GarbledLabel(R, k, j) = GarbledLabel(R, l, j)
           /\ GateOf(R, j).op # "And" =>
                FabricEvalLabel(k, GateOf(R, j)) = FabricEvalLabel(l, GateOf(R, j))
<1> DEFINE g == GateOf(R, j)
           a == A(R, j)
           b == B(R, j)
<1>1. /\ g.op \in {"And", "Xor", "Not", "Const0", "Const1"}
      /\ IsConst(g) <=> g.op \in {"Const0", "Const1"}
      /\ g.op \in {"And", "Xor", "Not"} => k[a] = l[a]
      /\ g.op \in {"And", "Xor"} => k[b] = l[b]
      /\ g.in0 + 1 = a /\ g.in1 + 1 = b
  BY ProgramOk DEF GateBounds, A, B
<1> HIDE DEF g, a, b
<1>2. CASE g.op = "And"
  BY <1>1, <1>2 DEF GarbledLabel, g, a, b
<1>3. CASE g.op = "Xor"
  <2>1. /\ FabricLabel0(l, g) = l[a] ++ l[b] /\ FabricLabel0(k, g) = k[a] ++ k[b]
        /\ FabricEvalLabel(l, g) = l[a] ++ l[b] /\ FabricEvalLabel(k, g) = k[a] ++ k[b]
    BY <1>1, <1>3 DEF FabricLabel0, FabricEvalLabel
  <2> QED
    BY <1>1, <1>3, <2>1 DEF GarbledLabel, g
<1>4. CASE g.op = "Not"
  <2>1. /\ FabricLabel0(l, g) = Flip(l[a]) /\ FabricLabel0(k, g) = Flip(k[a])
        /\ FabricEvalLabel(l, g) = l[a] /\ FabricEvalLabel(k, g) = k[a]
    BY <1>1, <1>4 DEF FabricLabel0, FabricEvalLabel
  <2> QED
    BY <1>1, <1>4, <2>1 DEF GarbledLabel, g
<1>5. CASE g.op \in {"Const0", "Const1"}
  <2>1. /\ FabricLabel0(l, g) = FabricLabel0(k, g) /\ FabricEvalLabel(l, g) = FabricEvalLabel(k, g)
    BY <1>1, <1>5 DEF FabricLabel0, FabricEvalLabel
  <2> QED
    BY <1>1, <1>5, <2>1 DEF GarbledLabel, g
<1> QED
  BY <1>1, <1>2, <1>3, <1>4, <1>5 DEF g

(* The garbler garbles gate j.                                             *)
LEMMA LabelsGrow ==
    ASSUME NEW R \in Runs, NEW n \in Nat, NEW j, j = n + 1, j \in 1 .. Size(R), NEW l,
           LabelsAre(R, n, l), NEW x, x = GarbledLabel(R, l, j), NEW k, Longer(l, x, k)
    PROVE  /\ LabelsAre(R, j, k) /\ Grows(R, l, k) /\ Len(k) = In(R) + j
           /\ k[In(R) + j] = GarbledLabel(R, k, j) /\ Last(k) = k[In(R) + j]
<1>1. /\ In(R) \in Nat /\ IsQueue(l) /\ Len(l) = In(R) + n /\ j - 1 = n
      /\ \A i \in 1 .. Len(l) : IsBlock(l[i])
      /\ \A i \in 1 .. In(R) : i \notin SecretOf(R) => l[i] = PublicOf(R, i) ** Delta(Garbler)
      /\ \A i \in 1 .. n : l[In(R) + i] = GarbledLabel(R, l, i)
  BY ProgramOk DEF LabelsAre
<1>2. /\ IsQueue(k) /\ Len(k) = Len(l) + 1
      /\ \A i \in 1 .. Len(l) : k[i] = l[i]
      /\ k[Len(l) + 1] = GarbledLabel(R, l, j) /\ Last(k) = GarbledLabel(R, l, j)
  BY DEF Longer
<1>3. Len(k) = In(R) + j /\ Len(l) + 1 = In(R) + j /\ Grows(R, l, k)
  BY <1>1, <1>2 DEF Grows
<1>4. ASSUME NEW i \in 1 .. j PROVE GarbledLabel(R, k, i) = GarbledLabel(R, l, i)
  <2>1. i \in 1 .. Size(R) /\ \A w \in 1 .. (In(R) + (i - 1)) : w \in 1 .. Len(l)
    <3>1. In(R) \in Nat /\ Size(R) \in Nat /\ Len(l) = In(R) + n
      BY <1>1, ProgramOk
    <3> QED
      BY <3>1
  <2> QED
    BY <1>2, <2>1, LabelReads
<1>5. IsBlock(GarbledLabel(R, l, j))
  <2>1. \A i \in 1 .. (In(R) + (j - 1)) : IsBlock(l[i])
    BY <1>1
  <2> QED
    BY <2>1, GarbledIsBlock
<1>6. \A i \in 1 .. Len(k) : IsBlock(k[i])
  <2>1. ASSUME NEW i \in 1 .. Len(k) PROVE i \in 1 .. Len(l) \/ i = Len(l) + 1
    BY <1>1, <1>2
  <2> QED
    BY <1>1, <1>2, <1>5, <2>1
<1>7. ASSUME NEW i \in 1 .. j PROVE k[In(R) + i] = GarbledLabel(R, k, i)
  <2>1. CASE i = j
    BY <1>2, <1>3, <1>4, <2>1
  <2>2. CASE i # j
    <3>1. i \in 1 .. n /\ In(R) + i \in 1 .. Len(l)
      BY <1>1, <2>2
    <3> QED
      BY <1>1, <1>2, <1>4, <3>1
  <2> QED
    BY <2>1, <2>2
<1>8. \A i \in 1 .. In(R) : i \notin SecretOf(R) => k[i] = PublicOf(R, i) ** Delta(Garbler)
  <2>1. \A i \in 1 .. In(R) : i \in 1 .. Len(l)
    BY <1>1
  <2> QED
    BY <1>1, <1>2, <2>1
<1>9. j \in 1 .. j
  BY <1>1
<1> QED
  BY <1>2, <1>3, <1>4, <1>6, <1>7, <1>8, <1>9 DEF LabelsAre

(* The evaluator gets label y for gate j.                                  *)
IsFabric(R, j, e, y) == GateOf(R, j).op # "And" => y = FabricEvalLabel(e, GateOf(R, j))

(* The evaluator's labels with the one of the next gate.                   *)
LEMMA EvalLabelsGrow ==
    ASSUME NEW R \in Runs, NEW n \in Nat, NEW j, j = n + 1, j \in 1 .. Size(R), NEW e,
           EvalLabelsAre(R, n, e), NEW y, IsFabric(R, j, e, y),
           NEW f, Longer(e, y, f)
    PROVE  /\ EvalLabelsAre(R, j, f) /\ Len(f) = In(R) + j /\ f[In(R) + j] = y /\ Last(f) = y
           /\ \A i \in 1 .. (In(R) + n) : f[i] = e[i]
<1>1. /\ In(R) \in Nat /\ IsQueue(e) /\ Len(e) = In(R) + n /\ j - 1 = n
      /\ \A i \in 1 .. In(R) : i \notin SecretOf(R) => e[i] = Zero
      /\ \A i \in 1 .. n :
           GateOf(R, i).op # "And" => e[In(R) + i] = FabricEvalLabel(e, GateOf(R, i))
  <2>1. In(R) \in Nat /\ j - 1 = n
    BY ProgramOk
  <2> QED
    BY <2>1 DEF EvalLabelsAre
<1>2. /\ IsQueue(f) /\ Len(f) = Len(e) + 1
      /\ \A i \in 1 .. Len(e) : f[i] = e[i]
      /\ f[Len(e) + 1] = y /\ Last(f) = y
  BY DEF Longer
<1>3. Len(f) = In(R) + j /\ Len(e) + 1 = In(R) + j
  BY <1>1, <1>2
<1>4. ASSUME NEW i \in 1 .. j, GateOf(R, i).op # "And"
      PROVE  FabricEvalLabel(f, GateOf(R, i)) = FabricEvalLabel(e, GateOf(R, i))
  <2>1. i \in 1 .. Size(R) /\ \A w \in 1 .. (In(R) + (i - 1)) : w \in 1 .. Len(e)
    <3>1. In(R) \in Nat /\ Size(R) \in Nat /\ Len(e) = In(R) + n
      BY <1>1, ProgramOk
    <3> QED
      BY <3>1
  <2> QED
    BY <1>2, <1>4, <2>1, LabelReads
<1>5. ASSUME NEW i \in 1 .. j, GateOf(R, i).op # "And"
      PROVE  f[In(R) + i] = FabricEvalLabel(f, GateOf(R, i))
  <2>1. CASE i = j
    BY <1>2, <1>3, <1>4, <1>5, <2>1 DEF IsFabric
  <2>2. CASE i # j
    <3>1. i \in 1 .. n /\ In(R) + i \in 1 .. Len(e)
      BY <1>1, <2>2
    <3> QED
      BY <1>1, <1>2, <1>4, <1>5, <3>1
  <2> QED
    BY <2>1, <2>2
<1>6. \A i \in 1 .. In(R) : i \notin SecretOf(R) => f[i] = Zero
  <2>1. \A i \in 1 .. In(R) : i \in 1 .. Len(e)
    BY <1>1
  <2> QED
    BY <1>1, <1>2, <2>1
<1> QED
  BY <1>1, <1>2, <1>3, <1>5, <1>6 DEF EvalLabelsAre

(* The evaluator may be ahead of the garbler on gates that are no ANDs;    *)
(* when the garbler catches up, the labels agree.                          *)
LEMMA AgreeCaughtUp ==
    ASSUME NEW R \in Runs, NEW n \in Nat, NEW j, j = n + 1, j \in 1 .. Size(R), NEW l, NEW k,
           Grows(R, l, k), LabelsAre(R, j, k), Len(l) = In(R) + n,
           NEW a, NEW ne \in 0 .. Size(R), NEW e, EvalLabelsAre(R, ne, e),
           LabelsAgree(R, n, l, a, ne, e)
    PROVE  LabelsAgree(R, j, k, a, ne, e)
<1>1. In(R) \in Nat /\ Size(R) \in Nat /\ j - 1 = n /\ ne \in Nat
  BY ProgramOk
<1>2. \A i \in 1 .. ne : GateOf(R, i).op = "And" => i <= n /\ i <= j
  BY <1>1 DEF LabelsAgree
<1>3. ASSUME a \notin Early, NEW w \in Wires(R), w <= In(R) + j, w <= In(R) + ne
      PROVE  e[w] = k[w] ++ (LambdaIn(R, w) ** Delta(Garbler))
  <2>1. ASSUME NEW i \in Wires(R), i <= In(R) + n, i <= In(R) + ne
        PROVE  e[i] = k[i] ++ (LambdaIn(R, i) ** Delta(Garbler))
    <3>1. i \in 1 .. Len(l)
      BY <1>1, <2>1 DEF Wires
    <3>2. k[i] = l[i]
      BY <3>1 DEF Grows
    <3> QED
      BY <1>3, <2>1, <3>2 DEF LabelsAgree, Early
  <2>2. CASE w <= In(R) + n
    BY <1>3, <2>1, <2>2
  <2>3. CASE ~(w <= In(R) + n)
    <3>1. w = In(R) + j /\ j \in 1 .. ne /\ n <= ne
      BY <1>1, <1>3, <2>3 DEF Wires
    <3>2. GateOf(R, j).op # "And"
      BY <1>1, <1>2, <3>1
    <3>3. e[In(R) + j] = FabricEvalLabel(e, GateOf(R, j))
      BY <3>1, <3>2 DEF EvalLabelsAre
    <3>4. \A i \in 1 .. (In(R) + (j - 1)) : IsBlock(k[i]) /\ Opens0(R, k, e, i)
      <4>1. ASSUME NEW i \in 1 .. (In(R) + (j - 1)) PROVE IsBlock(k[i]) /\ Opens0(R, k, e, i)
        <5>1. i \in Wires(R) /\ i <= In(R) + n /\ i <= In(R) + ne /\ i \in 1 .. (In(R) + j)
          BY <1>1, <3>1 DEF Wires
        <5>2. IsBlock(k[i])
          BY <5>1 DEF LabelsAre
        <5> QED
          BY <2>1, <5>1, <5>2 DEF Opens0
      <4> QED
        BY <4>1
    <3>5. FabricEvalLabel(e, GateOf(R, j)) =
            GarbledLabel(R, k, j) ++ (LambdaIn(R, In(R) + j) ** Delta(Garbler))
      BY <3>2, <3>4, FabricOfRun
    <3>6. k[In(R) + j] = GarbledLabel(R, k, j)
      BY <1>1 DEF LabelsAre
    <3> QED
      BY <3>1, <3>3, <3>5, <3>6
  <2> QED
    BY <2>2, <2>3
<1> QED
  BY <1>2, <1>3 DEF LabelsAgree, Early

(* The evaluator's label of gate j, where the garbler has one.             *)
Meets(R, g, l, j, y) ==
    /\ GateOf(R, j).op = "And" => j <= g
    /\ j <= g => y = l[In(R) + j] ++ (LambdaIn(R, In(R) + j) ** Delta(Garbler))

(* The labels agree on one gate more.                                      *)
LEMMA AgreeOneMore ==
    ASSUME NEW R \in Runs, NEW n \in Nat, NEW j, j = n + 1, j \in 1 .. Size(R), NEW g \in Nat,
           NEW l, NEW a, NEW e, LabelsAgree(R, g, l, a, n, e),
           NEW y, Meets(R, g, l, j, y), NEW f, f[In(R) + j] = y, \A i \in 1 .. (In(R) + n) : f[i] = e[i]
    PROVE  LabelsAgree(R, g, l, a, j, f)
<1>1. In(R) \in Nat /\ Size(R) \in Nat /\ j - 1 = n
  BY ProgramOk
<1>2. ASSUME NEW i \in 1 .. j, GateOf(R, i).op = "And" PROVE i <= g
  <2>1. i = j \/ i \in 1 .. n
    BY <1>1
  <2> QED
    BY <1>2, <2>1 DEF LabelsAgree, Meets
<1>3. ASSUME a \notin Early, NEW w \in Wires(R), w <= In(R) + g, w <= In(R) + j
      PROVE  f[w] = l[w] ++ (LambdaIn(R, w) ** Delta(Garbler))
  <2>1. CASE w = In(R) + j
    <3>1. j <= g
      BY <1>1, <1>3, <2>1
    <3> QED
      BY <2>1, <3>1 DEF Meets
  <2>2. CASE w # In(R) + j
    <3>1. w <= In(R) + n /\ w \in 1 .. (In(R) + n)
      BY <1>1, <1>3, <2>2 DEF Wires
    <3> QED
      BY <1>3, <3>1 DEF LabelsAgree, Early
  <2> QED
    BY <2>1, <2>2
<1> QED
  BY <1>2, <1>3 DEF LabelsAgree, Early
-------------------------------------------------------------------------------
(* Garbling.                                                               *)
LEMMA OperandsOf ==
    ASSUME NEW R \in Runs, NEW j, IsAnd(R, j)
    PROVE  /\ j \in 1 .. Size(R) /\ GateOf(R, j).op = "And"
           /\ A(R, j) \in 1 .. (In(R) + (j - 1)) /\ B(R, j) \in 1 .. (In(R) + (j - 1))
           /\ A(R, j) \in Wires(R) /\ B(R, j) \in Wires(R) /\ In(R) + j \in Wires(R)
<1>1. j \in 1 .. Size(R) /\ GateOf(R, j).op = "And" /\ In(R) \in Nat /\ Size(R) \in Nat
  BY ProgramOk DEF IsAnd
<1>2. A(R, j) \in 1 .. (In(R) + (j - 1)) /\ B(R, j) \in 1 .. (In(R) + (j - 1))
  BY <1>1, ProgramOk DEF GateBounds
<1> QED
  BY <1>1, <1>2 DEF Wires

(* What the garbler has while it garbles.                                  *)
LEMMA GarblesWith ==
    ASSUME NEW R \in Runs, RunInv(R), at[Garbler] = "garble"
    PROVE  /\ pc[Garbler] \in 0 .. Size(R) /\ SharesAre(R, Garbler, shr[Garbler])
           /\ seed[Garbler] = SeedOf(R) /\ MasksTo(R, 0, msk[Garbler])
           /\ LabelsAre(R, pc[Garbler], lab[Garbler]) /\ ListsWitnesses(R, 0, M1_t[Garbler])
<1>1. "garble" \notin Setup
  BY DEF Setup
<1>2. GarblerState(R, "garble", pc[Garbler], shr[Garbler], msk[Garbler], lab[Garbler],
                   seed[Garbler], Lambda_AND[Garbler], M1_t[Garbler])
  BY PartiesAre
<1>3. Garbled(R, "garble", pc[Garbler]) = pc[Garbler]
  BY DEF Garbled
<1> QED
  BY <1>1, <1>2, <1>3 DEF GarblerState, StepOk

(* The garbler appends the label of the next gate.                         *)
LEMMA GarbleKeeps ==
    ASSUME NEW R \in Runs, RunInv(R), SeedInv, at[Garbler] = "garble",
           NEW n, n = pc[Garbler], NEW j, j = n + 1, j \in 1 .. Size(R),
           NEW x, x = GarbledLabel(R, lab[Garbler], j), NEW k, Longer(lab[Garbler], x, k),
           Puts(Garbler, "garble", j, shr[Garbler], msk[Garbler], k, seed[Garbler],
                Lambda_AND[Garbler], M1_t[Garbler]),
           UNCHANGED val, Talked(R, Garbler, "garble", j)
    PROVE  RunInv(R)'
<1>1. /\ n \in 0 .. Size(R) /\ SharesAre(R, Garbler, shr[Garbler])
      /\ seed[Garbler] = SeedOf(R) /\ MasksTo(R, 0, msk[Garbler])
      /\ LabelsAre(R, n, lab[Garbler]) /\ ListsWitnesses(R, 0, M1_t[Garbler])
  BY GarblesWith
<1>2. Garbler \in Party /\ Evaluator \in Party /\ Garbler # Evaluator
  BY ChannelEnds
<1>3. Becomes(Garbler, "garble", j, shr[Garbler], msk[Garbler], k, seed[Garbler],
              Lambda_AND[Garbler], M1_t[Garbler])
  BY <1>2, PartiesAre, BecomesBy
<1>4. n \in Nat /\ Size(R) \in Nat /\ j \in 0 .. Size(R)
  BY <1>1, ProgramOk
<1>5. LabelsAre(R, j, k) /\ Grows(R, lab[Garbler], k)
  BY <1>1, <1>4, LabelsGrow
<1>6. "garble" \notin Setup /\ Garbled(R, "garble", j) = j /\ Garbled(R, "garble", n) = n
  BY DEF Setup, Garbled
<1>7. GarblerState(R, "garble", j, shr[Garbler], msk[Garbler], k, seed[Garbler],
                   Lambda_AND[Garbler], M1_t[Garbler])
  <2>1. StepOk(R, "garble", j)
    BY <1>4, <1>6 DEF StepOk
  <2> QED
    BY <1>1, <1>5, <1>6, <2>1 DEF GarblerState, GarblerSteps
<1>8. PartyState(R, Garbler, "garble", j, shr[Garbler], msk[Garbler], k, seed[Garbler],
                 Lambda_AND[Garbler], M1_t[Garbler])
  BY <1>7 DEF PartyState
<1>9. /\ at'[Garbler] = "garble" /\ pc'[Garbler] = j /\ lab'[Garbler] = k
      /\ at'[Evaluator] = at[Evaluator] /\ pc'[Evaluator] = pc[Evaluator]
      /\ lab'[Evaluator] = lab[Evaluator]
  BY <1>2, <1>3 DEF Becomes, Same
<1>10. Matches(R)'
  <2>1. LabelsAgree(R, n, lab[Garbler], at[Evaluator], pc[Evaluator], lab[Evaluator])
    BY <1>6, PartiesAre DEF Matches
  <2>2. EvalLabelsAre(R, pc[Evaluator], lab[Evaluator]) /\ pc[Evaluator] \in 0 .. Size(R)
    BY PartiesAre DEF EvaluatorState, StepOk
  <2>3. Len(lab[Garbler]) = In(R) + n
    BY <1>1 DEF LabelsAre
  <2>4. LabelsAgree(R, j, k, at[Evaluator], pc[Evaluator], lab[Evaluator])
    BY <1>4, <1>5, <2>1, <2>2, <2>3, AgreeCaughtUp
  <2> QED
    BY <1>6, <1>9, <2>4 DEF Matches
<1>11. Decodes(R) => ValuesAre(R, at'[Evaluator], val')
  BY <1>9, ValuesKeep
<1> QED
  BY <1>2, <1>3, <1>8, <1>10, <1>11, Moved

(* A gate other than AND is garbled without a message,                     *)
LEMMA GarbleFabricKeeps ==
    ASSUME NEW R \in Runs, RunInv(R), SeedInv, GarbleFabric
    PROVE  RunInv(R)'
<1>1. PICK n, l : n = pc[Garbler] /\ l = lab[Garbler]
  OBVIOUS
<1>2. PICK j : j = n + 1
  OBVIOUS
<1>3. PICK y : y = GarbledLabel(R, l, j)
  OBVIOUS
<1>4. PICK k : k = Append(l, y)
  OBVIOUS
<1>5. /\ at[Garbler] = "garble" /\ Garbler \in Party /\ more(Garbler) /\ Now(Garbler).op # "And"
      /\ UNCHANGED <<prog, owner, recipient, at, shr, msk, seed, val, wire, seen>>
      /\ UNCHANGED <<Lambda_AND, M1_t>>
      /\ lab' = [lab EXCEPT ![Garbler] = Append(l, FabricLabel0(l, Now(Garbler)))]
      /\ pc' = [pc EXCEPT ![Garbler] = n + 1]
  BY <1>1, ChannelEnds DEF GarbleFabric, At, AddLabel, NextGate, gamma, comm
<1>6. Running(R) /\ Tables /\ n \in 0 .. Size(R) /\ LabelsAre(R, n, l)
  BY <1>1, <1>5, PartiesAre, GarblesWith
<1>5a. Longer(l, y, k)
  <2>1. IsQueue(l)
    BY <1>6 DEF LabelsAre
  <2> QED
    BY <1>4, <2>1, AppendIs
<1>7. j \in 1 .. Size(R) /\ Now(Garbler) = GateOf(R, j)
  BY <1>1, <1>2, <1>5, <1>6, GateIs
<1>8. lab' = [lab EXCEPT ![Garbler] = k]
  BY <1>3, <1>4, <1>5, <1>7 DEF GarbledLabel
<1>9. Puts(Garbler, "garble", j, shr[Garbler], msk[Garbler], k, seed[Garbler],
           Lambda_AND[Garbler], M1_t[Garbler])
  BY <1>2, <1>5, <1>8 DEF Puts, Sets
<1>10. Talked(R, Garbler, "garble", j)
  <2>1. n \in Nat /\ Size(R) \in Nat
    BY <1>6, ProgramOk
  <2>2. Grows(R, l, k)
    BY <1>2, <1>3, <1>5a, <1>6, <1>7, <2>1, LabelsGrow
  <2>3. lab'[Garbler] = k
    BY <1>5, <1>6, <1>8 DEF Tables
  <2>4. Ands(R, j) = Ands(R, n)
    <3>1. j - 1 = n
      BY <1>2, <2>1
    <3> QED
      BY <1>5, <1>7, <3>1, AndsAre
  <2>5. \A c \in Channel :
          CountIn(R, Garbler, "garble", j, c) = CountIn(R, Garbler, at[Garbler], pc[Garbler], c)
    BY <1>1, <1>5, <2>4, CountsAre
  <2> QED
    BY <1>1, <1>5, <2>2, <2>3, <2>5, TalkedNot
<1> QED
  BY <1>1, <1>2, <1>3, <1>5a, <1>5, <1>6, <1>7, <1>9, <1>10, GarbleKeeps

(* an AND with a row.                                                      *)
LEMMA GarbleAndKeeps ==
    ASSUME NEW R \in Runs, RunInv(R), SeedInv, GarbleAnd
    PROVE  RunInv(R)'
<1>1. PICK n, l, s : n = pc[Garbler] /\ l = lab[Garbler] /\ s = shr[Garbler]
  OBVIOUS
<1>2. PICK j : j = n + 1
  OBVIOUS
<1>3. PICK y : y = GarbledLabel(R, l, j)
  OBVIOUS
<1>4. PICK k : k = Append(l, y)
  OBVIOUS
<1>5. PICK a, b, g, t : /\ a = In0(Garbler) /\ b = In1(Garbler) /\ g = Id(Garbler)
                        /\ t = <<seed[Garbler], Ai(Garbler)>>
  OBVIOUS
<1>6. /\ at[Garbler] = "garble" /\ Garbler \in Party /\ more(Garbler) /\ Now(Garbler).op = "And"
      /\ UNCHANGED <<prog, owner, recipient, at, shr, msk, seed, val>>
      /\ UNCHANGED <<Lambda_AND, M1_t>>
      /\ lab' = [lab EXCEPT ![Garbler] = Append(l, OutLabel(l[a], l[b], Sigma(Garbler), s[g], t))]
      /\ Send(Garbler, "io", Row(l[a], l[b], s[a], s[b], Last(lab'[Garbler]), t))
      /\ pc' = [pc EXCEPT ![Garbler] = n + 1]
  BY <1>1, <1>5, ChannelEnds DEF GarbleAnd, At, AddLabel, NextGate, gamma
<1>7. /\ Running(R) /\ Tables /\ n \in 0 .. Size(R) /\ LabelsAre(R, n, l)
      /\ SharesAre(R, Garbler, s) /\ seed[Garbler] = SeedOf(R)
  BY <1>1, <1>6, PartiesAre, GarblesWith
<1>5a. Longer(l, y, k)
  <2>1. IsQueue(l)
    BY <1>7 DEF LabelsAre
  <2> QED
    BY <1>4, <2>1, AppendIs
<1>8. IsAnd(R, j) /\ Now(Garbler) = GateOf(R, j)
  <2>1. j \in 1 .. Size(R) /\ Now(Garbler) = GateOf(R, j)
    BY <1>1, <1>2, <1>6, <1>7, GateIs
  <2> QED
    BY <1>6, <2>1 DEF IsAnd
<1>9. /\ a = A(R, j) /\ b = B(R, j) /\ g = In(R) + j /\ Sigma(Garbler) = SigmaIn(R, Garbler, j)
      /\ t = TweakOf(R, j)
  BY <1>1, <1>2, <1>5, <1>6, <1>7, <1>8, GateIs DEF TweakOf
<1>10. /\ j \in 1 .. Size(R) /\ GateOf(R, j).op = "And"
       /\ a \in 1 .. (In(R) + (j - 1)) /\ b \in 1 .. (In(R) + (j - 1))
       /\ a \in Wires(R) /\ b \in Wires(R) /\ g \in Wires(R)
  BY <1>8, <1>9, OperandsOf
<1>11. /\ s[a] = ShareIn(R, Garbler, a) /\ s[b] = ShareIn(R, Garbler, b)
       /\ s[g] = ShareIn(R, Garbler, g)
  BY <1>7, <1>10 DEF SharesAre
<1>12. lab' = [lab EXCEPT ![Garbler] = k] /\ lab'[Garbler] = k
  <2>1. y = OutLabel(l[a], l[b], Sigma(Garbler), s[g], t)
    BY <1>3, <1>9, <1>10, <1>11 DEF GarbledLabel
  <2> QED
    BY <1>4, <1>6, <1>7, <2>1 DEF Tables
<1>13. n \in Nat /\ Size(R) \in Nat /\ In(R) \in Nat
  BY <1>7, ProgramOk
<1>14. /\ Grows(R, l, k) /\ Len(k) = In(R) + j /\ Last(k) = k[In(R) + j]
  BY <1>2, <1>3, <1>5a, <1>7, <1>10, <1>13, LabelsGrow
<1>15. PICK msg : /\ Send(Garbler, "io", msg) /\ msg = RowIn(R, k, j)
  <2>1. Len(l) = In(R) + (j - 1)
    BY <1>2, <1>7, <1>13 DEF LabelsAre
  <2>2. k[a] = l[a] /\ k[b] = l[b]
    BY <1>10, <1>14, <2>1 DEF Grows
  <2> QED
    BY <1>6, <1>9, <1>11, <1>12, <1>14, <2>2 DEF RowIn
<1>16. Puts(Garbler, "garble", j, shr[Garbler], msk[Garbler], k, seed[Garbler],
            Lambda_AND[Garbler], M1_t[Garbler])
  BY <1>2, <1>6, <1>12 DEF Puts, Sets
<1>17. Talked(R, Garbler, "garble", j)
  <2>1. Ands(R, j) = Ands(R, n) + 1 /\ Ands(R, n) \in Nat
    <3>1. j - 1 = n
      BY <1>2, <1>13
    <3> QED
      BY <1>10, <1>13, <3>1, AndsAre
  <2>2. ASSUME NEW c \in Channel
        PROVE  CountIn(R, Garbler, "garble", j, c) =
                 IF c = "io" THEN CountIn(R, Garbler, "garble", n, c) + 1
                 ELSE CountIn(R, Garbler, "garble", n, c)
    <3>1. Tally(R, c, Ands(R, n) + 1, 0) = IF c = "io" THEN Tally(R, c, Ands(R, n), 0) + 1
                                         ELSE Tally(R, c, Ands(R, n), 0)
      BY <2>1, TallyMoves
    <3> QED
      BY <2>1, <3>1, CountsAre, ChannelEnds
  <2>3. Counts(R, Garbler, at[Garbler], pc[Garbler], "garble", j, "io")
    BY <1>1, <1>6, <2>2 DEF Counts
  <2>4. "io" \in Channel /\ Garbler = WriterOf("io")
    BY ChannelEnds
  <2>5. CountIn(R, Garbler, at[Garbler], pc[Garbler], "io") + 1 = Base(R) + Ands(R, j)
    <3>1. CountIn(R, Garbler, "garble", j, "io") = Base(R) + Ands(R, j)
      <4>1. \A c \in Channel : CountIn(R, Garbler, "garble", j, c) = Tally(R, c, Ands(R, j), 0)
        BY <1>6, CountsAre
      <4> QED
        BY <2>4, <4>1 DEF Tally
    <3> QED
      BY <1>1, <1>6, <2>2, <2>4, <3>1
  <2>6. Message(R, k, "io", Base(R) + Ands(R, j), msg)
    <3>1. In(R) + j <= Len(k)
      BY <1>2, <1>13, <1>14
    <3> QED
      BY <1>8, <1>15, <3>1, SendsRow
  <2> QED
    BY <1>1, <1>6, <1>12, <1>14, <1>15, <2>3, <2>4, <2>5, <2>6, TalkedBySend
<1> QED
  BY <1>1, <1>2, <1>3, <1>5a, <1>6, <1>7, <1>10, <1>16, <1>17, GarbleKeeps

(* A program without ANDs.                                                 *)
LEMMA NoAnds ==
    ASSUME NEW R \in Runs, NumAndsOf(R) = 0
    PROVE  /\ \A j \in 1 .. Size(R) : GateOf(R, j).op # "And"
           /\ Extra(R) = 0 /\ Ands(R, 0) = 0 /\ Ands(R, Size(R)) = 0
<1>1. ASSUME NEW j \in 1 .. Size(R), GateOf(R, j).op = "And" PROVE FALSE
  <2>1. IsAnd(R, j)
    BY <1>1 DEF IsAnd
  <2>2. Ands(R, j) \in 1 .. NumAndsOf(R)
    BY <2>1, AndNumbers
  <2> QED
    BY <2>2
<1> QED
  BY <1>1, AndsAre DEF Extra, NumAndsOf

(* All gates are garbled.                                                  *)
LEMMA GarbleDoneKeeps ==
    ASSUME NEW R \in Runs, RunInv(R), SeedInv, GarbleDone
    PROVE  RunInv(R)'
<1> DEFINE p == Garbler
<1>1. PICK a : a = IF NumAnds > 0 THEN "Lambda_AND" ELSE "decode"
  OBVIOUS
<1>2. /\ at[p] = "garble" /\ p \in Party /\ ~more(p) /\ at' = [at EXCEPT ![p] = a]
      /\ UNCHANGED <<prog, owner, recipient, pc, seed, val, wire, seen>>
      /\ UNCHANGED <<shr, msk, lab, Lambda_AND, M1_t>>
  BY <1>1, ChannelEnds DEF GarbleDone, At, Goto, wires, gamma, comm
<1>3. /\ Running(R) /\ Tables /\ pc[p] \in 0 .. Size(R) /\ SharesAre(R, p, shr[p])
      /\ seed[p] = SeedOf(R) /\ MasksTo(R, 0, msk[p]) /\ LabelsAre(R, pc[p], lab[p])
      /\ ListsWitnesses(R, 0, M1_t[p])
  BY <1>2, PartiesAre, GarblesWith
<1>4. pc[p] = Size(R) /\ NumAnds = NumAndsOf(R) /\ NumAndsOf(R) \in Nat /\ Size(R) \in Nat
  BY <1>2, <1>3, GateIs, NamesAre, AndsAre, ProgramOk
<1>5. \/ a = "Lambda_AND" /\ NumAndsOf(R) > 0
      \/ a = "decode" /\ NumAndsOf(R) = 0
  BY <1>1, <1>4
<1>6. Becomes(p, a, pc[p], shr[p], msk[p], lab[p], seed[p], Lambda_AND[p], M1_t[p])
  <2>1. Puts(p, a, pc[p], shr[p], msk[p], lab[p], seed[p], Lambda_AND[p], M1_t[p])
    BY <1>2 DEF Puts, Sets
  <2> QED
    BY <1>2, <1>3, <2>1, BecomesBy
<1>7. GarblerState(R, a, pc[p], shr[p], msk[p], lab[p], seed[p], Lambda_AND[p], M1_t[p])
  <2>1. a \notin Setup /\ a \notin Early /\ a # "gamma" /\ Garbled(R, a, pc[p]) = pc[p] /\ a \in GarblerSteps
    BY <1>4, <1>5 DEF Setup, Garbled, GarblerSteps, Early
  <2>2. StepOk(R, a, pc[p])
    BY <1>4, <1>5, <2>1 DEF StepOk, Early
  <2>3. a = "decode" => ListsWitnesses(R, pc[p], M1_t[p])
    BY <1>3, <1>4, <1>5, NoAnds DEF ListsWitnesses
  <2> QED
    BY <1>3, <1>5, <2>1, <2>2, <2>3 DEF GarblerState
<1>8. PartyState(R, p, a, pc[p], shr[p], msk[p], lab[p], seed[p], Lambda_AND[p], M1_t[p])
  BY <1>7 DEF PartyState
<1>9. at'[Garbler] = a /\ at'[Evaluator] = at[Evaluator]
  BY <1>2, <1>3, ChannelEnds DEF Tables
<1>10. Matches(R)' /\ Grows(R, lab[Garbler], lab'[Garbler])
  <2>1. Garbled(R, at'[Garbler], pc'[Garbler]) = Garbled(R, at[Garbler], pc[Garbler])
    BY <1>2, <1>4, <1>5, <1>9 DEF Garbled, Setup
  <2> QED
    BY <1>2, <1>9, <2>1, MatchesKeep
<1>11. Talked(R, p, a, pc[p])
  <2>1. ASSUME NEW c \in Channel PROVE CountIn(R, p, a, pc[p], c) = CountIn(R, p, at[p], pc[p], c)
    <3>1. /\ CountIn(R, p, "garble", pc[p], c) = Tally(R, c, NumAndsOf(R), 0)
          /\ CountIn(R, p, "Lambda_AND", pc[p], c) = Tally(R, c, NumAndsOf(R), 0)
          /\ CountIn(R, p, "decode", pc[p], c) = Tally(R, c, NumAndsOf(R) + Extra(R), Extra(R))
      BY <1>2, <1>4, CountsAre DEF NumAndsOf
    <3>2. NumAndsOf(R) = 0 => Extra(R) = 0 /\ NumAndsOf(R) + Extra(R) = NumAndsOf(R)
      BY NoAnds
    <3> QED
      BY <1>2, <1>5, <3>1, <3>2
  <2> QED
    BY <1>2, <1>10, <2>1, TalkedNot
<1>12. Decodes(R) => ValuesAre(R, at'[Evaluator], val')
  BY <1>2, <1>9, ValuesKeep
<1> QED
  BY <1>2, <1>6, <1>8, <1>10, <1>11, <1>12, Moved
-------------------------------------------------------------------------------
(* One mask more, one AND more.                                            *)
Masked(m, i, b, w) ==
    /\ DOMAIN w = DOMAIN m /\ (i \in DOMAIN m => w[i] = b)
    /\ \A k \in DOMAIN m : k # i => w[k] = m[k]

(* EXCEPT replaces one mask.                                               *)
LEMMA MaskedBy == ASSUME NEW m, NEW i, NEW b PROVE Masked(m, i, b, [m EXCEPT ![i] = b])
BY DEF Masked

(* The masks up to the next gate.                                          *)
LEMMA MasksGrow ==
    ASSUME NEW R \in Runs, NEW n \in Nat, NEW j, j = n + 1, j \in 1 .. Size(R), NEW m,
           MasksTo(R, n, m), NEW b, b = LambdaIn(R, In(R) + j), NEW w, Masked(m, In(R) + j, b, w)
    PROVE  MasksTo(R, j, w)
<1>1. In(R) \in Nat /\ Size(R) \in Nat /\ In(R) + j \in Wires(R) /\ DOMAIN m = Wires(R)
  BY ProgramOk DEF MasksTo, Wires
<1>2. ASSUME NEW k \in Wires(R), k <= In(R) + j PROVE w[k] = LambdaIn(R, k)
  <2>1. CASE k = In(R) + j
    BY <1>1, <2>1 DEF Masked
  <2>2. CASE k # In(R) + j
    <3>1. k <= In(R) + n
      BY <1>1, <1>2, <2>2 DEF Wires
    <3>2. w[k] = m[k]
      BY <1>1, <2>2 DEF Masked
    <3> QED
      BY <3>1, <3>2 DEF MasksTo
  <2> QED
    BY <2>1, <2>2
<1> QED
  BY <1>1, <1>2 DEF MasksTo, Masked

(* The mask of a gate other than AND follows from those of its operands.   *)
LEMMA FabricMaskIs ==
    ASSUME NEW R \in Runs, Running(R), NEW p \in Party, NEW n, n = pc[p], n \in 0 .. Size(R),
           NEW j, j = n + 1, j \in 1 .. Size(R), GateOf(R, j).op # "And", MasksTo(R, n, msk[p])
    PROVE  FabricMask(p) = LambdaIn(R, In(R) + j)
<1> DEFINE g == GateOf(R, j)
           a == A(R, j)
           b == B(R, j)
           m == msk[p]
<1>1. Now(p) = g /\ In0(p) = a /\ In1(p) = b /\ In(R) \in Nat /\ Size(R) \in Nat /\ j - 1 = n
  BY GateIs, ProgramOk
<1>2. /\ g.op \in {"Xor", "Not", "Const0", "Const1"}
      /\ IsConst(g) <=> g.op \in {"Const0", "Const1"}
      /\ g.op \in {"Xor", "Not"} => a \in 1 .. (In(R) + n)
      /\ g.op = "Xor" => b \in 1 .. (In(R) + n)
  BY <1>1, ProgramOk DEF GateBounds
<1>3. \A k \in 1 .. (In(R) + n) : m[k] = LambdaIn(R, k)
  BY <1>1 DEF MasksTo, Wires
<1>4. /\ g.op \in {"Xor", "Not"} => m[a] = LambdaIn(R, a)
      /\ g.op = "Xor" => m[b] = LambdaIn(R, b)
  BY <1>2, <1>3
<1>5. /\ g.op = "Xor" => LambdaIn(R, In(R) + j) = LambdaIn(R, a) ++ LambdaIn(R, b)
      /\ g.op = "Not" => LambdaIn(R, In(R) + j) = NotBit(LambdaIn(R, a))
      /\ g.op \in {"Const0", "Const1"} => LambdaIn(R, In(R) + j) = GateMask(g)
  BY LambdasOfRun
<1> HIDE DEF g, a, b, m
<1>6. CASE g.op = "Xor"
  <2>1. FabricMask(p) = m[a] ++ m[b]
    BY <1>1, <1>2, <1>6 DEF FabricMask, m
  <2> QED
    BY <1>4, <1>5, <1>6, <2>1
<1>7. CASE g.op = "Not"
  <2>1. FabricMask(p) = NotBit(m[a])
    BY <1>1, <1>2, <1>7 DEF FabricMask, m
  <2> QED
    BY <1>4, <1>5, <1>7, <2>1
<1>8. CASE g.op \in {"Const0", "Const1"}
  <2>1. FabricMask(p) = GateMask(g)
    BY <1>1, <1>2, <1>8 DEF FabricMask, m
  <2> QED
    BY <1>5, <1>8, <2>1
<1> QED
  BY <1>2, <1>6, <1>7, <1>8

(* A list with one element per AND.                                        *)
LEMMA ListIndex ==
    ASSUME NEW R \in Runs, NEW n \in Nat, NEW j, j = n + 1, IsAnd(R, j), NEW L, IsQueue(L),
           Len(L) = Ands(R, n), NEW x, NEW M, Longer(L, x, M)
    PROVE  /\ IsQueue(M) /\ Len(M) = Ands(R, j) /\ M[Ands(R, j)] = x
           /\ \A i \in 1 .. j : GateOf(R, i).op = "And" /\ i # j => M[Ands(R, i)] = L[Ands(R, i)]
<1>1. j - 1 = n /\ j \in 1 .. Size(R) /\ Size(R) \in Nat
  BY ProgramOk DEF IsAnd
<1>2. Ands(R, j) = Ands(R, n) + 1 /\ Ands(R, n) \in Nat
  BY <1>1, AndNumbers, AndsAre
<1>3. ASSUME NEW i \in 1 .. j, GateOf(R, i).op = "And", i # j
      PROVE  M[Ands(R, i)] = L[Ands(R, i)]
  <2>1. i \in Nat /\ i <= n /\ IsAnd(R, i)
    BY <1>1, <1>3 DEF IsAnd
  <2>2. Ands(R, i) <= Ands(R, n) /\ Ands(R, i) \in 1 .. NumAndsOf(R) /\ NumAndsOf(R) \in Nat
    BY <2>1, AndsAre, AndNumbers
  <2>3. Ands(R, i) \in 1 .. Len(L)
    BY <1>2, <2>2
  <2> QED
    BY <2>3 DEF Longer
<1> QED
  BY <1>2, <1>3 DEF Longer

(* The list of Lambdas and the list of witnesses get one more with an AND, *)
LEMMA LambdasGrow ==
    ASSUME NEW R \in Runs, NEW n \in Nat, NEW j, j = n + 1, IsAnd(R, j), NEW L,
           ListsLambdas(R, n, L), NEW x, x = LambdaIn(R, In(R) + j), NEW M, Longer(L, x, M)
    PROVE  ListsLambdas(R, j, M)
<1>1. /\ IsQueue(M) /\ Len(M) = Ands(R, j) /\ M[Ands(R, j)] = x
      /\ \A i \in 1 .. j : GateOf(R, i).op = "And" /\ i # j => M[Ands(R, i)] = L[Ands(R, i)]
  BY ListIndex DEF ListsLambdas
<1>2. \A i \in 1 .. j : i # j => i \in 1 .. n
  OBVIOUS
<1> QED
  BY <1>1, <1>2 DEF ListsLambdas

(* where they have the value of that AND,                                  *)
LEMMA WitnessesGrow ==
    ASSUME NEW R \in Runs, NEW n \in Nat, NEW j, j = n + 1, IsAnd(R, j), NEW L,
           ListsWitnesses(R, n, L), NEW x, x = WitnessIn(R, j), NEW M, Longer(L, x, M)
    PROVE  ListsWitnesses(R, j, M)
<1>1. /\ IsQueue(M) /\ Len(M) = Ands(R, j) /\ M[Ands(R, j)] = x
      /\ \A i \in 1 .. j : GateOf(R, i).op = "And" /\ i # j => M[Ands(R, i)] = L[Ands(R, i)]
  BY ListIndex DEF ListsWitnesses
<1>2. \A i \in 1 .. j : i # j => i \in 1 .. n
  OBVIOUS
<1> QED
  BY <1>1, <1>2 DEF ListsWitnesses

(* and stay as they are at another gate.                                   *)
LEMMA ListsSkip ==
    ASSUME NEW R \in Runs, NEW n \in Nat, NEW j, j = n + 1, j \in 1 .. Size(R),
           GateOf(R, j).op # "And"
    PROVE  /\ Ands(R, j) = Ands(R, n)
           /\ \A L : ListsLambdas(R, n, L) => ListsLambdas(R, j, L)
           /\ \A L : ListsWitnesses(R, n, L) => ListsWitnesses(R, j, L)
<1>1. Ands(R, j) = Ands(R, n)
  <2>1. j - 1 = n
    OBVIOUS
  <2> QED
    BY <2>1, AndsAre
<1>2. \A i \in 1 .. j : GateOf(R, i).op = "And" => i \in 1 .. n
  <2>1. \A i \in 1 .. j : i # j => i \in 1 .. n
    OBVIOUS
  <2> QED
    BY <2>1
<1> QED
  BY <1>1, <1>2 DEF ListsLambdas, ListsWitnesses
-------------------------------------------------------------------------------
(* Evaluation.                                                             *)
LEMMA EvaluatesWith ==
    ASSUME NEW R \in Runs, RunInv(R), at[Evaluator] = "evaluate"
    PROVE  /\ pc[Evaluator] \in 0 .. Size(R) /\ SharesAre(R, Evaluator, shr[Evaluator])
           /\ seed[Evaluator] = SeedOf(R) /\ MasksTo(R, pc[Evaluator], msk[Evaluator])
           /\ EvalLabelsAre(R, pc[Evaluator], lab[Evaluator])
           /\ ListsLambdas(R, pc[Evaluator], Lambda_AND[Evaluator])
           /\ ListsWitnesses(R, pc[Evaluator], M1_t[Evaluator])
<1>1. "evaluate" \notin Setup
  BY DEF Setup
<1>2. EvaluatorState(R, "evaluate", pc[Evaluator], shr[Evaluator], msk[Evaluator],
                     lab[Evaluator], seed[Evaluator], Lambda_AND[Evaluator], M1_t[Evaluator])
  BY PartiesAre
<1> QED
  BY <1>1, <1>2 DEF EvaluatorState, StepOk

(* The evaluator's label of the next gate is right, if the garbler has     *)
(* garbled it; an AND it has.                                              *)
LEMMA EvaluateKeeps ==
    ASSUME NEW R \in Runs, RunInv(R), SeedInv, at[Evaluator] = "evaluate",
           NEW n, n = pc[Evaluator], NEW j, j = n + 1, j \in 1 .. Size(R),
           NEW g, g = Garbled(R, at[Garbler], pc[Garbler]),
           NEW y, IsFabric(R, j, lab[Evaluator], y), Meets(R, g, lab[Garbler], j, y),
           NEW f, Longer(lab[Evaluator], y, f), NEW m, MasksTo(R, j, m),
           NEW L, ListsLambdas(R, j, L), NEW M, ListsWitnesses(R, j, M),
           Puts(Evaluator, "evaluate", j, shr[Evaluator], m, f, seed[Evaluator], L, M),
           UNCHANGED val, Talked(R, Evaluator, "evaluate", j)
    PROVE  RunInv(R)'
<1>1. /\ n \in 0 .. Size(R) /\ SharesAre(R, Evaluator, shr[Evaluator])
      /\ seed[Evaluator] = SeedOf(R) /\ EvalLabelsAre(R, n, lab[Evaluator])
  BY EvaluatesWith
<1>2. Garbler \in Party /\ Evaluator \in Party /\ Garbler # Evaluator
  BY ChannelEnds
<1>3. Becomes(Evaluator, "evaluate", j, shr[Evaluator], m, f, seed[Evaluator], L, M)
  BY <1>2, PartiesAre, BecomesBy
<1>4. n \in Nat /\ Size(R) \in Nat /\ j \in 0 .. Size(R) /\ g \in Nat /\ g \in 0 .. Size(R)
  <2>1. Size(R) \in Nat /\ g \in 0 .. Size(R)
    BY GarblerGrows
  <2> QED
    BY <1>1, <2>1
<1>5. /\ EvalLabelsAre(R, j, f) /\ f[In(R) + j] = y
      /\ \A i \in 1 .. (In(R) + n) : f[i] = lab[Evaluator][i]
  BY <1>1, <1>4, EvalLabelsGrow
<1>6. EvaluatorState(R, "evaluate", j, shr[Evaluator], m, f, seed[Evaluator], L, M)
  <2>1. "evaluate" \notin Setup
    BY DEF Setup
  <2>2. StepOk(R, "evaluate", j)
    BY <1>4, <2>1 DEF StepOk
  <2> QED
    BY <1>1, <1>5, <2>1, <2>2 DEF EvaluatorState, EvaluatorSteps
<1>7. PartyState(R, Evaluator, "evaluate", j, shr[Evaluator], m, f, seed[Evaluator], L, M)
  BY <1>2, <1>6 DEF PartyState
<1>8. /\ at'[Evaluator] = "evaluate" /\ pc'[Evaluator] = j /\ lab'[Evaluator] = f
      /\ at'[Garbler] = at[Garbler] /\ pc'[Garbler] = pc[Garbler]
      /\ lab'[Garbler] = lab[Garbler]
  BY <1>2, <1>3 DEF Becomes, Same
<1>9. Matches(R)'
  <2>1. LabelsAgree(R, g, lab[Garbler], "evaluate", n, lab[Evaluator])
    BY PartiesAre DEF Matches
  <2>2. LabelsAgree(R, g, lab[Garbler], "evaluate", j, f)
    BY <1>4, <1>5, <2>1, AgreeOneMore
  <2> QED
    BY <1>8, <2>2 DEF Matches
<1>10. Decodes(R) => ValuesAre(R, at'[Evaluator], val')
  BY <1>8, ValuesKeep
<1> QED
  BY <1>2, <1>3, <1>7, <1>9, <1>10, Moved

(* What the evaluator can rely on where the garbler is ahead.              *)
LEMMA LabelsMeet ==
    ASSUME NEW R \in Runs, RunInv(R), at[Evaluator] = "evaluate", NEW j \in 1 .. Size(R),
           j <= Garbled(R, at[Garbler], pc[Garbler]), j <= pc[Evaluator] + 1
    PROVE  /\ lab[Garbler][In(R) + j] = GarbledLabel(R, lab[Garbler], j)
           /\ \A k \in 1 .. (In(R) + (j - 1)) :
                IsBlock(lab[Garbler][k]) /\ Opens0(R, lab[Garbler], lab[Evaluator], k)
<1> DEFINE g == Garbled(R, at[Garbler], pc[Garbler])
           n == pc[Evaluator]
<1>1. g \in 0 .. Size(R) /\ In(R) \in Nat /\ Size(R) \in Nat /\ n \in 0 .. Size(R)
  BY GarblerGrows, EvaluatesWith
<1>2. LabelsAre(R, g, lab[Garbler])
  BY PartiesAre DEF GarblerState
<1>3. LabelsAgree(R, g, lab[Garbler], "evaluate", n, lab[Evaluator])
  BY PartiesAre DEF Matches
<1>4. j <= g /\ j <= n + 1
  OBVIOUS
<1> HIDE DEF g, n
<1>5. lab[Garbler][In(R) + j] = GarbledLabel(R, lab[Garbler], j)
  BY <1>1, <1>2, <1>4 DEF LabelsAre
<1>6. ASSUME NEW k \in 1 .. (In(R) + (j - 1))
      PROVE  IsBlock(lab[Garbler][k]) /\ Opens0(R, lab[Garbler], lab[Evaluator], k)
  <2>1. k \in Wires(R) /\ k <= In(R) + g /\ k <= In(R) + n /\ k \in 1 .. (In(R) + g)
    BY <1>1, <1>4 DEF Wires
  <2>2. IsBlock(lab[Garbler][k])
    BY <1>2, <2>1 DEF LabelsAre
  <2> QED
    BY <1>3, <2>1, <2>2 DEF LabelsAgree, Opens0
<1> QED
  BY <1>5, <1>6

(* A gate other than AND is evaluated without a message,                   *)
LEMMA EvaluateFabricKeeps ==
    ASSUME NEW R \in Runs, RunInv(R), SeedInv, EvaluateFabric
    PROVE  RunInv(R)'
<1>1. PICK n, l, m : n = pc[Evaluator] /\ l = lab[Evaluator] /\ m = msk[Evaluator]
  OBVIOUS
<1>2. PICK j : j = n + 1
  OBVIOUS
<1>3. PICK g : g = Garbled(R, at[Garbler], pc[Garbler])
  OBVIOUS
<1>4. PICK y : y = FabricEvalLabel(l, GateOf(R, j))
  OBVIOUS
<1>5. PICK k : k = Append(l, y)
  OBVIOUS
<1>6. PICK i, b : i = Id(Evaluator) /\ b = FabricMask(Evaluator)
  OBVIOUS
<1>7. PICK w : w = [m EXCEPT ![i] = b]
  OBVIOUS
<1>8. /\ at[Evaluator] = "evaluate" /\ Evaluator \in Party /\ more(Evaluator)
      /\ Now(Evaluator).op # "And"
      /\ UNCHANGED <<prog, owner, recipient, at, shr, seed, val, wire, seen>>
      /\ UNCHANGED <<Lambda_AND, M1_t>>
      /\ lab' = [lab EXCEPT ![Evaluator] = Append(l, FabricEvalLabel(l, Now(Evaluator)))]
      /\ pc' = [pc EXCEPT ![Evaluator] = n + 1]
  BY <1>1, ChannelEnds DEF EvaluateFabric, At, AddLabel, NextGate, gamma, comm
<1>9. msk' = [msk EXCEPT ![Evaluator] = w]
  BY <1>1, <1>6, <1>7 DEF EvaluateFabric, SetMask
<1>10. /\ Running(R) /\ Tables /\ n \in 0 .. Size(R) /\ MasksTo(R, n, m)
       /\ EvalLabelsAre(R, n, l) /\ ListsLambdas(R, n, Lambda_AND[Evaluator])
       /\ ListsWitnesses(R, n, M1_t[Evaluator])
  BY <1>1, <1>8, PartiesAre, EvaluatesWith
<1>11. j \in 1 .. Size(R) /\ Now(Evaluator) = GateOf(R, j) /\ i = In(R) + j
  BY <1>1, <1>2, <1>6, <1>8, <1>10, GateIs
<1>12. n \in Nat /\ Size(R) \in Nat /\ g \in Nat
  <2>1. Size(R) \in Nat /\ g \in 0 .. Size(R)
    BY <1>3, GarblerGrows
  <2> QED
    BY <1>10, <2>1
<1>13. lab' = [lab EXCEPT ![Evaluator] = k]
  BY <1>4, <1>5, <1>8, <1>11
<1>14. Longer(l, y, k)
  <2>1. IsQueue(l)
    BY <1>10 DEF EvalLabelsAre
  <2> QED
    BY <1>5, <2>1, AppendIs
<1>15. MasksTo(R, j, w)
  <2>1. b = LambdaIn(R, In(R) + j)
    BY <1>1, <1>2, <1>6, <1>8, <1>10, <1>11, FabricMaskIs
  <2>2. Masked(m, i, b, w)
    BY <1>7, MaskedBy
  <2> QED
    BY <1>2, <1>10, <1>11, <1>12, <2>1, <2>2, MasksGrow
<1>16. /\ Ands(R, j) = Ands(R, n) /\ ListsLambdas(R, j, Lambda_AND[Evaluator])
       /\ ListsWitnesses(R, j, M1_t[Evaluator])
  BY <1>2, <1>8, <1>10, <1>11, <1>12, ListsSkip
<1>17. ASSUME j <= g
       PROVE  y = lab[Garbler][In(R) + j] ++ (LambdaIn(R, In(R) + j) ** Delta(Garbler))
  <2>1. j <= Garbled(R, at[Garbler], pc[Garbler]) /\ j <= pc[Evaluator] + 1
    BY <1>1, <1>2, <1>3, <1>12, <1>17
  <2>2. /\ lab[Garbler][In(R) + j] = GarbledLabel(R, lab[Garbler], j)
        /\ \A e \in 1 .. (In(R) + (j - 1)) : IsBlock(lab[Garbler][e]) /\ Opens0(R, lab[Garbler], l, e)
    BY <1>1, <1>8, <1>11, <2>1, LabelsMeet
  <2>3. GateOf(R, j).op # "And"
    BY <1>8, <1>11
  <2>4. y = GarbledLabel(R, lab[Garbler], j) ++ (LambdaIn(R, In(R) + j) ** Delta(Garbler))
    BY <1>4, <1>11, <2>2, <2>3, FabricOfRun
  <2> QED
    BY <2>2, <2>4
<1>18. Puts(Evaluator, "evaluate", j, shr[Evaluator], w, k, seed[Evaluator],
            Lambda_AND[Evaluator], M1_t[Evaluator])
  BY <1>2, <1>8, <1>9, <1>13 DEF Puts, Sets
<1>19. Talked(R, Evaluator, "evaluate", j)
  <2>1. lab'[Garbler] = lab[Garbler]
    BY <1>10, <1>13, ChannelEnds DEF Tables
  <2>2. Grows(R, lab[Garbler], lab'[Garbler])
    BY <2>1, GarblerGrows
  <2>3. \A c \in Channel :
          CountIn(R, Evaluator, "evaluate", j, c) = CountIn(R, Evaluator, at[Evaluator], pc[Evaluator], c)
    BY <1>1, <1>8, <1>16, CountsAre
  <2> QED
    BY <1>8, <2>2, <2>3, TalkedNot
<1>20. GateOf(R, j).op # "And"
  BY <1>8, <1>11
<1> QED
  <2>1. IsFabric(R, j, lab[Evaluator], y) /\ Meets(R, g, lab[Garbler], j, y)
    BY <1>1, <1>4, <1>17, <1>20 DEF IsFabric, Meets
  <2> QED
    BY <1>1, <1>2, <1>3, <1>8, <1>11, <1>14, <1>15, <1>16, <1>18, <1>19, <2>1, EvaluateKeeps

(* an AND with the row that was sent for it.                               *)
LEMMA EvaluateAndKeeps ==
    ASSUME NEW R \in Runs, RunInv(R), SeedInv, EvaluateAnd
    PROVE  RunInv(R)'
<1>1. PICK n, l, m, s : /\ n = pc[Evaluator] /\ l = lab[Evaluator] /\ m = msk[Evaluator]
                        /\ s = shr[Evaluator]
  OBVIOUS
<1>2. PICK j : j = n + 1
  OBVIOUS
<1>3. PICK g, lg : g = Garbled(R, at[Garbler], pc[Garbler]) /\ lg = lab[Garbler]
  OBVIOUS
<1>4. PICK a, b, i, t : /\ a = In0(Evaluator) /\ b = In1(Evaluator) /\ i = Id(Evaluator)
                        /\ t = <<seed[Evaluator], Ai(Evaluator)>>
  OBVIOUS
<1>5. PICK row, sig : row = Head(wire["io"]) /\ sig = Sigma(Evaluator)
  OBVIOUS
<1>6. PICK y : y = EvalLabel(l[a], l[b], row, m[a], m[b], MacPart(sig, s[i], s[a], s[b], m[a], m[b]), t)
  OBVIOUS
<1>7. PICK k : k = Append(l, y)
  OBVIOUS
<1>8. PICK Lg : Lg = row.b ++ LSB1(Last(lab'[Evaluator]))
  OBVIOUS
<1>9. PICK w : w = [m EXCEPT ![i] = Lg]
  OBVIOUS
<1>10. PICK x : x = Witness(sig, s[i], s[a], s[b], m[a], m[b], Lg)
  OBVIOUS
<1>11. PICK L, M : L = Append(Lambda_AND[Evaluator], Lg) /\ M = Append(M1_t[Evaluator], x)
  OBVIOUS
<1>12. /\ at[Evaluator] = "evaluate" /\ Evaluator \in Party /\ more(Evaluator)
       /\ Now(Evaluator).op = "And" /\ Arrived("io") /\ Recv(Evaluator, "io")
       /\ UNCHANGED <<prog, owner, recipient, at, shr, seed, val>>
       /\ pc' = [pc EXCEPT ![Evaluator] = n + 1]
  BY <1>1, ChannelEnds DEF EvaluateAnd, At, NextGate
<1>13. /\ lab' = [lab EXCEPT ![Evaluator] = k] /\ msk' = [msk EXCEPT ![Evaluator] = w]
       /\ Lambda_AND' = [Lambda_AND EXCEPT ![Evaluator] = L]
       /\ M1_t' = [M1_t EXCEPT ![Evaluator] = M]
  BY <1>1, <1>4, <1>5, <1>6, <1>7, <1>8, <1>9, <1>10, <1>11 DEF EvaluateAnd, AddLabel, SetMask
<1>14. /\ Running(R) /\ Tables /\ n \in 0 .. Size(R) /\ MasksTo(R, n, m)
       /\ EvalLabelsAre(R, n, l) /\ ListsLambdas(R, n, Lambda_AND[Evaluator])
       /\ ListsWitnesses(R, n, M1_t[Evaluator]) /\ SharesAre(R, Evaluator, s)
       /\ seed[Evaluator] = SeedOf(R)
  BY <1>1, <1>12, PartiesAre, EvaluatesWith
<1>15. IsAnd(R, j) /\ Now(Evaluator) = GateOf(R, j)
  <2>1. j \in 1 .. Size(R) /\ Now(Evaluator) = GateOf(R, j)
    BY <1>1, <1>2, <1>12, <1>14, GateIs
  <2> QED
    BY <1>12, <2>1 DEF IsAnd
<1>16. /\ a = A(R, j) /\ b = B(R, j) /\ i = In(R) + j /\ sig = SigmaIn(R, Evaluator, j)
       /\ t = TweakOf(R, j)
  BY <1>1, <1>2, <1>4, <1>5, <1>12, <1>14, <1>15, GateIs DEF TweakOf
<1>17. /\ j \in 1 .. Size(R) /\ GateOf(R, j).op = "And"
       /\ a \in 1 .. (In(R) + (j - 1)) /\ b \in 1 .. (In(R) + (j - 1))
       /\ a \in Wires(R) /\ b \in Wires(R) /\ i \in Wires(R)
  BY <1>15, <1>16, OperandsOf
<1>18. /\ n \in Nat /\ Size(R) \in Nat /\ In(R) \in Nat /\ g \in Nat /\ Len(lg) = In(R) + g
  <2>1. Size(R) \in Nat /\ In(R) \in Nat /\ g \in 0 .. Size(R) /\ Len(lg) = In(R) + g
    BY <1>3, GarblerGrows
  <2> QED
    BY <1>14, <2>1
<1>19. /\ s[a] = ShareIn(R, Evaluator, a) /\ s[b] = ShareIn(R, Evaluator, b)
       /\ s[i] = ShareIn(R, Evaluator, i)
  BY <1>14, <1>17 DEF SharesAre
<1>20. m[a] = LambdaIn(R, a) /\ m[b] = LambdaIn(R, b)
  <2>1. a <= In(R) + n /\ b <= In(R) + n
    BY <1>2, <1>17, <1>18
  <2> QED
    BY <1>14, <1>17, <2>1 DEF MasksTo
<1>21. Ands(R, j) = Ands(R, n) + 1 /\ Ands(R, n) \in Nat
  <2>1. j - 1 = n
    BY <1>2, <1>18
  <2> QED
    BY <1>17, <1>18, <2>1, AndsAre
<1>22. j <= g /\ row = RowIn(R, lg, j)
  <2>1. CountIn(R, Evaluator, at[Evaluator], pc[Evaluator], "io") = Tally(R, "io", Ands(R, n), 0)
    BY <1>1, <1>12, ChannelEnds, CountsAre
  <2>2. Base(R) \in Nat
    BY IoNumbers
  <2>3. CountIn(R, Evaluator, at[Evaluator], pc[Evaluator], "io") + 1 = Base(R) + Ands(R, j)
    BY <1>21, <2>1, <2>2 DEF Tally
  <2>4. Message(R, lg, "io", Base(R) + Ands(R, j), row)
    BY <1>3, <1>5, <1>12, <2>3, ChannelEnds, MessageRead
  <2>5. In(R) + j <= Len(lg) /\ row = RowIn(R, lg, j)
    BY <1>17, <2>4 DEF Message, IoMessage
  <2>6. j <= g
    BY <1>17, <1>18, <2>5
  <2> QED
    BY <2>5, <2>6
<1>23. /\ lg[In(R) + j] = GarbledLabel(R, lg, j)
       /\ IsBlock(lg[a]) /\ IsBlock(lg[b]) /\ Opens0(R, lg, l, a) /\ Opens0(R, lg, l, b)
  <2>1. j <= Garbled(R, at[Garbler], pc[Garbler]) /\ j <= pc[Evaluator] + 1
    BY <1>1, <1>2, <1>3, <1>18, <1>22
  <2>2. /\ lg[In(R) + j] = GarbledLabel(R, lg, j)
        /\ \A e \in 1 .. (In(R) + (j - 1)) : IsBlock(lg[e]) /\ Opens0(R, lg, l, e)
    BY <1>1, <1>3, <1>12, <1>17, <2>1, LabelsMeet
  <2> QED
    BY <1>17, <2>2
<1>24. PICK z : z = Witness(sig, s[i], s[a], s[b], m[a], m[b], LambdaIn(R, In(R) + j))
  OBVIOUS
<1>25. /\ y = lg[In(R) + j] ++ (LambdaIn(R, In(R) + j) ** Delta(Garbler))
       /\ row.b ++ LSB1(y) = LambdaIn(R, In(R) + j)
       /\ z = WitnessIn(R, j)
  <2>1. /\ IsBlock(lg[A(R, j)]) /\ IsBlock(lg[B(R, j)])
        /\ Opens0(R, lg, l, A(R, j)) /\ Opens0(R, lg, l, B(R, j))
    BY <1>16, <1>23
  <2>2. IsLabelOf(R, j, lg, l, y)
    <3>1. y = EvalLabel(l[A(R, j)], l[B(R, j)], RowIn(R, lg, j),
                        LambdaIn(R, A(R, j)), LambdaIn(R, B(R, j)),
                        MacPart(SigmaIn(R, Evaluator, j), ShareIn(R, Evaluator, In(R) + j),
                                ShareIn(R, Evaluator, A(R, j)), ShareIn(R, Evaluator, B(R, j)),
                                LambdaIn(R, A(R, j)), LambdaIn(R, B(R, j))), TweakOf(R, j))
      BY <1>6, <1>16, <1>19, <1>20, <1>22
    <3> QED
      BY <3>1 DEF IsLabelOf
  <2>3. z = Witness(SigmaIn(R, Evaluator, j), ShareIn(R, Evaluator, In(R) + j),
                    ShareIn(R, Evaluator, A(R, j)), ShareIn(R, Evaluator, B(R, j)),
                    LambdaIn(R, A(R, j)), LambdaIn(R, B(R, j)), LambdaIn(R, In(R) + j))
    BY <1>16, <1>19, <1>20, <1>24
  <2>4. IsWitnessOf(R, j, z)
    BY <2>3 DEF IsWitnessOf
  <2>5. GarbledAt(R, lg, j)
    BY <1>23 DEF GarbledAt
  <2> QED
    BY <1>15, <1>22, <2>1, <2>2, <2>4, <2>5, AndOfRun
<1>26. Longer(l, y, k)
  <2>1. IsQueue(l)
    BY <1>14 DEF EvalLabelsAre
  <2> QED
    BY <1>7, <2>1, AppendIs
<1>27. Lg = LambdaIn(R, In(R) + j) /\ x = WitnessIn(R, j)
  <2>1. lab'[Evaluator] = k
    BY <1>12, <1>13, <1>14 DEF Tables
  <2>2. Last(k) = y
    BY <1>26 DEF Longer
  <2>3. Lg = LambdaIn(R, In(R) + j)
    BY <1>8, <1>25, <2>1, <2>2
  <2> QED
    BY <1>10, <1>24, <1>25, <2>3
<1>28. MasksTo(R, j, w)
  <2>1. Masked(m, i, Lg, w)
    BY <1>9, MaskedBy
  <2> QED
    BY <1>2, <1>14, <1>16, <1>17, <1>18, <1>27, <2>1, MasksGrow
<1>29. ListsLambdas(R, j, L)
  <2>1. IsQueue(Lambda_AND[Evaluator])
    BY <1>14 DEF ListsLambdas
  <2>2. Longer(Lambda_AND[Evaluator], Lg, L)
    BY <1>11, <2>1, AppendIs
  <2> QED
    BY <1>2, <1>14, <1>15, <1>18, <1>27, <2>2, LambdasGrow
<1>30. ListsWitnesses(R, j, M)
  <2>1. IsQueue(M1_t[Evaluator])
    BY <1>14 DEF ListsWitnesses
  <2>2. Longer(M1_t[Evaluator], x, M)
    BY <1>11, <2>1, AppendIs
  <2> QED
    BY <1>2, <1>14, <1>15, <1>18, <1>27, <2>2, WitnessesGrow
<1>31. Puts(Evaluator, "evaluate", j, shr[Evaluator], w, k, seed[Evaluator], L, M)
  BY <1>2, <1>12, <1>13 DEF Puts, Sets
<1>32. Talked(R, Evaluator, "evaluate", j)
  <2>1. lab'[Garbler] = lab[Garbler]
    BY <1>13, <1>14, ChannelEnds DEF Tables
  <2>2. Grows(R, lab[Garbler], lab'[Garbler])
    BY <2>1, GarblerGrows
  <2>3. ASSUME NEW c \in Channel
        PROVE  CountIn(R, Evaluator, "evaluate", j, c) =
                 IF c = "io" THEN CountIn(R, Evaluator, "evaluate", n, c) + 1
                 ELSE CountIn(R, Evaluator, "evaluate", n, c)
    <3>1. Tally(R, c, Ands(R, n) + 1, 0) = IF c = "io" THEN Tally(R, c, Ands(R, n), 0) + 1
                                           ELSE Tally(R, c, Ands(R, n), 0)
      BY <1>21, TallyMoves
    <3> QED
      BY <1>21, <3>1, CountsAre, ChannelEnds
  <2>4. Counts(R, Evaluator, at[Evaluator], pc[Evaluator], "evaluate", j, "io")
    BY <1>1, <1>12, <2>3 DEF Counts
  <2>5. "io" \in Channel /\ Evaluator = ReaderOf("io")
    BY ChannelEnds
  <2> QED
    BY <1>12, <2>2, <2>4, <2>5, TalkedByRecv
<1>33. IsFabric(R, j, lab[Evaluator], y) /\ Meets(R, g, lab[Garbler], j, y)
  BY <1>3, <1>17, <1>22, <1>25 DEF IsFabric, Meets
<1> QED
  BY <1>1, <1>2, <1>3, <1>12, <1>17, <1>26, <1>28, <1>29, <1>30, <1>31, <1>32, <1>33, EvaluateKeeps

(* The evaluator goes from one step to another with the tables it has.     *)
LEMMA EvaluatorMoves ==
    ASSUME NEW R \in Runs, RunInv(R), at[Evaluator] \notin Setup,
           NEW a \in EvaluatorSteps \ Setup, StepOk(R, a, pc[Evaluator])
    PROVE  PartyState(R, Evaluator, a, pc[Evaluator], shr[Evaluator], msk[Evaluator],
                      lab[Evaluator], seed[Evaluator], Lambda_AND[Evaluator], M1_t[Evaluator])
<1>1. EvaluatorState(R, at[Evaluator], pc[Evaluator], shr[Evaluator], msk[Evaluator],
                     lab[Evaluator], seed[Evaluator], Lambda_AND[Evaluator], M1_t[Evaluator])
  BY PartiesAre
<1> QED
  BY <1>1, ChannelEnds DEF EvaluatorState, PartyState

(* All gates are evaluated, and Lambda_AND is sent.                        *)
LEMMA EvaluateDoneKeeps ==
    ASSUME NEW R \in Runs, RunInv(R), SeedInv, EvaluateDone
    PROVE  RunInv(R)'
<1> DEFINE p == Evaluator
<1>1. PICK a : a = IF NumAnds > 0 THEN "c_gamma" ELSE "decode"
  OBVIOUS
<1>2. /\ at[p] = "evaluate" /\ p \in Party /\ ~more(p) /\ at' = [at EXCEPT ![p] = a]
      /\ UNCHANGED <<prog, owner, recipient, pc, seed, val>>
      /\ UNCHANGED <<shr, msk, lab, Lambda_AND, M1_t>>
      /\ IF NumAnds > 0 THEN Send(p, "io_back", Lambda_AND[p]) ELSE UNCHANGED <<wire, seen>>
  BY <1>1, ChannelEnds DEF EvaluateDone, At, Goto, wires, gamma, comm
<1>3. /\ Running(R) /\ Tables /\ pc[p] \in 0 .. Size(R) /\ ListsLambdas(R, pc[p], Lambda_AND[p])
  BY <1>2, PartiesAre, EvaluatesWith
<1>4. pc[p] = Size(R) /\ NumAnds = NumAndsOf(R) /\ NumAndsOf(R) \in Nat /\ Size(R) \in Nat
  BY <1>2, <1>3, GateIs, NamesAre, AndsAre, ProgramOk
<1>5. \/ a = "c_gamma" /\ NumAndsOf(R) > 0 /\ Send(p, "io_back", Lambda_AND[p])
      \/ a = "decode" /\ NumAndsOf(R) = 0 /\ UNCHANGED <<wire, seen>>
  BY <1>1, <1>2, <1>4
<1>6. Becomes(p, a, pc[p], shr[p], msk[p], lab[p], seed[p], Lambda_AND[p], M1_t[p])
  <2>1. Puts(p, a, pc[p], shr[p], msk[p], lab[p], seed[p], Lambda_AND[p], M1_t[p])
    BY <1>2, <1>5 DEF Puts, Sets
  <2> QED
    BY <1>2, <1>3, <2>1, BecomesBy
<1>7. PartyState(R, p, a, pc[p], shr[p], msk[p], lab[p], seed[p], Lambda_AND[p], M1_t[p])
  <2>1. a \notin Setup /\ a \in EvaluatorSteps /\ at[p] \notin Setup
    BY <1>2, <1>5 DEF Setup, EvaluatorSteps
  <2>2. StepOk(R, a, pc[p])
    BY <1>4, <1>5, <2>1 DEF StepOk
  <2> QED
    BY <2>1, <2>2, EvaluatorMoves
<1>8. at'[Evaluator] = a /\ at'[Garbler] = at[Garbler]
  BY <1>2, <1>3, ChannelEnds DEF Tables
<1>9. Matches(R)' /\ Grows(R, lab[Garbler], lab'[Garbler])
  <2>1. Garbled(R, at'[Garbler], pc'[Garbler]) = Garbled(R, at[Garbler], pc[Garbler])
    BY <1>2, <1>8
  <2>2. at[Evaluator] \notin Early
    BY <1>2 DEF Early
  <2> QED
    BY <1>2, <2>1, <2>2, MatchesKeep
<1>10. \A c \in Channel :
         /\ CountIn(R, p, "evaluate", pc[p], c) = Tally(R, c, NumAndsOf(R), 0)
         /\ CountIn(R, p, "c_gamma", pc[p], c) = Tally(R, c, NumAndsOf(R), 1)
         /\ CountIn(R, p, "decode", pc[p], c) = Tally(R, c, NumAndsOf(R) + Extra(R), Extra(R))
  BY <1>2, <1>4, CountsAre DEF NumAndsOf
<1>11. Talked(R, p, a, pc[p])
  <2>1. CASE a = "c_gamma" /\ NumAndsOf(R) > 0 /\ Send(p, "io_back", Lambda_AND[p])
    <3>1. "io_back" \in Channel /\ p = WriterOf("io_back")
      BY ChannelEnds
    <3>2. \A c \in Channel : Tally(R, c, NumAndsOf(R), 1) =
            IF c = "io_back" THEN Tally(R, c, NumAndsOf(R), 0) + 1 ELSE Tally(R, c, NumAndsOf(R), 0)
      <4>1. ASSUME NEW c \in Channel
            PROVE  Tally(R, c, NumAndsOf(R), 0 + 1) =
                     IF c = "io_back" THEN Tally(R, c, NumAndsOf(R), 0) + 1
                     ELSE Tally(R, c, NumAndsOf(R), 0)
        BY <1>4, TallyMoves
      <4> QED
        BY <4>1
    <3>3. Counts(R, p, at[p], pc[p], "c_gamma", pc[p], "io_back")
      BY <1>2, <1>10, <3>2 DEF Counts
    <3>4. CountIn(R, p, at[p], pc[p], "io_back") + 1 = 1
      BY <1>2, <1>10, <3>1 DEF Tally
    <3>5. Message(R, lab'[Garbler], "io_back", 1, Lambda_AND[p])
      BY <1>3, <1>4, <2>1, SendsBack
    <3> QED
      BY <1>2, <1>9, <2>1, <3>1, <3>3, <3>4, <3>5, TalkedBySend
  <2>2. CASE a = "decode" /\ NumAndsOf(R) = 0 /\ UNCHANGED <<wire, seen>>
    <3>1. \A c \in Channel : CountIn(R, p, a, pc[p], c) = CountIn(R, p, at[p], pc[p], c)
      <4>1. Extra(R) = 0 /\ NumAndsOf(R) + Extra(R) = NumAndsOf(R)
        BY <2>2, NoAnds
      <4> QED
        BY <1>2, <1>10, <2>2, <4>1
    <3> QED
      BY <1>2, <1>9, <2>2, <3>1, TalkedNot
  <2> QED
    BY <1>5, <2>1, <2>2
<1>12. Decodes(R) => ValuesAre(R, at'[Evaluator], val')
  BY <1>2, <1>5, <1>8, ValuesKeep
<1> QED
  BY <1>2, <1>6, <1>7, <1>9, <1>11, <1>12, Moved
-------------------------------------------------------------------------------
(* The c_gamma exchange.                                                   *)
LEMMA GarblerHas ==
    ASSUME NEW R \in Runs, RunInv(R), at[Garbler] \notin Setup
    PROVE  /\ SharesAre(R, Garbler, shr[Garbler]) /\ seed[Garbler] = SeedOf(R)
           /\ LabelsAre(R, Garbled(R, at[Garbler], pc[Garbler]), lab[Garbler])
           /\ StepOk(R, at[Garbler], pc[Garbler]) /\ at[Garbler] \in GarblerSteps
           /\ pc[Garbler] \in 0 .. Size(R) /\ Size(R) \in Nat /\ In(R) \in Nat
           /\ Running(R) /\ Tables
<1>1. GarblerState(R, at[Garbler], pc[Garbler], shr[Garbler], msk[Garbler], lab[Garbler],
                   seed[Garbler], Lambda_AND[Garbler], M1_t[Garbler])
  BY PartiesAre
<1> QED
  BY <1>1, PartiesAre, ProgramOk DEF GarblerState, StepOk

(* The garbler goes from one of the last steps to another with the tables  *)
(* it has.                                                                 *)
LastSteps == {"gamma", "decode", "broadcast", "done"}

(* None of the garbler's tables has to change for it.                      *)
LEMMA GarblerMoves ==
    ASSUME NEW R \in Runs, RunInv(R), at[Garbler] \in LastSteps, pc[Garbler] = Size(R),
           NEW a \in LastSteps \ {"gamma"}, StepOk(R, a, pc[Garbler])
    PROVE  PartyState(R, Garbler, a, pc[Garbler], shr[Garbler], msk[Garbler],
                      lab[Garbler], seed[Garbler], Lambda_AND[Garbler], M1_t[Garbler])
<1>1. GarblerState(R, at[Garbler], pc[Garbler], shr[Garbler], msk[Garbler], lab[Garbler],
                   seed[Garbler], Lambda_AND[Garbler], M1_t[Garbler])
  BY PartiesAre
<1>2. /\ at[Garbler] \notin Setup /\ a \notin Setup /\ a \in GarblerSteps /\ a # "gamma"
      /\ a \notin {"garble", "Lambda_AND"} /\ at[Garbler] \notin {"garble", "Lambda_AND"}
      /\ a \in {"decode", "broadcast", "done"} /\ at[Garbler] \in {"gamma", "decode", "broadcast", "done"}
  BY DEF Setup, GarblerSteps, LastSteps
<1>3. Garbled(R, a, pc[Garbler]) = Garbled(R, at[Garbler], pc[Garbler])
  BY <1>2 DEF Garbled
<1>4. at[Garbler] = "gamma" => NumAndsOf(R) # 0
  <2>1. at[Garbler] = "gamma" => NumAndsOf(R) > 0
    BY <1>1 DEF GarblerState, StepOk
  <2> QED
    BY <2>1, IoNumbers
<1>5. MasksTo(R, IF NumAndsOf(R) = 0 THEN 0 ELSE Size(R), msk[Garbler])
  BY <1>1, <1>2, <1>4 DEF GarblerState
<1>6. /\ SharesAre(R, Garbler, shr[Garbler]) /\ seed[Garbler] = SeedOf(R)
      /\ LabelsAre(R, Garbled(R, a, pc[Garbler]), lab[Garbler])
      /\ ListsWitnesses(R, pc[Garbler], M1_t[Garbler])
  BY <1>1, <1>2, <1>3 DEF GarblerState
<1>7. GarblerState(R, a, pc[Garbler], shr[Garbler], msk[Garbler], lab[Garbler],
                   seed[Garbler], Lambda_AND[Garbler], M1_t[Garbler])
  BY <1>2, <1>5, <1>6 DEF GarblerState
<1> QED
  BY <1>7 DEF PartyState

(* The garbler gets the Lambda of every AND.                               *)
LEMMA LambdaRecvKeeps ==
    ASSUME NEW R \in Runs, RunInv(R), SeedInv, LambdaRecv
    PROVE  RunInv(R)'
<1> DEFINE p == Garbler
<1>1. PICK msg : msg = Head(wire["io_back"])
  OBVIOUS
<1>2. /\ at[p] = "Lambda_AND" /\ p \in Party /\ at' = [at EXCEPT ![p] = "gamma"]
      /\ Arrived("io_back") /\ Recv(p, "io_back") /\ pc' = [pc EXCEPT ![p] = 0]
      /\ Lambda_AND' = [Lambda_AND EXCEPT ![p] = msg]
      /\ UNCHANGED <<prog, owner, recipient, shr, msk, lab, seed, M1_t, val>>
  BY <1>1, ChannelEnds DEF LambdaRecv, At, Goto, wires
<1>3. /\ at[p] \notin Setup /\ Garbled(R, at[p], pc[p]) = Size(R)
      /\ Garbled(R, "gamma", 0) = Size(R) /\ "gamma" \notin Setup
  BY <1>2 DEF Setup, Garbled
<1>4. /\ SharesAre(R, p, shr[p]) /\ seed[p] = SeedOf(R) /\ LabelsAre(R, Size(R), lab[p])
      /\ Size(R) \in Nat /\ Running(R) /\ Tables /\ NumAndsOf(R) > 0
      /\ MasksTo(R, 0, msk[p]) /\ ListsWitnesses(R, 0, M1_t[p])
  <2>1. GarblerState(R, "Lambda_AND", pc[p], shr[p], msk[p], lab[p], seed[p], Lambda_AND[p], M1_t[p])
    BY <1>2, PartiesAre
  <2>2. MasksTo(R, 0, msk[p]) /\ ListsWitnesses(R, 0, M1_t[p])
    BY <1>2, <1>3, <2>1 DEF GarblerState
  <2>3. NumAndsOf(R) > 0
    BY <1>2, <2>1 DEF GarblerState, StepOk
  <2> QED
    BY <1>3, <2>2, <2>3, GarblerHas
<1>5. "io_back" \in Channel /\ p = ReaderOf("io_back") /\ NumAndsOf(R) \in Nat
  BY ChannelEnds, IoNumbers
<1>6. ListsLambdas(R, Size(R), msg)
  <2>1. CountIn(R, p, at[p], pc[p], "io_back") = 0
    <3>1. CountIn(R, p, at[p], pc[p], "io_back") = Tally(R, "io_back", NumAndsOf(R), 0)
      BY <1>2, <1>5, CountsAre
    <3> QED
      BY <3>1 DEF Tally
  <2>2. Message(R, lab[Garbler], "io_back", 1, msg)
    BY <1>1, <1>2, <1>5, <2>1, MessageRead
  <2> QED
    BY <1>4, <2>2 DEF Message, BackMessage
<1>7. Becomes(p, "gamma", 0, shr[p], msk[p], lab[p], seed[p], msg, M1_t[p])
  <2>1. Puts(p, "gamma", 0, shr[p], msk[p], lab[p], seed[p], msg, M1_t[p])
    BY <1>2 DEF Puts, Sets
  <2> QED
    BY <1>2, <1>4, <2>1, BecomesBy
<1>8. PartyState(R, p, "gamma", 0, shr[p], msk[p], lab[p], seed[p], msg, M1_t[p])
  <2>1. StepOk(R, "gamma", 0)
    BY <1>3, <1>4 DEF StepOk
  <2>2. GarblerState(R, "gamma", 0, shr[p], msk[p], lab[p], seed[p], msg, M1_t[p])
    BY <1>3, <1>4, <1>6, <2>1 DEF GarblerState, GarblerSteps
  <2> QED
    BY <2>2 DEF PartyState
<1>9. /\ at'[Garbler] = "gamma" /\ pc'[Garbler] = 0 /\ at'[Evaluator] = at[Evaluator]
      /\ pc'[Evaluator] = pc[Evaluator]
  BY <1>2, <1>4, ChannelEnds DEF Tables
<1>10. Matches(R)' /\ Grows(R, lab[Garbler], lab'[Garbler])
  <2>1. Garbled(R, at'[Garbler], pc'[Garbler]) = Garbled(R, at[Garbler], pc[Garbler])
    BY <1>3, <1>9
  <2> QED
    BY <1>2, <1>9, <2>1, MatchesKeep
<1>11. Talked(R, p, "gamma", 0)
  <2>1. ASSUME NEW c \in Channel
        PROVE  CountIn(R, p, "gamma", 0, c) =
                 IF c = "io_back" THEN CountIn(R, p, "Lambda_AND", pc[p], c) + 1
                 ELSE CountIn(R, p, "Lambda_AND", pc[p], c)
    <3>1. Tally(R, c, NumAndsOf(R), 0 + 1) =
            IF c = "io_back" THEN Tally(R, c, NumAndsOf(R), 0) + 1 ELSE Tally(R, c, NumAndsOf(R), 0)
      BY <1>5, TallyMoves
    <3>2. /\ CountIn(R, p, "gamma", 0, c) = Tally(R, c, NumAndsOf(R), 1)
          /\ CountIn(R, p, "Lambda_AND", pc[p], c) = Tally(R, c, NumAndsOf(R), 0)
      BY <1>2, CountsAre
    <3> QED
      BY <3>1, <3>2
  <2>2. Counts(R, p, at[p], pc[p], "gamma", 0, "io_back")
    BY <1>2, <2>1 DEF Counts
  <2> QED
    BY <1>2, <1>5, <1>10, <2>2, TalkedByRecv
<1>12. Decodes(R) => ValuesAre(R, at'[Evaluator], val')
  BY <1>2, <1>9, ValuesKeep
<1> QED
  BY <1>2, <1>7, <1>8, <1>10, <1>11, <1>12, Moved

(* What the garbler has in the gamma pass.                                 *)
LEMMA ChecksWith ==
    ASSUME NEW R \in Runs, RunInv(R), at[Garbler] = "gamma"
    PROVE  /\ pc[Garbler] \in 0 .. Size(R) /\ SharesAre(R, Garbler, shr[Garbler])
           /\ seed[Garbler] = SeedOf(R) /\ MasksTo(R, pc[Garbler], msk[Garbler])
           /\ LabelsAre(R, Size(R), lab[Garbler]) /\ ListsLambdas(R, Size(R), Lambda_AND[Garbler])
           /\ ListsWitnesses(R, pc[Garbler], M1_t[Garbler]) /\ NumAndsOf(R) > 0
<1>1. "gamma" \notin Setup /\ Garbled(R, "gamma", pc[Garbler]) = Size(R)
  BY DEF Setup, Garbled
<1>2. GarblerState(R, "gamma", pc[Garbler], shr[Garbler], msk[Garbler], lab[Garbler],
                   seed[Garbler], Lambda_AND[Garbler], M1_t[Garbler])
  BY PartiesAre
<1> QED
  BY <1>1, <1>2 DEF GarblerState, StepOk

(* The garbler has the mask of the next gate, and the witness of an AND.   *)
LEMMA GammaKeeps ==
    ASSUME NEW R \in Runs, RunInv(R), at[Garbler] = "gamma",
           NEW n, n = pc[Garbler], NEW j, j = n + 1, j \in 1 .. Size(R),
           NEW m, MasksTo(R, j, m), NEW M, ListsWitnesses(R, j, M),
           Puts(Garbler, "gamma", j, shr[Garbler], m, lab[Garbler], seed[Garbler],
                Lambda_AND[Garbler], M),
           lab' = lab, UNCHANGED val, UNCHANGED <<wire, seen>>
    PROVE  RunInv(R)'
<1>1. /\ n \in 0 .. Size(R) /\ SharesAre(R, Garbler, shr[Garbler]) /\ NumAndsOf(R) > 0
      /\ seed[Garbler] = SeedOf(R) /\ LabelsAre(R, Size(R), lab[Garbler])
      /\ ListsLambdas(R, Size(R), Lambda_AND[Garbler])
  BY ChecksWith
<1>2. Garbler \in Party /\ Evaluator \in Party /\ Garbler # Evaluator
  BY ChannelEnds
<1>3. Becomes(Garbler, "gamma", j, shr[Garbler], m, lab[Garbler], seed[Garbler],
              Lambda_AND[Garbler], M)
  BY <1>2, PartiesAre, BecomesBy
<1>4. Size(R) \in Nat /\ j \in 0 .. Size(R)
  BY ProgramOk
<1>5. "gamma" \notin Setup /\ Garbled(R, "gamma", j) = Size(R) /\ Garbled(R, "gamma", n) = Size(R)
  BY DEF Setup, Garbled
<1>6. PartyState(R, Garbler, "gamma", j, shr[Garbler], m, lab[Garbler], seed[Garbler],
                 Lambda_AND[Garbler], M)
  <2>1. StepOk(R, "gamma", j)
    BY <1>1, <1>4, <1>5 DEF StepOk
  <2>2. GarblerState(R, "gamma", j, shr[Garbler], m, lab[Garbler], seed[Garbler],
                     Lambda_AND[Garbler], M)
    BY <1>1, <1>5, <2>1 DEF GarblerState, GarblerSteps
  <2> QED
    BY <2>2 DEF PartyState
<1>7. /\ at'[Garbler] = "gamma" /\ pc'[Garbler] = j
      /\ at'[Evaluator] = at[Evaluator] /\ pc'[Evaluator] = pc[Evaluator]
  BY <1>2, <1>3 DEF Becomes, Same
<1>8. Matches(R)' /\ Grows(R, lab[Garbler], lab'[Garbler])
  <2>1. Garbled(R, at'[Garbler], pc'[Garbler]) = Garbled(R, at[Garbler], pc[Garbler])
    BY <1>5, <1>7
  <2> QED
    BY <1>7, <2>1, MatchesKeep
<1>9. Talked(R, Garbler, "gamma", j)
  <2>1. \A c \in Channel :
          CountIn(R, Garbler, "gamma", j, c) = CountIn(R, Garbler, at[Garbler], pc[Garbler], c)
    BY <1>2, CountsAre
  <2> QED
    BY <1>2, <1>8, <2>1, TalkedNot
<1>10. Decodes(R) => ValuesAre(R, at'[Evaluator], val')
  BY <1>7, ValuesKeep
<1> QED
  BY <1>2, <1>3, <1>6, <1>8, <1>9, <1>10, Moved

(* The gamma pass takes one gate.                                          *)
LEMMA GammaGateKeeps ==
    ASSUME NEW R \in Runs, RunInv(R), SeedInv, GammaGate
    PROVE  RunInv(R)'
<1> DEFINE p == Garbler
<1>1. PICK n, m, s : n = pc[p] /\ m = msk[p] /\ s = shr[p]
  OBVIOUS
<1>2. PICK j : j = n + 1
  OBVIOUS
<1>3. PICK a, b, i, sig : a = In0(p) /\ b = In1(p) /\ i = Id(p) /\ sig = Sigma(p)
  OBVIOUS
<1>4. PICK x : x = MacPart(sig, s[i], s[a], s[b], m[a], m[b])
  OBVIOUS
<1>5. /\ at[p] = "gamma" /\ p \in Party /\ more(p) /\ lab' = lab
      /\ UNCHANGED <<prog, owner, recipient, at, shr, lab, seed, Lambda_AND, val, wire, seen>>
      /\ pc' = [pc EXCEPT ![p] = n + 1]
  BY <1>1, ChannelEnds DEF GammaGate, At, NextGate, comm
<1>6. IF Now(p).op = "And"
      THEN /\ msk' = [msk EXCEPT ![p] = [m EXCEPT ![i] = Lambda_AND[p][Ai(p)]]]
           /\ M1_t' = [M1_t EXCEPT ![p] = Append(M1_t[p], x)]
      ELSE /\ msk' = [msk EXCEPT ![p] = [m EXCEPT ![i] = FabricMask(p)]]
           /\ UNCHANGED M1_t
  BY <1>1, <1>3, <1>4 DEF GammaGate, SetMask
<1>7. /\ Running(R) /\ Tables /\ n \in 0 .. Size(R) /\ SharesAre(R, p, s) /\ MasksTo(R, n, m)
      /\ ListsLambdas(R, Size(R), Lambda_AND[p]) /\ ListsWitnesses(R, n, M1_t[p])
      /\ Size(R) \in Nat /\ In(R) \in Nat
  BY <1>1, <1>5, PartiesAre, ChecksWith, ProgramOk
<1>8. j \in 1 .. Size(R) /\ Now(p) = GateOf(R, j) /\ i = In(R) + j /\ n \in Nat
  BY <1>1, <1>2, <1>3, <1>5, <1>7, GateIs
<1>9. CASE Now(p).op = "And"
  <2>1. PICK La, M, w : /\ La = Lambda_AND[p][Ai(p)] /\ M = Append(M1_t[p], x)
                        /\ w = [m EXCEPT ![i] = La]
    OBVIOUS
  <2>2. IsAnd(R, j) /\ GateOf(R, j).op = "And"
    BY <1>8, <1>9 DEF IsAnd
  <2>3. /\ a = A(R, j) /\ b = B(R, j) /\ sig = SigmaIn(R, p, j) /\ Ai(p) = Ands(R, j)
    BY <1>1, <1>2, <1>3, <1>5, <1>7, <2>2, GateIs
  <2>4. /\ a \in 1 .. (In(R) + (j - 1)) /\ b \in 1 .. (In(R) + (j - 1))
        /\ a \in Wires(R) /\ b \in Wires(R) /\ i \in Wires(R)
    BY <1>8, <2>2, <2>3, OperandsOf
  <2>5. La = LambdaIn(R, In(R) + j)
    BY <1>7, <1>8, <2>1, <2>2, <2>3 DEF ListsLambdas
  <2>6. x = WitnessIn(R, j)
    <3>1. a <= In(R) + n /\ b <= In(R) + n
      BY <1>2, <1>7, <1>8, <2>4
    <3>2. m[a] = LambdaIn(R, a) /\ m[b] = LambdaIn(R, b)
      BY <1>7, <2>4, <3>1 DEF MasksTo
    <3>3. s[a] = ShareIn(R, p, a) /\ s[b] = ShareIn(R, p, b) /\ s[i] = ShareIn(R, p, i)
      BY <1>7, <2>4 DEF SharesAre
    <3> QED
      BY <1>4, <1>8, <2>3, <3>2, <3>3 DEF WitnessIn
  <2>7. MasksTo(R, j, w)
    <3>1. Masked(m, i, La, w)
      BY <2>1, MaskedBy
    <3> QED
      BY <1>2, <1>7, <1>8, <2>5, <3>1, MasksGrow
  <2>8. ListsWitnesses(R, j, M)
    <3>1. IsQueue(M1_t[p])
      BY <1>7 DEF ListsWitnesses
    <3>2. Longer(M1_t[p], x, M)
      BY <2>1, <3>1, AppendIs
    <3> QED
      BY <1>2, <1>7, <1>8, <2>2, <2>6, <3>2, WitnessesGrow
  <2>9. Puts(p, "gamma", j, shr[p], w, lab[p], seed[p], Lambda_AND[p], M)
    BY <1>2, <1>5, <1>6, <1>9, <2>1 DEF Puts, Sets
  <2> QED
    BY <1>1, <1>2, <1>5, <1>8, <2>7, <2>8, <2>9, GammaKeeps
<1>10. CASE Now(p).op # "And"
  <2>1. PICK w : w = [m EXCEPT ![i] = FabricMask(p)]
    OBVIOUS
  <2>2. GateOf(R, j).op # "And"
    BY <1>8, <1>10
  <2>3. FabricMask(p) = LambdaIn(R, In(R) + j)
    BY <1>1, <1>2, <1>5, <1>7, <1>8, <2>2, FabricMaskIs
  <2>4. MasksTo(R, j, w)
    <3>1. Masked(m, i, FabricMask(p), w)
      BY <2>1, MaskedBy
    <3> QED
      BY <1>2, <1>7, <1>8, <2>3, <3>1, MasksGrow
  <2>5. ListsWitnesses(R, j, M1_t[p])
    BY <1>2, <1>7, <1>8, <2>2, ListsSkip
  <2>6. Puts(p, "gamma", j, shr[p], w, lab[p], seed[p], Lambda_AND[p], M1_t[p])
    BY <1>2, <1>5, <1>6, <1>10, <2>1 DEF Puts, Sets
  <2> QED
    BY <1>1, <1>2, <1>5, <1>8, <2>4, <2>5, <2>6, GammaKeeps
<1> QED
  BY <1>9, <1>10

(* The witnesses are sent.                                                 *)
LEMMA GammaDoneKeeps ==
    ASSUME NEW R \in Runs, RunInv(R), SeedInv, GammaDone
    PROVE  RunInv(R)'
<1> DEFINE p == Garbler
<1>1. /\ at[p] = "gamma" /\ p \in Party /\ ~more(p) /\ at' = [at EXCEPT ![p] = "decode"]
      /\ UNCHANGED <<prog, owner, recipient, pc, shr, msk, lab, seed, Lambda_AND, M1_t, val>>
      /\ Send(p, "io", M1_t[p])
  BY ChannelEnds DEF GammaDone, At, Goto, wires, gamma
<1>2. /\ Running(R) /\ Tables /\ pc[p] \in 0 .. Size(R) /\ ListsWitnesses(R, pc[p], M1_t[p])
      /\ NumAndsOf(R) > 0
  BY <1>1, PartiesAre, ChecksWith
<1>3. pc[p] = Size(R) /\ Size(R) \in Nat /\ NumAndsOf(R) \in Nat /\ Extra(R) = 1
  BY <1>1, <1>2, GateIs, ProgramOk, IoNumbers
<1>4. Becomes(p, "decode", pc[p], shr[p], msk[p], lab[p], seed[p], Lambda_AND[p], M1_t[p])
  <2>1. Puts(p, "decode", pc[p], shr[p], msk[p], lab[p], seed[p], Lambda_AND[p], M1_t[p])
    BY <1>1 DEF Puts, Sets
  <2> QED
    BY <1>1, <1>2, <2>1, BecomesBy
<1>5. PartyState(R, p, "decode", pc[p], shr[p], msk[p], lab[p], seed[p], Lambda_AND[p], M1_t[p])
  <2>1. "decode" \in LastSteps \ {"gamma"} /\ at[p] \in LastSteps /\ "decode" \notin Setup
    BY <1>1 DEF Setup, LastSteps
  <2>2. StepOk(R, "decode", pc[p])
    BY <1>3, <2>1 DEF StepOk
  <2> QED
    BY <1>3, <2>1, <2>2, GarblerMoves
<1>6. at'[Garbler] = "decode" /\ at'[Evaluator] = at[Evaluator]
  BY <1>1, <1>2, ChannelEnds DEF Tables
<1>7. Matches(R)' /\ Grows(R, lab[Garbler], lab'[Garbler])
  <2>1. Garbled(R, at'[Garbler], pc'[Garbler]) = Garbled(R, at[Garbler], pc[Garbler])
    BY <1>1, <1>6 DEF Garbled, Setup
  <2> QED
    BY <1>1, <1>6, <2>1, MatchesKeep
<1>8. Talked(R, p, "decode", pc[p])
  <2>1. "io" \in Channel /\ p = WriterOf("io")
    BY ChannelEnds
  <2>2. ASSUME NEW c \in Channel
        PROVE  CountIn(R, p, "decode", pc[p], c) = IF c = "io" THEN CountIn(R, p, "gamma", pc[p], c) + 1
                                                   ELSE CountIn(R, p, "gamma", pc[p], c)
    <3>1. Tally(R, c, NumAndsOf(R) + 1, 1) =
            IF c = "io" THEN Tally(R, c, NumAndsOf(R), 1) + 1 ELSE Tally(R, c, NumAndsOf(R), 1)
      BY <1>3, TallyMoves
    <3>2. /\ CountIn(R, p, "decode", pc[p], c) = Tally(R, c, NumAndsOf(R) + Extra(R), Extra(R))
          /\ CountIn(R, p, "gamma", pc[p], c) = Tally(R, c, NumAndsOf(R), 1)
      BY <1>1, CountsAre
    <3> QED
      BY <1>3, <3>1, <3>2
  <2>3. Counts(R, p, at[p], pc[p], "decode", pc[p], "io")
    BY <1>1, <2>2 DEF Counts
  <2>4. Message(R, lab'[Garbler], "io", CountIn(R, p, at[p], pc[p], "io") + 1, M1_t[p])
    <3>1. CountIn(R, p, at[p], pc[p], "io") = Tally(R, "io", NumAndsOf(R), 1)
      BY <1>1, <2>1, CountsAre
    <3>2. CountIn(R, p, at[p], pc[p], "io") + 1 = Base(R) + NumAndsOf(R) + 1
      BY <3>1 DEF Tally
    <3> QED
      BY <1>2, <1>3, <3>2, SendsWitnesses
  <2> QED
    BY <1>1, <1>7, <2>1, <2>3, <2>4, TalkedBySend
<1>9. Decodes(R) => ValuesAre(R, at'[Evaluator], val')
  BY <1>1, <1>6, ValuesKeep
<1> QED
  BY <1>1, <1>4, <1>5, <1>7, <1>8, <1>9, Moved

(* Two lists of all witnesses are the same list.                           *)
LEMMA ListsSame ==
    ASSUME NEW R \in Runs, NEW L, NEW M, ListsWitnesses(R, Size(R), L), ListsWitnesses(R, Size(R), M)
    PROVE  L = M
<1>1. PICK S, T : L \in Seq(S) /\ M \in Seq(T)
  BY DEF ListsWitnesses, IsQueue
<1>2. PICK U : U = S \cup T
  OBVIOUS
<1>3. L \in Seq(U) /\ M \in Seq(U)
  BY <1>1, <1>2
<1>4. Len(L) = Ands(R, Size(R)) /\ Len(M) = Ands(R, Size(R)) /\ Size(R) \in 0 .. Size(R)
  BY ProgramOk DEF ListsWitnesses
<1>5. ASSUME NEW i \in 1 .. Len(L) PROVE L[i] = M[i]
  <2>1. PICK j \in 1 .. Size(R) : IsAnd(R, j) /\ Ands(R, j) = i
    BY <1>4, AndNumbers
  <2>2. GateOf(R, j).op = "And"
    BY <2>1 DEF IsAnd
  <2> QED
    BY <2>1, <2>2 DEF ListsWitnesses
<1> QED
  BY <1>3, <1>4, <1>5, SeqEqual

(* The evaluator gets the witnesses it has itself.                         *)
LEMMA GammaVerifyKeeps ==
    ASSUME NEW R \in Runs, RunInv(R), SeedInv, GammaVerify
    PROVE  RunInv(R)'
<1> DEFINE p == Evaluator
<1>1. PICK msg : msg = Head(wire["io"])
  OBVIOUS
<1>2. PICK a : a = IF msg = M1_t[p] THEN "decode" ELSE "abort"
  OBVIOUS
<1>3. /\ at[p] = "c_gamma" /\ p \in Party /\ at' = [at EXCEPT ![p] = a]
      /\ Arrived("io") /\ Recv(p, "io")
      /\ UNCHANGED <<prog, owner, recipient, pc, shr, msk, lab, seed, Lambda_AND, M1_t, val>>
  BY <1>1, <1>2, ChannelEnds DEF GammaVerify, At, Goto, wires, gamma
<1>4. /\ StepOk(R, "c_gamma", pc[p]) /\ ListsWitnesses(R, pc[p], M1_t[p]) /\ Running(R) /\ Tables
  <2>1. "c_gamma" \notin Setup
    BY DEF Setup
  <2>2. EvaluatorState(R, "c_gamma", pc[p], shr[p], msk[p], lab[p], seed[p], Lambda_AND[p], M1_t[p])
    BY <1>3, PartiesAre
  <2> QED
    BY <2>1, <2>2, PartiesAre DEF EvaluatorState
<1>5. pc[p] = Size(R) /\ NumAndsOf(R) > 0 /\ Size(R) \in Nat /\ NumAndsOf(R) \in Nat /\ Extra(R) = 1
  BY <1>4, ProgramOk, IoNumbers DEF StepOk
<1>6. "io" \in Channel /\ p = ReaderOf("io")
  BY ChannelEnds
<1>7. a = "decode"
  <2>1. CountIn(R, p, at[p], pc[p], "io") + 1 = Base(R) + NumAndsOf(R) + 1
    <3>1. CountIn(R, p, at[p], pc[p], "io") = Tally(R, "io", NumAndsOf(R), 1)
      BY <1>3, <1>6, CountsAre
    <3> QED
      BY <3>1 DEF Tally
  <2>2. Message(R, lab[Garbler], "io", Base(R) + NumAndsOf(R) + 1, msg)
    BY <1>1, <1>3, <1>6, <2>1, MessageRead
  <2>3. ListsWitnesses(R, Size(R), msg)
    BY <1>5, <2>2 DEF Message, IoMessage
  <2>4. msg = M1_t[p]
    BY <1>4, <1>5, <2>3, ListsSame
  <2> QED
    BY <1>2, <2>4
<1>8. Becomes(p, "decode", pc[p], shr[p], msk[p], lab[p], seed[p], Lambda_AND[p], M1_t[p])
  <2>1. Puts(p, "decode", pc[p], shr[p], msk[p], lab[p], seed[p], Lambda_AND[p], M1_t[p])
    BY <1>3, <1>7 DEF Puts, Sets
  <2> QED
    BY <1>3, <1>4, <2>1, BecomesBy
<1>9. PartyState(R, p, "decode", pc[p], shr[p], msk[p], lab[p], seed[p], Lambda_AND[p], M1_t[p])
  <2>1. "decode" \notin Setup /\ "decode" \in EvaluatorSteps /\ at[p] \notin Setup
    BY <1>3 DEF Setup, EvaluatorSteps
  <2>2. StepOk(R, "decode", pc[p])
    BY <1>5, <2>1 DEF StepOk
  <2> QED
    BY <2>1, <2>2, EvaluatorMoves
<1>10. at'[Evaluator] = "decode" /\ at'[Garbler] = at[Garbler]
  BY <1>3, <1>4, <1>7, ChannelEnds DEF Tables
<1>11. Matches(R)' /\ Grows(R, lab[Garbler], lab'[Garbler])
  <2>1. Garbled(R, at'[Garbler], pc'[Garbler]) = Garbled(R, at[Garbler], pc[Garbler])
    BY <1>3, <1>10
  <2>2. at[Evaluator] \notin Early
    BY <1>3 DEF Early
  <2> QED
    BY <1>3, <2>1, <2>2, MatchesKeep
<1>12. Talked(R, p, "decode", pc[p])
  <2>1. ASSUME NEW c \in Channel
        PROVE  CountIn(R, p, "decode", pc[p], c) = IF c = "io" THEN CountIn(R, p, "c_gamma", pc[p], c) + 1
                                                   ELSE CountIn(R, p, "c_gamma", pc[p], c)
    <3>1. Tally(R, c, NumAndsOf(R) + 1, 1) =
            IF c = "io" THEN Tally(R, c, NumAndsOf(R), 1) + 1 ELSE Tally(R, c, NumAndsOf(R), 1)
      BY <1>5, TallyMoves
    <3>2. /\ CountIn(R, p, "decode", pc[p], c) = Tally(R, c, NumAndsOf(R) + Extra(R), Extra(R))
          /\ CountIn(R, p, "c_gamma", pc[p], c) = Tally(R, c, NumAndsOf(R), 1)
      BY <1>3, CountsAre
    <3> QED
      BY <1>5, <3>1, <3>2
  <2>2. Counts(R, p, at[p], pc[p], "decode", pc[p], "io")
    BY <1>3, <2>1 DEF Counts
  <2> QED
    BY <1>3, <1>6, <1>11, <2>2, TalkedByRecv
<1>13. Decodes(R) => ValuesAre(R, at'[Evaluator], val')
  BY <1>3, <1>10, ValuesKeep
<1> QED
  BY <1>3, <1>8, <1>9, <1>11, <1>12, <1>13, Moved
-------------------------------------------------------------------------------
(* decode.                                                                 *)
LEMMA RecipientIs ==
    ASSUME NEW R \in Runs
    PROVE  /\ R.recipient \in {Garbler, Evaluator, "Public"}
           /\ "Public" # Garbler /\ "Public" # Evaluator
           /\ R.recipient = "Public" => Opens(R) = Garbler
           /\ R.recipient = Evaluator => Opens(R) = Garbler
           /\ R.recipient = Garbler => Opens(R) = Evaluator
           /\ Opens(R) \in {Garbler, Evaluator}
<1>1. /\ R.recipient \in {Garbler, Evaluator, "Public"}
      /\ "Public" # Garbler /\ "Public" # Evaluator
  BY HalfGatesAssumption, ChannelEnds DEF Runs
<1> QED
  BY <1>1, PartyAssumption DEF Opens

(* What a party has when it comes to decode, or to broadcast.              *)
LEMMA DecodesWith ==
    ASSUME NEW R \in Runs, RunInv(R), NEW p \in Party, at[p] \in {"decode", "broadcast"}
    PROVE  /\ pc[p] = Size(R) /\ SharesAre(R, p, shr[p])
           /\ p = Evaluator \/ NumAndsOf(R) # 0 => MasksTo(R, Size(R), msk[p])
           /\ at[p] = "broadcast" => R.recipient = "Public"
           /\ at[p] \notin Setup /\ Running(R) /\ Tables
<1>1. /\ at[p] \notin Setup /\ at[p] \notin {"garble", "Lambda_AND", "gamma"}
  BY DEF Setup
<1>2. CASE p = Garbler
  <2>1. GarblerState(R, at[p], pc[p], shr[p], msk[p], lab[p], seed[p], Lambda_AND[p], M1_t[p])
    BY <1>2, PartiesAre
  <2>2. StepOk(R, at[p], pc[p]) /\ SharesAre(R, p, shr[p])
        /\ MasksTo(R, IF NumAndsOf(R) = 0 THEN 0 ELSE Size(R), msk[p])
    BY <1>1, <1>2, <2>1 DEF GarblerState
  <2> QED
    BY <1>1, <1>2, <2>2, PartiesAre, ChannelEnds DEF StepOk
<1>3. CASE p = Evaluator
  <2>1. EvaluatorState(R, at[p], pc[p], shr[p], msk[p], lab[p], seed[p], Lambda_AND[p], M1_t[p])
    BY <1>3, PartiesAre
  <2>2. StepOk(R, at[p], pc[p]) /\ SharesAre(R, p, shr[p]) /\ MasksTo(R, pc[p], msk[p])
    BY <1>1, <1>3, <2>1 DEF EvaluatorState
  <2> QED
    BY <1>1, <2>2, PartiesAre DEF StepOk
<1> QED
  BY <1>2, <1>3, ChannelEnds

(* One of the last steps.                                                  *)
FinalStep(R, p, a) ==
    /\ a = "broadcast" => R.recipient = "Public"
    /\ at' = [at EXCEPT ![p] = a]
    /\ UNCHANGED <<prog, owner, recipient, pc, shr, msk, lab, seed, Lambda_AND, M1_t>>
    /\ \E v : Sets(val, val', p, v)
    /\ \E c, msg : Send(p, c, msg) \/ Recv(p, c)

(* It changes no table but val.                                            *)
LEMMA FinalKeeps ==
    ASSUME NEW R \in Runs, RunInv(R), NEW p \in Party, at[p] \in {"decode", "broadcast"},
           NEW a \in {"broadcast", "done"}, FinalStep(R, p, a),
           Talked(R, p, a, pc[p]), Decodes(R) => ValuesAre(R, at'[Evaluator], val')
    PROVE  RunInv(R)'
<1>0. /\ a = "broadcast" => R.recipient = "Public"
      /\ at' = [at EXCEPT ![p] = a]
      /\ UNCHANGED <<prog, owner, recipient, pc, shr, msk, lab, seed, Lambda_AND, M1_t>>
      /\ \E v : Sets(val, val', p, v)
      /\ \E c, msg : Send(p, c, msg) \/ Recv(p, c)
  BY DEF FinalStep
<1>1. pc[p] = Size(R) /\ at[p] \notin Setup /\ Tables /\ Size(R) \in Nat
  BY DecodesWith, ProgramOk
<1>2. Puts(p, a, pc[p], shr[p], msk[p], lab[p], seed[p], Lambda_AND[p], M1_t[p])
  BY <1>0 DEF Puts, Sets
<1>3. Becomes(p, a, pc[p], shr[p], msk[p], lab[p], seed[p], Lambda_AND[p], M1_t[p])
  BY <1>1, <1>2, BecomesBy
<1>4. a \notin Setup /\ a \in LastSteps \ {"gamma"} /\ at[p] \in LastSteps /\ a \in EvaluatorSteps \ Setup
  BY DEF Setup, LastSteps, EvaluatorSteps
<1>5. StepOk(R, a, pc[p])
  BY <1>0, <1>1, <1>4 DEF StepOk
<1>6. PartyState(R, p, a, pc[p], shr[p], msk[p], lab[p], seed[p], Lambda_AND[p], M1_t[p])
  <2>1. CASE p = Garbler
    BY <1>1, <1>4, <1>5, <2>1, GarblerMoves
  <2>2. CASE p = Evaluator
    BY <1>1, <1>4, <1>5, <2>2, EvaluatorMoves
  <2> QED
    BY <2>1, <2>2, ChannelEnds
<1>7. Matches(R)'
  <2>1. \A q \in Party : at'[q] = IF q = p THEN a ELSE at[q]
    BY <1>0, <1>1 DEF Tables
  <2>2. Garbled(R, at'[Garbler], pc'[Garbler]) = Garbled(R, at[Garbler], pc[Garbler])
    BY <1>0, <2>1, ChannelEnds DEF Garbled, Setup
  <2>3. at'[Evaluator] \in Early \/ at[Evaluator] \notin Early
    BY <2>1, ChannelEnds DEF Early
  <2>4. /\ lab'[Garbler] = lab[Garbler] /\ lab'[Evaluator] = lab[Evaluator]
        /\ pc'[Evaluator] = pc[Evaluator]
    BY <1>0
  <2> QED
    BY <2>2, <2>3, <2>4, MatchesKeep
<1> QED
  BY <1>3, <1>6, <1>7, Moved

(* The opening and the broadcast, counted alike at both parties.           *)
FromOpens(R) == IF Opens(R) = Garbler THEN "io" ELSE "io_back"
AfterOf(R) == IF R.recipient = "Public" THEN "broadcast" ELSE "done"

(* One message is sent, and read, between decode and the step after it.    *)
LEMMA OpeningCounts ==
    ASSUME NEW R \in Runs, NEW p \in Party, NEW n, NEW k
    PROVE  /\ Counts(R, p, "decode", n, AfterOf(R), k, FromOpens(R))
           /\ Opens(R) = Garbler =>
                CountIn(R, p, "decode", n, "io") + 1 = Base(R) + NumAndsOf(R) + Extra(R) + 1
           /\ CountIn(R, p, "decode", n, "io_back") + 1 = Extra(R) + 1
<1>1. PICK N, E : N = NumAndsOf(R) + Extra(R) /\ E = Extra(R)
  OBVIOUS
<1>2. N \in Nat /\ E \in Nat /\ Base(R) \in Nat /\ NumAndsOf(R) \in Nat
  BY <1>1, IoNumbers
<1>3. ASSUME NEW e \in Channel
      PROVE  /\ CountIn(R, p, "decode", n, e) = Tally(R, e, N, E)
             /\ CountIn(R, p, "broadcast", k, e) =
                  Tally(R, e, IF Opens(R) = Evaluator THEN N ELSE N + 1, E)
             /\ CountIn(R, p, "done", k, e) =
                  Tally(R, e, IF Opens(R) = Evaluator THEN N ELSE N + 1,
                        IF R.recipient = Evaluator THEN E ELSE E + 1)
             /\ Tally(R, e, N + 1, E) = IF e = "io" THEN Tally(R, e, N, E) + 1 ELSE Tally(R, e, N, E)
             /\ Tally(R, e, N, E + 1) =
                  IF e = "io_back" THEN Tally(R, e, N, E) + 1 ELSE Tally(R, e, N, E)
  BY <1>1, <1>2, CountsAre, TallyMoves
<1>4. Garbler # Evaluator
  BY PartyAssumption
<1>5. CASE R.recipient = Garbler
  <2>1. AfterOf(R) = "done" /\ FromOpens(R) = "io_back" /\ Opens(R) = Evaluator
        /\ R.recipient # Evaluator
    BY <1>4, <1>5, RecipientIs DEF AfterOf, FromOpens
  <2>2. Counts(R, p, "decode", n, "done", k, "io_back")
    BY <1>3, <2>1 DEF Counts
  <2> QED
    BY <1>1, <1>2, <1>3, <1>4, <2>1, <2>2, ChannelEnds DEF Tally
<1>6. CASE R.recipient = Evaluator
  <2>1. AfterOf(R) = "done" /\ FromOpens(R) = "io" /\ Opens(R) = Garbler
    BY <1>4, <1>6, RecipientIs DEF AfterOf, FromOpens
  <2>2. Counts(R, p, "decode", n, "done", k, "io")
    BY <1>3, <1>4, <1>6, <2>1 DEF Counts
  <2> QED
    BY <1>1, <1>2, <1>3, <2>1, <2>2, ChannelEnds DEF Tally
<1>7. CASE R.recipient = "Public"
  <2>1. AfterOf(R) = "broadcast" /\ FromOpens(R) = "io" /\ Opens(R) = Garbler
    BY <1>4, <1>7, RecipientIs DEF AfterOf, FromOpens
  <2>2. Counts(R, p, "decode", n, "broadcast", k, "io")
    BY <1>3, <1>4, <2>1 DEF Counts
  <2> QED
    BY <1>1, <1>2, <1>3, <2>1, <2>2, ChannelEnds DEF Tally
<1> QED
  BY <1>5, <1>6, <1>7, RecipientIs

(* One more is sent, and read, in a broadcast.                             *)
LEMMA BroadcastCounts ==
    ASSUME NEW R \in Runs, R.recipient = "Public", NEW p \in Party, NEW n, NEW k
    PROVE  /\ Counts(R, p, "broadcast", n, "done", k, "io_back")
           /\ CountIn(R, p, "broadcast", n, "io_back") + 1 = Extra(R) + 1
<1>1. PICK N, E : N = NumAndsOf(R) + Extra(R) /\ E = Extra(R)
  OBVIOUS
<1>2. N \in Nat /\ E \in Nat /\ N + 1 \in Nat
  BY <1>1, IoNumbers
<1>3. Opens(R) # Evaluator /\ R.recipient # Evaluator
  BY PartyAssumption, RecipientIs
<1>4. ASSUME NEW e \in Channel
      PROVE  /\ CountIn(R, p, "broadcast", n, e) = Tally(R, e, N + 1, E)
             /\ CountIn(R, p, "done", k, e) = Tally(R, e, N + 1, E + 1)
             /\ Tally(R, e, N + 1, E + 1) =
                  IF e = "io_back" THEN Tally(R, e, N + 1, E) + 1 ELSE Tally(R, e, N + 1, E)
  BY <1>1, <1>2, <1>3, CountsAre, TallyMoves
<1>5. Counts(R, p, "broadcast", n, "done", k, "io_back")
  BY <1>4 DEF Counts
<1> QED
  BY <1>1, <1>4, <1>5, ChannelEnds DEF Tally

(* The shares of the outputs are opened.                                   *)
LEMMA DecodeSendKeeps ==
    ASSUME NEW R \in Runs, RunInv(R), SeedInv, DecodeSend
    PROVE  RunInv(R)'
<1>1. PICK p, c, a, msg : /\ p = Opens(R) /\ c = FromOpens(R) /\ a = AfterOf(R)
                          /\ msg = Opening(p, OutsOf(R))
  OBVIOUS
<1>2. /\ Opener = Opens(R) /\ OutWires = OutsOf(R) /\ FromOpener = FromOpens(R)
      /\ AfterDecode = AfterOf(R)
  BY PartiesAre, NamesAre DEF FromOpener, FromOpens, AfterDecode, AfterOf
<1>3. /\ at[p] = "decode" /\ at' = [at EXCEPT ![p] = a] /\ Send(p, c, msg)
      /\ UNCHANGED <<prog, owner, recipient, pc, shr, msk, lab, seed, Lambda_AND, M1_t, val>>
  BY <1>1, <1>2 DEF DecodeSend, At, Goto, wires, gamma
<1>4. /\ p \in Party /\ c \in Channel /\ WriterOf(c) = p /\ a \in {"broadcast", "done"}
      /\ a = "broadcast" => R.recipient = "Public"
      /\ p = Garbler => c = "io" /\ Opens(R) = Garbler
      /\ p = Evaluator => c = "io_back" /\ R.recipient = Garbler
  BY <1>1, RecipientIs, ChannelEnds DEF FromOpens, AfterOf
<1>5. msg = OpeningIn(R, p, OutsOf(R))
  <2>1. OutsOf(R) \subseteq Wires(R)
    BY ProgramOk
  <2>2. \A k \in OutsOf(R) : shr[p][k] = ShareIn(R, p, k)
    BY <1>3, <1>4, <2>1, DecodesWith DEF SharesAre
  <2> QED
    BY <1>1, <1>4, <2>1, <2>2, OpeningOk
<1>6. Tables
  BY PartiesAre
<1>7. Grows(R, lab[Garbler], lab'[Garbler])
  BY <1>3, GarblerGrows
<1>8. Talked(R, p, a, pc[p])
  <2>1. Counts(R, p, at[p], pc[p], a, pc[p], c)
    BY <1>1, <1>3, <1>4, OpeningCounts
  <2>2. CASE p = Garbler
    <3>1. CountIn(R, p, at[p], pc[p], c) + 1 = Base(R) + NumAndsOf(R) + Extra(R) + 1
      BY <1>3, <1>4, <2>2, OpeningCounts
    <3>2. msg = OpeningIn(R, Garbler, OutsOf(R))
      BY <1>5, <2>2
    <3>3. Message(R, lab'[Garbler], "io", CountIn(R, p, at[p], pc[p], c) + 1, msg)
      BY <3>1, <3>2, SendsOpening
    <3>4. Message(R, lab'[Garbler], c, CountIn(R, p, at[p], pc[p], c) + 1, msg)
      BY <1>4, <2>2, <3>3
    <3> QED
      BY <1>3, <1>4, <1>7, <2>1, <3>4, TalkedBySend
  <2>3. CASE p = Evaluator
    <3>1. CountIn(R, p, at[p], pc[p], c) + 1 = Extra(R) + 1
      BY <1>3, <1>4, <2>3, OpeningCounts
    <3>2. Message(R, lab'[Garbler], "io_back", CountIn(R, p, at[p], pc[p], c) + 1, msg)
      BY <1>4, <1>5, <2>3, <3>1, SendsBack
    <3>3. Message(R, lab'[Garbler], c, CountIn(R, p, at[p], pc[p], c) + 1, msg)
      BY <1>4, <2>3, <3>2
    <3> QED
      BY <1>3, <1>4, <1>7, <2>1, <3>3, TalkedBySend
  <2> QED
    BY <1>4, <2>2, <2>3, ChannelEnds
<1>9. Decodes(R) => ValuesAre(R, at'[Evaluator], val')
  <2>1. CASE p = Garbler
    <3>1. at'[Evaluator] = at[Evaluator]
      BY <1>3, <1>6, <2>1, ChannelEnds DEF Tables
    <3> QED
      BY <1>3, <3>1, ValuesKeep
  <2>2. CASE p = Evaluator
    <3>1. at'[Evaluator] # "broadcast"
      BY <1>3, <1>4, <1>6, <2>2, RecipientIs DEF Tables
    <3> QED
      BY <1>3, <3>1, ValuesKeep
  <2> QED
    BY <1>4, <2>1, <2>2, ChannelEnds
<1>10. FinalStep(R, p, a)
  <2>1. Sets(val, val', p, val[p])
    BY <1>3 DEF Sets
  <2> QED
    BY <1>3, <1>4, <2>1 DEF FinalStep
<1> QED
  BY <1>3, <1>4, <1>8, <1>9, <1>10, FinalKeeps

(* Lambda and both share bits give the clear value.                        *)
LEMMA UnmaskIs ==
    ASSUME NEW R \in Runs, NEW p \in Party, NEW k \in Wires(R), shr[p][k] = ShareIn(R, p, k),
           msk[p][k] = LambdaIn(R, k), NEW msg, NEW ks, k \in ks,
           msg = OpeningIn(R, Peer(p), ks)
    PROVE  Unmask(p, msg, k) = ClearIn(R)[k]
<1>1. PICK c, x, y : /\ c = ClearIn(R)[k] /\ x = LSB(ShareIn(R, p, k).mac)
                     /\ y = LSB(ShareIn(R, Peer(p), k).mac)
  OBVIOUS
<1>2. msg.bits[k] = y
  BY <1>1 DEF OpeningIn
<1>3. msk[p][k] = c ++ (x ++ y)
  BY <1>1, ShareOk DEF LambdaIn
<1>4. Unmask(p, msg, k) = (x ++ (c ++ (x ++ y))) ++ y
  BY <1>1, <1>2, <1>3 DEF Unmask
<1>5. \A b, u, v : (u ++ (b ++ (u ++ v))) ++ v = b
  BY DEF ++, XorBit, SymDiff
<1> QED
  BY <1>1, <1>4, <1>5

(* The opening is verified, and the outputs are what they are in the       *)
(* clear.                                                                  *)
LEMMA DecodeRecvKeeps ==
    ASSUME NEW R \in Runs, RunInv(R), SeedInv, DecodeRecv
    PROVE  RunInv(R)'
<1>1. PICK p, c, a, msg, v : /\ p = Peer(Opens(R)) /\ c = FromOpens(R) /\ a = AfterOf(R)
                             /\ msg = Head(wire[c])
                             /\ v = [k \in DOMAIN R.prog.outputs |->
                                       Unmask(p, msg, R.prog.outputs[k] + 1)]
  OBVIOUS
<1>2. /\ Reader = p /\ OutWires = OutsOf(R) /\ FromOpener = c /\ AfterDecode = a
      /\ prog = R.prog
  BY <1>1, PartiesAre, NamesAre DEF Reader, FromOpener, FromOpens, AfterDecode, AfterOf
<1>3. /\ at[p] = "decode" /\ Arrived(c) /\ Recv(p, c)
      /\ UNCHANGED <<prog, owner, recipient, pc, shr, msk, lab, seed, Lambda_AND, M1_t>>
  BY <1>1, <1>2 DEF DecodeRecv, At, wires, gamma
<1>4. /\ p \in Party /\ c \in Channel /\ ReaderOf(c) = p /\ a \in {"broadcast", "done"}
      /\ a = "broadcast" => R.recipient = "Public"
      /\ p = Evaluator => c = "io" /\ Peer(p) = Garbler /\ Opens(R) = Garbler
      /\ p = Garbler => c = "io_back" /\ Peer(p) = Evaluator /\ R.recipient = Garbler
  BY <1>1, RecipientIs, ChannelEnds DEF FromOpens, AfterOf
<1>5. OutsOf(R) \subseteq Wires(R) /\ Tables /\ SharesAre(R, p, shr[p])
  BY <1>3, <1>4, ProgramOk, PartiesAre, DecodesWith
<1>6. \A k \in OutsOf(R) : shr[p][k] = ShareIn(R, p, k)
  BY <1>5 DEF SharesAre
<1>7. msg = OpeningIn(R, Peer(p), OutsOf(R))
  <2>1. Message(R, lab[Garbler], c, CountIn(R, p, at[p], pc[p], c) + 1, msg)
    BY <1>1, <1>3, <1>4, MessageRead
  <2>2. CASE p = Evaluator
    <3>1. CountIn(R, p, at[p], pc[p], c) + 1 = Base(R) + NumAndsOf(R) + Extra(R) + 1
      BY <1>3, <1>4, <2>2, OpeningCounts
    <3>2. Message(R, lab[Garbler], "io", Base(R) + NumAndsOf(R) + Extra(R) + 1, msg)
      BY <1>4, <2>1, <2>2, <3>1
    <3> QED
      BY <1>4, <2>2, <3>2 DEF Message, IoMessage
  <2>3. CASE p = Garbler
    <3>1. CountIn(R, p, at[p], pc[p], c) + 1 = Extra(R) + 1
      BY <1>3, <1>4, <2>3, OpeningCounts
    <3>2. Message(R, lab[Garbler], "io_back", Extra(R) + 1, msg)
      BY <1>4, <2>1, <2>3, <3>1
    <3> QED
      BY <1>4, <2>3, <3>2 DEF Message, BackMessage
  <2> QED
    BY <1>4, <2>2, <2>3, ChannelEnds
<1>8. Verified(p, msg, OutsOf(R))
  BY <1>4, <1>5, <1>6, <1>7, OpeningOk
<1>9. val' = [val EXCEPT ![p] = v] /\ at' = [at EXCEPT ![p] = a]
  <2>1. msg = Head(wire[FromOpener]) /\ Verified(Reader, msg, OutWires)
    BY <1>1, <1>2, <1>8
  <2>2. /\ val' = [val EXCEPT ![Reader] =
                     [k \in DOMAIN prog.outputs |-> Unmask(Reader, msg, prog.outputs[k] + 1)]]
        /\ at' = [at EXCEPT ![Reader] = AfterDecode]
    BY <2>1 DEF DecodeRecv, Goto
  <2> QED
    BY <1>1, <1>2, <2>2
<1>10. ASSUME Decodes(R) PROVE v = ClearOuts(R)
  <2>1. p = Evaluator \/ NumAndsOf(R) # 0
    <3>1. p = Garbler => NumAndsOf(R) > 0
      BY <1>4, <1>10 DEF Decodes
    <3> QED
      BY <1>4, <3>1, IoNumbers, ChannelEnds
  <2>2. MasksTo(R, Size(R), msk[p])
    BY <1>3, <1>4, <2>1, DecodesWith
  <2>3. ASSUME NEW k \in DOMAIN R.prog.outputs
        PROVE  Unmask(p, msg, R.prog.outputs[k] + 1) = ClearIn(R)[R.prog.outputs[k] + 1]
    <3>1. PICK w : w = R.prog.outputs[k] + 1
      OBVIOUS
    <3>2. w \in OutsOf(R)
      BY <3>1 DEF OutsOf
    <3>3. w \in Wires(R) /\ In(R) \in Nat /\ Size(R) \in Nat
      BY <1>5, <3>2, ProgramOk
    <3>4. w <= In(R) + Size(R)
      BY <3>3 DEF Wires
    <3>5. msk[p][w] = LambdaIn(R, w) /\ shr[p][w] = ShareIn(R, p, w)
      BY <1>6, <2>2, <3>2, <3>3, <3>4 DEF MasksTo
    <3>6. Unmask(p, msg, w) = ClearIn(R)[w]
      BY <1>4, <1>7, <3>2, <3>3, <3>5, UnmaskIs
    <3> QED
      BY <3>1, <3>6
  <2> QED
    BY <1>1, <2>3 DEF ClearOuts
<1>11. /\ \A q \in Party : at'[q] = IF q = p THEN a ELSE at[q]
       /\ \A q \in Party : val'[q] = IF q = p THEN v ELSE val[q]
  BY <1>5, <1>9 DEF Tables
<1>12. Decodes(R) => ValuesAre(R, at'[Evaluator], val')
  <2> SUFFICES ASSUME Decodes(R) PROVE ValuesAre(R, at'[Evaluator], val')
    OBVIOUS
  <2>1. ValuesAre(R, at[Evaluator], val) /\ v = ClearOuts(R)
    BY <1>10, PartiesAre
  <2>2. \A q \in Party : val'[q] = <<>> \/ val'[q] = ClearOuts(R)
    BY <1>11, <2>1 DEF ValuesAre
  <2>3. at'[Evaluator] = "broadcast" => val'[Evaluator] = ClearOuts(R)
    <3>1. CASE p = Evaluator
      BY <1>4, <1>11, <2>1, <3>1
    <3>2. CASE p # Evaluator
      BY <1>11, <2>1, <3>2, ChannelEnds DEF ValuesAre
    <3> QED
      BY <3>1, <3>2
  <2> QED
    BY <2>2, <2>3 DEF ValuesAre
<1>13. Talked(R, p, a, pc[p])
  <2>1. Counts(R, p, at[p], pc[p], a, pc[p], c)
    BY <1>1, <1>3, <1>4, OpeningCounts
  <2>2. Grows(R, lab[Garbler], lab'[Garbler])
    BY <1>3, GarblerGrows
  <2> QED
    BY <1>3, <1>4, <2>1, <2>2, TalkedByRecv
<1>14. FinalStep(R, p, a)
  <2>1. Sets(val, val', p, v)
    BY <1>9 DEF Sets
  <2> QED
    BY <1>3, <1>4, <1>9, <2>1 DEF FinalStep
<1> QED
  BY <1>3, <1>4, <1>12, <1>13, <1>14, FinalKeeps

(* The evaluator sends the outputs of a PUBLIC reveal,                     *)
LEMMA BroadcastSendKeeps ==
    ASSUME NEW R \in Runs, RunInv(R), SeedInv, BroadcastSend
    PROVE  RunInv(R)'
<1> DEFINE p == Evaluator
<1>1. /\ at[p] = "broadcast" /\ p \in Party /\ at' = [at EXCEPT ![p] = "done"]
      /\ Send(p, "io_back", val[p])
      /\ UNCHANGED <<prog, owner, recipient, pc, shr, msk, lab, seed, Lambda_AND, M1_t, val>>
  BY ChannelEnds DEF BroadcastSend, At, Goto, wires, gamma
<1>2. Tables /\ R.recipient = "Public" /\ R.recipient # Garbler
  BY <1>1, DecodesWith, RecipientIs
<1>3. val[p] = ClearOuts(R)
  <2>1. Decodes(R)
    BY <1>2 DEF Decodes
  <2> QED
    BY <1>1, <2>1, PartiesAre DEF ValuesAre
<1>4. at'[Evaluator] = "done" /\ Grows(R, lab[Garbler], lab'[Garbler])
  BY <1>1, <1>2, GarblerGrows DEF Tables
<1>5. Talked(R, p, "done", pc[p])
  <2>1. "io_back" \in Channel /\ p = WriterOf("io_back")
    BY ChannelEnds
  <2>2. /\ Counts(R, p, at[p], pc[p], "done", pc[p], "io_back")
        /\ CountIn(R, p, at[p], pc[p], "io_back") + 1 = Extra(R) + 1
    BY <1>1, <1>2, BroadcastCounts
  <2>3. Message(R, lab'[Garbler], "io_back", CountIn(R, p, at[p], pc[p], "io_back") + 1, val[p])
    BY <1>2, <1>3, <2>2, SendsBack
  <2> QED
    BY <1>1, <1>4, <2>1, <2>2, <2>3, TalkedBySend
<1>6. Decodes(R) => ValuesAre(R, at'[Evaluator], val')
  BY <1>1, <1>4, ValuesKeep
<1>7. FinalStep(R, p, "done")
  <2>1. Sets(val, val', p, val[p])
    BY <1>1 DEF Sets
  <2> QED
    BY <1>1, <2>1 DEF FinalStep
<1> QED
  BY <1>1, <1>5, <1>6, <1>7, FinalKeeps

(* and the garbler takes them.                                             *)
LEMMA BroadcastRecvKeeps ==
    ASSUME NEW R \in Runs, RunInv(R), SeedInv, BroadcastRecv
    PROVE  RunInv(R)'
<1> DEFINE p == Garbler
<1>1. PICK msg : msg = Head(wire["io_back"])
  OBVIOUS
<1>2. /\ at[p] = "broadcast" /\ p \in Party /\ at' = [at EXCEPT ![p] = "done"]
      /\ Arrived("io_back") /\ Recv(p, "io_back") /\ val' = [val EXCEPT ![p] = msg]
      /\ UNCHANGED <<prog, owner, recipient, pc, shr, msk, lab, seed, Lambda_AND, M1_t>>
  BY <1>1, ChannelEnds DEF BroadcastRecv, At, Goto, wires, gamma
<1>3. Tables /\ R.recipient = "Public" /\ R.recipient # Garbler
  BY <1>2, DecodesWith, RecipientIs
<1>4. "io_back" \in Channel /\ p = ReaderOf("io_back")
  BY ChannelEnds
<1>5. /\ Counts(R, p, at[p], pc[p], "done", pc[p], "io_back")
      /\ CountIn(R, p, at[p], pc[p], "io_back") + 1 = Extra(R) + 1
  BY <1>2, <1>3, BroadcastCounts
<1>6. msg = ClearOuts(R)
  <2>1. Message(R, lab[Garbler], "io_back", Extra(R) + 1, msg)
    BY <1>1, <1>2, <1>4, <1>5, MessageRead
  <2> QED
    BY <1>3, <2>1 DEF Message, BackMessage
<1>7. Talked(R, p, "done", pc[p])
  <2>1. Grows(R, lab[Garbler], lab'[Garbler])
    BY <1>2, GarblerGrows
  <2> QED
    BY <1>2, <1>4, <1>5, <2>1, TalkedByRecv
<1>8. Decodes(R) => ValuesAre(R, at'[Evaluator], val')
  <2>1. /\ at'[Evaluator] = at[Evaluator]
        /\ \A q \in Party : val'[q] = IF q = p THEN msg ELSE val[q]
    BY <1>2, <1>3, ChannelEnds DEF Tables
  <2> QED
    BY <1>6, <2>1, PartiesAre, ChannelEnds DEF ValuesAre
<1>9. FinalStep(R, p, "done")
  <2>1. Sets(val, val', p, msg)
    BY <1>2 DEF Sets
  <2> QED
    BY <1>2, <2>1 DEF FinalStep
<1> QED
  BY <1>2, <1>7, <1>8, <1>9, FinalKeeps
-------------------------------------------------------------------------------
(* The invariant of all runs.                                              *)
LEMMA InitRun == Init => ProtocolInv
<1> SUFFICES ASSUME Init PROVE ProtocolInv
  OBVIOUS
<1>1. PICK R : R = [prog |-> prog, owner |-> owner, recipient |-> recipient]
  OBVIOUS
<1>2. R \in Runs /\ Running(R)
  BY <1>1 DEF Init, Runs, Running
<1>3. /\ NumIn = In(R) /\ Inputs = 1 .. In(R) /\ Secret = SecretOf(R)
      /\ \A k : PublicBit(k) = PublicOf(R, k)
  BY <1>2, NamesAre
<1>4. PICK a : a = IF SecretOf(R) = {} THEN "seed" ELSE "inputs"
  OBVIOUS
<1>5. /\ at = [p \in Party |-> a] /\ pc = [p \in Party |-> 0]
      /\ shr = [p \in Party |-> [k \in Inputs |-> WireShare(p, IF k \in Secret THEN {k} ELSE {})]]
      /\ msk = [p \in Party |-> [k \in Inputs |-> PublicBit(k)]]
      /\ lab = [p \in Party |-> [k \in Inputs |->
                  IF k \notin Secret THEN PublicLabel(p, k)
                  ELSE IF p = Garbler THEN Var(<<"Label", k>>) ELSE Zero]]
      /\ seed = [p \in Party |-> <<>>]
      /\ Lambda_AND = [p \in Party |-> <<>>] /\ M1_t = [p \in Party |-> <<>>]
      /\ val = [p \in Party |-> <<>>]
      /\ wire = [c \in Channel |-> <<>>]
      /\ seen = [p \in Party |-> [c \in Channel |-> 0]]
  BY <1>3, <1>4 DEF Init, CommInit
<1>6. Tables
  BY <1>5 DEF Tables
<1>7. /\ In(R) \in Nat /\ Size(R) \in Nat /\ Ands(R, 0) = 0 /\ SecretOf(R) \subseteq 1 .. In(R)
      /\ Garbler \in Party /\ Evaluator \in Party /\ Garbler # Evaluator
  BY <1>2, ProgramOk, AndsAre, ChannelEnds DEF SecretOf
<1>8. /\ a \in Setup /\ a \notin {"open", "labels", "garble", "evaluate", "Lambda_AND", "c_gamma",
                                  "gamma", "decode", "broadcast", "done"}
      /\ (a = "inputs" /\ SecretOf(R) # {}) \/ (a = "seed" /\ SecretOf(R) = {})
  BY <1>4 DEF Setup
<1>9. StepOk(R, a, 0)
  BY <1>7, <1>8 DEF StepOk
<1>10. ASSUME NEW p \in Party PROVE InputState(R, p, a, shr[p], msk[p])
  <2>1. \A k \in 1 .. In(R) : ShareIn(R, p, k) = WireShare(p, IF k \in SecretOf(R) THEN {k} ELSE {})
    BY <1>2, DrawsOfRun DEF ShareIn
  <2>2. shr[p] = [k \in 1 .. In(R) |-> ShareIn(R, p, k)]
    BY <1>3, <1>5, <2>1
  <2>3. DOMAIN msk[p] = 1 .. In(R) /\ \A k \in 1 .. In(R) : msk[p][k] = PublicOf(R, k)
    BY <1>3, <1>5
  <2>4. a = "seed" => \A k \in 1 .. In(R) : LambdaIn(R, k) = PublicOf(R, k)
    BY <1>2, <1>8, LambdasOfRun
  <2> QED
    BY <1>8, <2>2, <2>3, <2>4 DEF InputState
<1>11. PICK l, e : l = lab[Garbler] /\ e = lab[Evaluator]
  OBVIOUS
<1>12. /\ DOMAIN l = 1 .. In(R) /\ DOMAIN e = 1 .. In(R)
       /\ \A k \in 1 .. In(R) :
            /\ l[k] = IF k \notin SecretOf(R) THEN PublicOf(R, k) ** Delta(Garbler)
                                              ELSE Var(<<"Label", k>>)
            /\ e[k] = Zero
       /\ l = [k \in 1 .. In(R) |-> l[k]] /\ e = [k \in 1 .. In(R) |-> e[k]]
  BY <1>3, <1>5, <1>7, <1>11 DEF PublicLabel
<1>13. ASSUME NEW w, DOMAIN w = 1 .. In(R), w = [k \in 1 .. In(R) |-> w[k]]
       PROVE  IsQueue(w) /\ Len(w) = In(R)
  <2>1. PICK S : S = {w[k] : k \in 1 .. In(R)}
    OBVIOUS
  <2>2. \A k \in 1 .. In(R) : w[k] \in S
    BY <2>1
  <2>3. w \in [1 .. In(R) -> S]
    BY <1>13, <2>2
  <2>4. w \in Seq(S)
    BY <1>7, <2>3, FunIsSeq
  <2> QED
    BY <1>7, <1>13, <2>4, LenProperties DEF IsQueue
<1>14. IsQueue(l) /\ Len(l) = In(R) /\ IsQueue(e) /\ Len(e) = In(R)
  BY <1>12, <1>13
<1>15. IsQueue(<<>>) /\ Len(<<>>) = 0
  <2>1. <<>> \in Seq({})
    OBVIOUS
  <2> QED
    BY <2>1 DEF IsQueue
<1>16. LabelsAre(R, 0, l) /\ EvalLabelsAre(R, 0, e)
  <2>1. ASSUME NEW k \in 1 .. In(R) PROVE IsBlock(l[k])
    <3>1. IsBit(PublicOf(R, k))
      BY BitClosed DEF PublicOf, ConstBit
    <3>2. IsBlock(PublicOf(R, k) ** Delta(Garbler))
      BY <3>1, BlockClosed, Variables
    <3> QED
      BY <1>12, <3>2, Variables
  <2>2. In(R) + 0 = In(R) /\ 1 .. 0 = {}
    BY <1>7
  <2>3. LabelsAre(R, 0, l)
    <3>1. \A k \in 1 .. In(R) : k \notin SecretOf(R) => l[k] = PublicOf(R, k) ** Delta(Garbler)
      BY <1>12
    <3> QED
      BY <1>14, <2>1, <2>2, <3>1 DEF LabelsAre
  <2>4. EvalLabelsAre(R, 0, e)
    <3>1. \A k \in 1 .. In(R) : e[k] = Zero
      BY <1>12
    <3> QED
      BY <1>14, <2>2, <3>1 DEF EvalLabelsAre
  <2> QED
    BY <2>3, <2>4
<1>17. ListsLambdas(R, 0, <<>>) /\ ListsWitnesses(R, 0, <<>>)
  <2>1. \A j \in 1 .. 0 : FALSE
    OBVIOUS
  <2> QED
    BY <1>7, <1>15, <2>1 DEF ListsLambdas, ListsWitnesses
<1>18. ASSUME NEW p \in Party PROVE Stands(R, p) /\ CountsOk(R, p)
  <2>1. /\ at[p] = a /\ pc[p] = 0 /\ seed[p] = <<>> /\ Lambda_AND[p] = <<>> /\ M1_t[p] = <<>>
        /\ seen[p] = [c \in Channel |-> 0]
    BY <1>5
  <2>2. Stands(R, p)
    <3>1. CASE p = Garbler
      <4>1. Garbled(R, a, 0) = 0
        BY <1>8 DEF Garbled
      <4>2. GarblerState(R, a, 0, shr[p], msk[p], lab[p], <<>>, <<>>, <<>>)
        BY <1>8, <1>9, <1>10, <1>11, <1>16, <1>17, <3>1, <4>1 DEF GarblerState, GarblerSteps
      <4> QED
        BY <2>1, <3>1, <4>2 DEF Stands, PartyState
    <3>2. CASE p = Evaluator
      <4>1. EvaluatorState(R, a, 0, shr[p], msk[p], lab[p], <<>>, <<>>, <<>>)
        BY <1>8, <1>9, <1>10, <1>11, <1>16, <1>17, <3>2 DEF EvaluatorState, EvaluatorSteps
      <4> QED
        BY <1>7, <2>1, <3>2, <4>1 DEF Stands, PartyState
    <3> QED
      BY <3>1, <3>2, ChannelEnds
  <2>3. CountsOk(R, p)
    <3>1. ASSUME NEW c \in Channel PROVE CountIn(R, p, a, 0, c) = 0
      <4>1. CountIn(R, p, "inputs", 0, c) = 0 /\ CountIn(R, p, "seed", 0, c) = Tally(R, c, 0, 0)
        BY <1>2, CountsAre
      <4>2. SecretOf(R) = {} => Tally(R, c, 0, 0) = 0
        BY DEF Tally, Base, SibOf
      <4> QED
        BY <1>8, <4>1, <4>2
    <3>2. CountedTo(R, p, a, 0) = [c \in Channel |-> 0]
      BY <3>1 DEF CountedTo
    <3> QED
      BY <2>1, <3>2 DEF CountsOk
  <2> QED
    BY <2>2, <2>3
<1>19. Matches(R)
  <2>1. ASSUME a \notin {"inputs", "open", "labels"}, NEW k \in Wires(R), k <= In(R)
        PROVE  e[k] = l[k] ++ (LambdaIn(R, k) ** Delta(Garbler))
    <3>1. k \in 1 .. In(R) /\ SecretOf(R) = {}
      BY <1>7, <1>8, <2>1 DEF Wires
    <3>2. /\ e[k] = Zero /\ l[k] = PublicOf(R, k) ** Delta(Garbler)
          /\ LambdaIn(R, k) = PublicOf(R, k)
      BY <1>2, <1>12, <3>1, LambdasOfRun
    <3>3. \A x : x ++ x = Zero
      BY DEF ++, XorBit, SymDiff, Zero
    <3> QED
      BY <3>2, <3>3
  <2>2. \A j \in 1 .. 0 : FALSE
    OBVIOUS
  <2>3. LabelsAgree(R, 0, l, a, 0, e)
    BY <1>7, <2>1, <2>2 DEF LabelsAgree
  <2>4. Garbled(R, a, 0) = 0
    BY <1>8 DEF Garbled
  <2>5. at[Garbler] = a /\ at[Evaluator] = a /\ pc[Garbler] = 0 /\ pc[Evaluator] = 0
    BY <1>5, <1>7
  <2> QED
    BY <1>11, <2>3, <2>4, <2>5 DEF Matches
<1>20. ChannelsOk(R)
  <2>1. ASSUME NEW c \in Channel
        PROVE  Carries(R, lab[Garbler], c, wire[c], seen[WriterOf(c)][c], seen[ReaderOf(c)][c])
    <3>1. wire[c] = <<>> /\ seen[WriterOf(c)][c] = 0 /\ seen[ReaderOf(c)][c] = 0
      BY <1>5, ChannelEnds
    <3>2. Carries(R, lab[Garbler], c, <<>>, 0, 0)
      BY <1>15 DEF Carries
    <3> QED
      BY <3>1, <3>2
  <2> QED
    BY <2>1 DEF ChannelsOk
<1>21. ValuesAre(R, at[Evaluator], val)
  BY <1>5, <1>7, <1>8 DEF ValuesAre
<1>22. RunInv(R)
  BY <1>2, <1>6, <1>18, <1>19, <1>20, <1>21 DEF RunInv
<1> QED
  BY <1>2, <1>22 DEF ProtocolInv

(* Nothing happens.                                                        *)
LEMMA RunStays == ASSUME NEW R, RunInv(R), UNCHANGED vars PROVE RunInv(R)'
BY DEF RunInv, Running, Tables, Stands, CountsOk, Matches, ChannelsOk, vars, wires, gamma, comm

(* Every step of either party keeps the invariant.                         *)
LEMMA StepRun == SeedInv /\ ProtocolInv /\ [Next]_vars => ProtocolInv'
<1> SUFFICES ASSUME SeedInv, ProtocolInv, [Next]_vars PROVE ProtocolInv'
  OBVIOUS
<1>1. PICK R : RunInv(R) /\ R \in Runs
  BY DEF ProtocolInv, RunInv
<1>2. RunInv(R)'
  <2>1. CASE \E p \in Party : InputsSend(p)
    BY <1>1, <2>1, InputsSendKeeps
  <2>2. CASE \E p \in Party : InputsRecv(p)
    BY <1>1, <2>2, InputsRecvKeeps
  <2>3. CASE \E p \in Party : Prepare(p)
    BY <1>1, <2>3, PrepareKeeps
  <2>4. CASE LabelsSend \/ LabelsRecv
    BY <1>1, <2>4, LabelsSendKeeps, LabelsRecvKeeps
  <2>5. CASE GarbleFabric \/ GarbleAnd \/ GarbleDone
    BY <1>1, <2>5, GarbleFabricKeeps, GarbleAndKeeps, GarbleDoneKeeps
  <2>6. CASE EvaluateFabric \/ EvaluateAnd \/ EvaluateDone
    BY <1>1, <2>6, EvaluateFabricKeeps, EvaluateAndKeeps, EvaluateDoneKeeps
  <2>7. CASE LambdaRecv \/ GammaGate \/ GammaDone \/ GammaVerify
    BY <1>1, <2>7, LambdaRecvKeeps, GammaGateKeeps, GammaDoneKeeps, GammaVerifyKeeps
  <2>8. CASE DecodeSend \/ DecodeRecv \/ BroadcastSend \/ BroadcastRecv
    BY <1>1, <2>8, DecodeSendKeeps, DecodeRecvKeeps, BroadcastSendKeeps, BroadcastRecvKeeps
  <2>9. CASE UNCHANGED vars
    BY <1>1, <2>9, RunStays
  <2> QED
    BY <2>1, <2>2, <2>3, <2>4, <2>5, <2>6, <2>7, <2>8, <2>9 DEF Next, Finished
<1> QED
  BY <1>1, <1>2 DEF ProtocolInv
-------------------------------------------------------------------------------
(* What the invariant says.                                                *)
LEMMA QueueDomain == ASSUME NEW w, IsQueue(w) PROVE DOMAIN w = 1 .. Len(w) /\ Len(w) \in Nat
BY DEF IsQueue

(* Of the labels, the masks, the checks and the outputs:                   *)
LEMMA RunMatches == ASSUME NEW R \in Runs, RunInv(R) PROVE LabelsMatch
<1> SUFFICES ASSUME At(Evaluator, "evaluate"), NEW k \in DOMAIN lab[Evaluator],
                    k \in DOMAIN lab[Garbler]
             PROVE  lab[Evaluator][k] = lab[Garbler][k] ++ (msk[Evaluator][k] ** Delta(Garbler))
  BY DEF LabelsMatch
<1>1. PICK g, n : g = Garbled(R, at[Garbler], pc[Garbler]) /\ n = pc[Evaluator]
  OBVIOUS
<1>2. at[Evaluator] = "evaluate" /\ at[Evaluator] \notin Early
  BY DEF At, Early
<1>3. /\ n \in 0 .. Size(R) /\ EvalLabelsAre(R, n, lab[Evaluator]) /\ MasksTo(R, n, msk[Evaluator])
      /\ g \in 0 .. Size(R) /\ In(R) \in Nat /\ Size(R) \in Nat /\ Len(lab[Garbler]) = In(R) + g
  BY <1>1, <1>2, EvaluatesWith, GarblerGrows
<1>4. IsQueue(lab[Garbler]) /\ IsQueue(lab[Evaluator]) /\ Len(lab[Evaluator]) = In(R) + n
  BY <1>3, PartiesAre DEF GarblerState, LabelsAre, EvalLabelsAre
<1>5. k \in 1 .. (In(R) + n) /\ k \in 1 .. (In(R) + g)
  BY <1>3, <1>4, QueueDomain
<1>6. k \in Wires(R) /\ k <= In(R) + n /\ k <= In(R) + g
  BY <1>3, <1>5 DEF Wires
<1>7. LabelsAgree(R, g, lab[Garbler], at[Evaluator], n, lab[Evaluator])
  BY <1>1, PartiesAre DEF Matches
<1>8. lab[Evaluator][k] = lab[Garbler][k] ++ (LambdaIn(R, k) ** Delta(Garbler))
  BY <1>2, <1>6, <1>7 DEF LabelsAgree, Early
<1>9. msk[Evaluator][k] = LambdaIn(R, k)
  BY <1>3, <1>6 DEF MasksTo
<1> QED
  BY <1>8, <1>9

(* at every step a party has the masks it should have,                     *)
LEMMA RunMasks == ASSUME NEW R \in Runs, RunInv(R) PROVE MasksCorrect
<1>1. /\ Clear = ClearIn(R) /\ DrawsOf = DrawsIn(R) /\ NumAnds = NumAndsOf(R)
      /\ In(R) \in Nat /\ Size(R) \in Nat
  BY PartiesAre, NamesAre, ProgramOk
<1>2. \A k : LambdaIn(R, k) = Clear[k] ++ MaskOf(DrawsOf[k])
  BY <1>1 DEF LambdaIn, MaskIn
<1>3. ASSUME at[Evaluator] \notin {"inputs", "open"}, NEW k \in DOMAIN lab[Evaluator]
      PROVE  msk[Evaluator][k] = LambdaIn(R, k)
  <2>1. PICK a, n : a = at[Evaluator] /\ n = pc[Evaluator]
    OBVIOUS
  <2>2. EvaluatorState(R, a, n, shr[Evaluator], msk[Evaluator], lab[Evaluator],
                       seed[Evaluator], Lambda_AND[Evaluator], M1_t[Evaluator])
    BY <2>1, PartiesAre
  <2>3. EvalLabelsAre(R, n, lab[Evaluator]) /\ n \in 0 .. Size(R)
    BY <2>2 DEF EvaluatorState, StepOk
  <2>4. k \in 1 .. (In(R) + n)
    BY <2>3, QueueDomain DEF EvalLabelsAre
  <2>5. CASE a \in Setup
    <3>1. a \in {"labels", "seed"} /\ n = 0
      BY <1>3, <2>1, <2>2, <2>5 DEF Setup, EvaluatorState, StepOk
    <3>2. InputState(R, Evaluator, a, shr[Evaluator], msk[Evaluator]) /\ k \in 1 .. In(R)
      BY <1>1, <2>2, <2>4, <2>5, <3>1 DEF EvaluatorState
    <3> QED
      BY <3>1, <3>2 DEF InputState
  <2>6. CASE a \notin Setup
    <3>1. MasksTo(R, n, msk[Evaluator])
      BY <2>2, <2>6 DEF EvaluatorState
    <3>2. k \in Wires(R) /\ k <= In(R) + n
      BY <1>1, <2>3, <2>4 DEF Wires
    <3> QED
      BY <3>1, <3>2 DEF MasksTo
  <2> QED
    BY <2>5, <2>6
<1>4. ASSUME At(Garbler, "decode"), NumAnds > 0, NEW k \in DOMAIN msk[Garbler]
      PROVE  msk[Garbler][k] = LambdaIn(R, k)
  <2>1. NumAndsOf(R) # 0 /\ at[Garbler] = "decode" /\ Garbler \in Party
    BY <1>1, <1>4, IoNumbers, ChannelEnds DEF At
  <2>2. MasksTo(R, Size(R), msk[Garbler])
    BY <2>1, DecodesWith
  <2>3. k \in Wires(R)
    BY <2>2 DEF MasksTo
  <2>4. k <= In(R) + Size(R)
    BY <1>1, <2>3 DEF Wires
  <2> QED
    BY <2>2, <2>3, <2>4 DEF MasksTo
<1> QED
  BY <1>2, <1>3, <1>4 DEF MasksCorrect

(* The garbler has a witness only after it got the evaluator's Lambda_AND, *)
(* and then the evaluator has them all.                                    *)
LEMMA WitnessesMet ==
    ASSUME NEW R \in Runs, RunInv(R), SeedInv, NEW j \in DOMAIN M1_t[Garbler]
    PROVE  M1_t[Garbler][j] = M1_t[Evaluator][j]
<1>1. PICK a, n : a = at[Garbler] /\ n = pc[Garbler]
  OBVIOUS
<1>2. PICK b, m : b = at[Evaluator] /\ m = pc[Evaluator]
  OBVIOUS
<1>3. GarblerState(R, a, n, shr[Garbler], msk[Garbler], lab[Garbler], seed[Garbler],
                   Lambda_AND[Garbler], M1_t[Garbler])
  BY <1>1, PartiesAre
<1>4. PICK h : /\ h = IF a \in {"gamma", "decode", "broadcast", "done"} THEN n ELSE 0
               /\ ListsWitnesses(R, h, M1_t[Garbler])
  BY <1>3 DEF GarblerState
<1>5. h \in 0 .. Size(R) /\ Size(R) \in Nat /\ Ands(R, 0) = 0
  BY <1>3, <1>4, ProgramOk, AndsAre DEF GarblerState, StepOk
<1>6. j \in 1 .. Ands(R, h)
  BY <1>4, QueueDomain DEF ListsWitnesses
<1>7. PICK i \in 1 .. h : IsAnd(R, i) /\ Ands(R, i) = j
  BY <1>5, <1>6, AndNumbers
<1>8. i \in 1 .. Size(R) /\ GateOf(R, i).op = "And" /\ a \in {"gamma", "decode", "broadcast", "done"}
  BY <1>4, <1>5, <1>7 DEF IsAnd
<1>9. NumAndsOf(R) \in Nat /\ NumAndsOf(R) > 0 /\ Extra(R) = 1
  <2>1. Ands(R, i) \in Nat /\ Ands(R, i) >= 1 /\ Ands(R, i) <= NumAndsOf(R) /\ NumAndsOf(R) \in Nat
    BY <1>8, IoNumbers
  <2> QED
    BY <2>1, IoNumbers
<1>10. /\ seen \in [Party -> [Channel -> Nat]] /\ "io_back" \in Channel
       /\ Garbler \in Party /\ Evaluator \in Party
       /\ WriterOf("io_back") = Evaluator /\ ReaderOf("io_back") = Garbler
       /\ CountsOk(R, Garbler) /\ CountsOk(R, Evaluator) /\ ChannelsOk(R)
  BY ChannelEnds DEF SeedInv, RunInv
<1>11. PICK r, s, w : /\ r = seen[Garbler]["io_back"] /\ s = seen[Evaluator]["io_back"]
                      /\ w = wire["io_back"]
  OBVIOUS
<1>12. Carries(R, lab[Garbler], "io_back", w, s, r) /\ r \in Nat /\ s \in Nat
  BY <1>10, <1>11 DEF ChannelsOk
<1>13. s >= r
  <2>1. Len(w) \in Nat /\ r + Len(w) = s
    BY <1>12, QueueDomain DEF Carries
  <2> QED
    BY <1>12, <2>1
<1>14. r = BackCount(R, a) /\ s = BackCount(R, b)
  BY <1>1, <1>2, <1>10, <1>11 DEF CountsOk, CountedTo, CountIn
<1>15. r >= 1
  BY <1>8, <1>9, <1>14 DEF BackCount
<1>16. EvaluatorState(R, b, m, shr[Evaluator], msk[Evaluator], lab[Evaluator], seed[Evaluator],
                      Lambda_AND[Evaluator], M1_t[Evaluator])
  BY <1>2, PartiesAre
<1>17. b \in {"c_gamma", "decode", "broadcast", "done"}
  <2>1. BackCount(R, b) # 0
    BY <1>12, <1>13, <1>14, <1>15
  <2>2. b # "gamma"
    BY <1>16 DEF EvaluatorState, EvaluatorSteps, Setup
  <2> QED
    BY <2>1, <2>2 DEF BackCount
<1>18. m = Size(R) /\ ListsWitnesses(R, m, M1_t[Evaluator])
  BY <1>16, <1>17 DEF EvaluatorState, StepOk
<1>19. M1_t[Garbler][Ands(R, i)] = WitnessIn(R, i)
  BY <1>4, <1>7, <1>8 DEF ListsWitnesses
<1>20. M1_t[Evaluator][Ands(R, i)] = WitnessIn(R, i)
  BY <1>8, <1>18 DEF ListsWitnesses
<1> QED
  BY <1>7, <1>19, <1>20

(* no party is at abort,                                                   *)
LEMMA RunGoesOn == ASSUME NEW R \in Runs, RunInv(R), SeedInv PROVE NoHonestAbort
<1>1. \A p \in Party : at[p] # "abort"
  <2>1. at[Garbler] \in GarblerSteps /\ at[Evaluator] \in EvaluatorSteps
    BY PartiesAre DEF GarblerState, EvaluatorState
  <2> QED
    BY <2>1, ChannelEnds DEF GarblerSteps, EvaluatorSteps, Setup
<1>2. \A j \in DOMAIN M1_t[Garbler] : M1_t[Garbler][j] = M1_t[Evaluator][j]
  BY WitnessesMet
<1> QED
  BY <1>1, <1>2 DEF NoHonestAbort

(* and what decode returned is right.                                      *)
LEMMA RunValues == ASSUME NEW R \in Runs, RunInv(R) PROVE DecodeCorrect
<1>1. /\ Clear = ClearIn(R) /\ NumAnds = NumAndsOf(R) /\ prog = R.prog /\ recipient = R.recipient
  BY PartiesAre, NamesAre
<1>2. ASSUME NEW p \in Party, val[p] # <<>>, recipient # Garbler \/ NumAnds > 0
      PROVE  val[p] = [k \in DOMAIN prog.outputs |-> Clear[prog.outputs[k] + 1]]
  <2>1. Decodes(R)
    BY <1>1, <1>2 DEF Decodes
  <2>2. val[p] = ClearOuts(R)
    BY <1>2, <2>1, PartiesAre DEF ValuesAre
  <2> QED
    BY <1>1, <2>2 DEF ClearOuts
<1> QED
  BY <1>2 DEF DecodeCorrect

(* All of it, for whatever run this is.                                    *)
LEMMA RunInvIs == SeedInv /\ ProtocolInv => LabelsMatch /\ MasksCorrect /\ NoHonestAbort /\ DecodeCorrect
<1> SUFFICES ASSUME SeedInv, ProtocolInv PROVE LabelsMatch /\ MasksCorrect /\ NoHonestAbort /\ DecodeCorrect
  OBVIOUS
<1>1. PICK R : RunInv(R) /\ R \in Runs
  BY DEF ProtocolInv, RunInv
<1> QED
  BY <1>1, RunMatches, RunMasks, RunGoesOn, RunValues

(* On every wire the evaluator has reached and the garbler has garbled,    *)
(* its label is the garbler's, plus Delta iff Lambda is 1: what lets it    *)
(* open the next row (evaluate, pass_ctx.h), for every program and every   *)
(* interleaving of the two parties.                                        *)
THEOREM RunLabelsMatch == Spec => []LabelsMatch
BY InitSeedInv, StepSeedInv, InitRun, StepRun, RunInvIs, PTL DEF Spec

(* The Lambda that the evaluator gets from the bit of the row and LSB1 of  *)
(* its label, and the one the garbler gets from Lambda_AND in the c_gamma  *)
(* exchange, is the clear value of the wire plus its mask.                 *)
THEOREM RunMasksCorrect == Spec => []MasksCorrect
BY InitSeedInv, StepSeedInv, InitRun, StepRun, RunInvIs, PTL DEF Spec

(* Between two parties that follow the protocol no check fails: neither    *)
(* feq_check's hashes of the openings nor the c_gamma witnesses, which one *)
(* party makes of its MACs and the other of its keys.                      *)
THEOREM RunNeverAborts == Spec => []NoHonestAbort
BY InitSeedInv, StepSeedInv, InitRun, StepRun, RunInvIs, PTL DEF Spec

(* decode gives the clear outputs of the program to the party that opens   *)
(* them, and by the broadcast of a PUBLIC reveal to the other.             *)
THEOREM RunDecodes == Spec => []DecodeCorrect
BY InitSeedInv, StepSeedInv, InitRun, StepRun, RunInvIs, PTL DEF Spec
================================================================================
