--------------------------- MODULE SlotPasses_proofs ---------------------------
(***************************************************************************)
(* Proofs about SlotPasses, for every set of canonical programs and both   *)
(* parties: recycling slots never lets two needed wires meet, and the      *)
(* passes over the slots return what module Engine says of the program.    *)
(***************************************************************************)
EXTENDS SlotPasses, Engine_proofs

(* The gate that defines wire v of program p, and the value of gi when it  *)
(* runs: the gates before it that are not constants.                       *)
GateOf(p, v) == p.gates[v - p.num_inputs + 1]
Counted(p, v) == {i \in 1 .. (v - p.num_inputs) : ~IsConst(p.gates[i])}
GI(p, v) == Cardinality(Counted(p, v))

(* The wires before n that a gate from n on, or the end of the run, still  *)
(* reads, if lu and ps are their last uses and whether they are permanent. *)
LiveAt(p, lu, ps, n) == {w \in 0 .. (n - 1) : ps[w] \/ lu[w] >= GI(p, n)}

(* Liveness of the first n wires: inputs and AND outputs are permanent,    *)
(* and no gate reads a wire after its last use.                            *)
LiveTo(p, lu, ps, n) ==
    /\ lu \in [0 .. (n - 1) -> Int] /\ ps \in [0 .. (n - 1) -> BOOLEAN]
    /\ \A w \in 0 .. (p.num_inputs - 1) : ps[w]
    /\ \A v \in p.num_inputs .. (n - 1) :
         /\ GateOf(p, v).op = "And" => ps[v]
         /\ \A w \in Reads(GateOf(p, v)) : lu[w] >= GI(p, v)

(* The slots ph of the first n wires, all of them below ns: a wire gets a  *)
(* slot that no wire still needed has, and a permanent wire one that no    *)
(* other wire ever has.                                                    *)
MapTo(p, lu, ps, ph, ns, n) ==
    /\ ns \in Nat /\ p.num_inputs <= ns /\ ph \in [0 .. (p.num_wires - 1) -> Int]
    /\ \A w \in 0 .. (p.num_inputs - 1) : ph[w] = w
    /\ \A w \in 0 .. (n - 1) : ph[w] \in 0 .. (ns - 1)
    /\ \A v \in 0 .. (n - 1) : \A w \in 0 .. (v - 1) :
         ps[v] \/ ps[w] \/ lu[w] >= GI(p, v) => ph[w] # ph[v]

(* The freelist fl: slots below ns, each once, none of a needed wire.      *)
FreeTo(p, lu, ps, ph, ns, fl, n) ==
    /\ fl \in Seq(0 .. (ns - 1)) /\ IsInjective(fl)
    /\ \A w \in LiveAt(p, lu, ps, n) : \A k \in DOMAIN fl : fl[k] # ph[w]
-------------------------------------------------------------------------------
(* A canonical program: wire v is defined by gate v - num_inputs + 1 and   *)
(* reads only earlier wires.                                               *)
LEMMA Canonical ==
    ASSUME NEW p \in Programs
    PROVE  /\ p.num_inputs \in Nat /\ p.num_wires = p.num_inputs + Len(p.gates)
           /\ Len(p.gates) \in Nat /\ p.gates \in Seq(Gate) /\ p.outputs \in Seq(Nat)
           /\ \A k \in DOMAIN p.outputs : p.outputs[k] \in 0 .. (p.num_wires - 1)
           /\ \A v \in p.num_inputs .. (p.num_wires - 1) :
                GateOf(p, v) \in Gate /\ Reads(GateOf(p, v)) \subseteq 0 .. (v - 1)
<1>1. p \in BooleanProgram /\ RecordCanonical(p)
  BY SlotPassesAssumption
<1>2. /\ p.num_inputs \in Nat /\ p.gates \in Seq(Gate) /\ p.outputs \in Seq(Nat)
      /\ Len(p.gates) \in Nat /\ p.num_wires = p.num_inputs + Len(p.gates)
      /\ \A k \in DOMAIN p.outputs : p.outputs[k] \in 0 .. (p.num_wires - 1)
  BY <1>1 DEF BooleanProgram, RecordCanonical, validate_program
<1>3. ASSUME NEW v \in p.num_inputs .. (p.num_wires - 1)
      PROVE  GateOf(p, v) \in Gate /\ Reads(GateOf(p, v)) \subseteq 0 .. (v - 1)
  <2> DEFINE i == v - p.num_inputs + 1
  <2>1. i \in 1 .. Len(p.gates) /\ i \in DOMAIN p.gates
    BY <1>2
  <2>2. ASSUME NEW w \in Reads(p.gates[i]) PROVE w \in 0 .. (v - 1)
    <3>1. \/ w \in 0 .. (p.num_inputs - 1)
          \/ \E j \in 1 .. (i - 1) : p.gates[j].out = w
      BY <1>1, <2>1 DEF RecordCanonical, validate_program
    <3>2. ASSUME NEW j \in 1 .. (i - 1), p.gates[j].out = w PROVE w \in 0 .. (v - 1)
      <4>1. j \in DOMAIN p.gates /\ p.gates[j].out = p.num_inputs + (j - 1)
        <5>1. j \in 1 .. Len(p.gates)
          BY <2>1
        <5> QED
          BY <1>1, <1>2, <5>1 DEF RecordCanonical
      <4> QED
        BY <1>2, <3>2, <4>1
    <3>3. ASSUME w \in 0 .. (p.num_inputs - 1) PROVE w \in 0 .. (v - 1)
      BY <1>2, <3>3
    <3> QED
      BY <3>1, <3>2, <3>3
  <2> QED
    BY <1>2, <2>1, <2>2 DEF GateOf
<1> QED
  BY <1>2, <1>3

(* gi counts the gates that are not constants, and never decreases.        *)
LEMMA GateIndex ==
    ASSUME NEW p \in Programs
    PROVE  /\ \A v \in Int : GI(p, v) \in Nat
           /\ GI(p, p.num_inputs) = 0
           /\ \A v \in p.num_inputs .. (p.num_wires - 1) :
                GI(p, v + 1) = IF IsConst(GateOf(p, v)) THEN GI(p, v) ELSE GI(p, v) + 1
           /\ \A v, w \in Int : v <= w => GI(p, v) <= GI(p, w)
<1>1. p.num_inputs \in Nat
  BY Canonical
<1>2. ASSUME NEW v \in Int PROVE IsFiniteSet(Counted(p, v))
  <2>1. IsFiniteSet(1 .. (v - p.num_inputs))
    BY <1>1, FS_Interval
  <2>2. Counted(p, v) \in SUBSET (1 .. (v - p.num_inputs))
    BY DEF Counted
  <2> QED
    BY <2>1, <2>2, FS_Subset
<1>3. \A v \in Int : GI(p, v) \in Nat
  BY <1>2, FS_CardinalityType DEF GI
<1>4. GI(p, p.num_inputs) = 0
  <2>1. Counted(p, p.num_inputs) = {}
    BY <1>1 DEF Counted
  <2> QED
    BY <2>1, FS_EmptySet DEF GI
<1>5. ASSUME NEW v \in p.num_inputs .. (p.num_wires - 1)
      PROVE  GI(p, v + 1) = IF IsConst(GateOf(p, v)) THEN GI(p, v) ELSE GI(p, v) + 1
  <2> DEFINE i == v - p.num_inputs + 1
  <2>1. i \in Nat \ {0} /\ (v + 1) - p.num_inputs = i /\ v - p.num_inputs = i - 1 /\ v \in Int
    BY <1>1, Canonical
  <2>2. 1 .. i = (1 .. (i - 1)) \cup {i} /\ i \notin 1 .. (i - 1)
    BY <2>1
  <2>3. GateOf(p, v) = p.gates[i]
    BY DEF GateOf
  <2> HIDE DEF i
  <2>4. CASE IsConst(p.gates[i])
    <3>1. Counted(p, v + 1) = Counted(p, v)
      BY <2>1, <2>2, <2>4 DEF Counted
    <3> QED
      BY <2>3, <2>4, <3>1 DEF GI
  <2>5. CASE ~IsConst(p.gates[i])
    <3>1. Counted(p, v + 1) = Counted(p, v) \cup {i} /\ i \notin Counted(p, v)
      BY <2>1, <2>2, <2>5 DEF Counted
    <3> QED
      BY <1>2, <2>1, <2>3, <2>5, <3>1, FS_AddElement DEF GI
  <2> QED
    BY <2>4, <2>5
<1>6. ASSUME NEW v \in Int, NEW w \in Int, v <= w PROVE GI(p, v) <= GI(p, w)
  <2>1. Counted(p, v) \in SUBSET Counted(p, w)
    BY <1>1, <1>6 DEF Counted
  <2> QED
    BY <1>2, <2>1, FS_Subset DEF GI
<1> QED
  BY <1>3, <1>4, <1>5, <1>6

(* The liveness pass: one more gate, and the outputs pinned at the end.    *)
LEMMA LiveGrow ==
    ASSUME NEW p \in Programs, NEW n \in p.num_inputs .. (p.num_wires - 1), NEW lu, NEW ps,
           LiveTo(p, lu, ps, n)
    PROVE  LiveTo(p, [w \in 0 .. n |-> IF w \in Reads(GateOf(p, n)) THEN GI(p, n)
                                       ELSE IF w = n THEN -1 ELSE lu[w]],
                  [w \in 0 .. n |-> IF w = n THEN GateOf(p, n).op = "And" ELSE ps[w]], n + 1)
<1> DEFINE R == Reads(GateOf(p, n))
           lv == [w \in 0 .. n |-> IF w \in R THEN GI(p, n) ELSE IF w = n THEN -1 ELSE lu[w]]
           pv == [w \in 0 .. n |-> IF w = n THEN GateOf(p, n).op = "And" ELSE ps[w]]
<1>1. p.num_inputs \in Nat /\ n \in Nat /\ (n + 1) - 1 = n /\ p.num_wires \in Nat
  BY Canonical
<1>2. \A v \in Int : GI(p, v) \in Nat
  BY GateIndex
<1>3. lu \in [0 .. (n - 1) -> Int] /\ ps \in [0 .. (n - 1) -> BOOLEAN]
  BY DEF LiveTo
<1>4. lv \in [0 .. n -> Int] /\ pv \in [0 .. n -> BOOLEAN]
  <2>1. GI(p, n) \in Int /\ -1 \in Int /\ \A w \in 0 .. n : w # n => w \in 0 .. (n - 1)
    BY <1>1, <1>2
  <2>2. \A w \in 0 .. n : w # n => lu[w] \in Int /\ ps[w] \in BOOLEAN
    BY <1>3, <2>1
  <2> HIDE DEF R
  <2> QED
    BY <2>1, <2>2
<1>5. \A w \in 0 .. (p.num_inputs - 1) : pv[w]
  BY <1>1 DEF LiveTo
<1>6. ASSUME NEW v \in p.num_inputs .. n
      PROVE  /\ GateOf(p, v).op = "And" => pv[v]
             /\ \A w \in Reads(GateOf(p, v)) : lv[w] >= GI(p, v)
  <2>1. CASE v = n
    <3>1. R \subseteq 0 .. (n - 1)
      BY Canonical
    <3>2. GI(p, n) \in Int /\ n \in 0 .. n /\ \A w \in R : w \in 0 .. n
      BY <1>1, <1>2, <3>1
    <3>3. \A w \in R : lv[w] = GI(p, n)
      BY <3>2
    <3>4. pv[n] = (GateOf(p, n).op = "And")
      BY <3>2
    <3> HIDE DEF lv, pv
    <3>5. GateOf(p, n).op = "And" => pv[n]
      BY <3>4
    <3>6. \A w \in Reads(GateOf(p, n)) : lv[w] >= GI(p, n)
      BY <3>2, <3>3
    <3> QED
      BY <2>1, <3>5, <3>6
  <2>2. CASE v \in p.num_inputs .. (n - 1)
    <3>1. GateOf(p, v).op = "And" => pv[v]
      BY <1>1, <2>2 DEF LiveTo
    <3>2. ASSUME NEW w \in Reads(GateOf(p, v)) PROVE lv[w] >= GI(p, v)
      <4>1. lu[w] >= GI(p, v)
        BY <2>2 DEF LiveTo
      <4>2. w \in 0 .. (v - 1)
        BY <1>1, <2>2, Canonical
      <4>3. GI(p, v) <= GI(p, n)
        BY <1>1, <2>2, GateIndex
      <4>4. lv[w] = IF w \in R THEN GI(p, n) ELSE lu[w]
        BY <1>1, <2>2, <4>2
      <4>5. GI(p, v) \in Nat /\ GI(p, n) \in Nat
        BY <1>1, <1>2
      <4> HIDE DEF lv, R
      <4> QED
        BY <4>1, <4>3, <4>4, <4>5
    <3> QED
      BY <3>1, <3>2
  <2> QED
    BY <1>1, <2>1, <2>2
<1> HIDE DEF lv, pv
<1>7. LiveTo(p, lv, pv, n + 1)
  BY <1>1, <1>4, <1>5, <1>6 DEF LiveTo
<1> QED
  BY <1>7 DEF lv, pv

(* Pinning more wires keeps the liveness table right.                      *)
LEMMA LivePinned ==
    ASSUME NEW p \in Programs, NEW lu, NEW ps, LiveTo(p, lu, ps, p.num_wires),
           NEW pv \in [0 .. (p.num_wires - 1) -> BOOLEAN],
           \A w \in 0 .. (p.num_wires - 1) : ps[w] => pv[w]
    PROVE  LiveTo(p, lu, pv, p.num_wires)
<1>1. p.num_inputs \in Nat /\ p.num_wires \in Nat /\ p.num_inputs <= p.num_wires
  BY Canonical
<1> QED
  BY <1>1 DEF LiveTo

(* Two wires that are both still needed have different slots.              *)
LEMMA LiveApart ==
    ASSUME NEW p \in Programs, NEW n \in p.num_inputs .. p.num_wires, NEW lu, NEW ps, NEW ph, NEW ns,
           LiveTo(p, lu, ps, p.num_wires), MapTo(p, lu, ps, ph, ns, n),
           NEW v \in LiveAt(p, lu, ps, n), NEW w \in LiveAt(p, lu, ps, n), ph[v] = ph[w]
    PROVE  v = w
<1>1. p.num_inputs \in Nat /\ n \in Nat /\ p.num_wires \in Nat /\ v \in 0 .. (n - 1) /\ w \in 0 .. (n - 1)
  BY Canonical DEF LiveAt
<1>2. ASSUME NEW x \in LiveAt(p, lu, ps, n), NEW y \in 0 .. (n - 1), x < y PROVE ph[x] # ph[y]
  <2>1. x \in 0 .. (n - 1) /\ x \in 0 .. (y - 1)
    BY <1>1, <1>2 DEF LiveAt
  <2>2. ps[x] \/ lu[x] >= GI(p, y)
    <3>1. GI(p, y) <= GI(p, n) /\ GI(p, y) \in Nat /\ GI(p, n) \in Nat
      BY <1>1, GateIndex
    <3>2. lu[x] \in Int
      <4>1. x \in 0 .. (p.num_wires - 1)
        BY <1>1, <2>1
      <4> QED
        BY <4>1 DEF LiveTo
    <3> QED
      BY <3>1, <3>2 DEF LiveAt
  <2> QED
    BY <2>1, <2>2 DEF MapTo
<1>3. v < w \/ w < v \/ v = w
  BY <1>1
<1> QED
  BY <1>1, <1>2, <1>3

(* Wires needed after gate n were needed before it, or are its output.     *)
LEMMA LiveShrinks ==
    ASSUME NEW p \in Programs, NEW n \in p.num_inputs .. (p.num_wires - 1), NEW lu, NEW ps,
           LiveTo(p, lu, ps, p.num_wires), NEW w \in LiveAt(p, lu, ps, n + 1), w # n
    PROVE  w \in LiveAt(p, lu, ps, n)
<1>1. p.num_inputs \in Nat /\ n \in Nat /\ p.num_wires \in Nat
  BY Canonical
<1>2. w \in 0 .. (n - 1) /\ lu[w] \in Int /\ (ps[w] \/ lu[w] >= GI(p, n + 1))
  BY <1>1 DEF LiveAt, LiveTo
<1>3. GI(p, n) <= GI(p, n + 1) /\ GI(p, n) \in Nat /\ GI(p, n + 1) \in Nat
  BY <1>1, GateIndex
<1> QED
  BY <1>2, <1>3 DEF LiveAt

(* What a gate reads is needed until it has run.                           *)
LEMMA ReadsLive ==
    ASSUME NEW p \in Programs, NEW n \in p.num_inputs .. (p.num_wires - 1), NEW lu, NEW ps,
           LiveTo(p, lu, ps, p.num_wires)
    PROVE  Reads(GateOf(p, n)) \subseteq LiveAt(p, lu, ps, n)
BY Canonical DEF LiveTo, LiveAt

(* alloc_slot: a recycled slot, or a new one.                              *)
Allocated(ps, n, ns, fl, a, rest, more_slots) ==
    \/ /\ ~ps[n] /\ fl # <<>>
       /\ a = Last(fl) /\ rest = Front(fl) /\ more_slots = ns
    \/ a = ns /\ rest = fl /\ more_slots = ns + 1

(* The slot is below nt, no needed wire has it and it is no longer free.   *)
Given(p, lu, ps, ph, ns, fl, n, a, rest, nt) ==
    /\ nt \in Nat /\ ns <= nt /\ a \in 0 .. (nt - 1)
    /\ \A w \in LiveAt(p, lu, ps, n) : ph[w] # a
    /\ \A k \in DOMAIN rest : rest[k] # a /\ \E j \in DOMAIN fl : rest[k] = fl[j]
    /\ rest \in Seq(0 .. (nt - 1)) /\ IsInjective(rest)

(* The slot of a new wire is not the slot of a needed one.                 *)
LEMMA MapGrow ==
    ASSUME NEW p \in Programs, NEW n \in p.num_inputs .. (p.num_wires - 1), NEW lu, NEW ps,
           NEW ph, NEW ns, NEW fl, NEW a, NEW rest, NEW nt,
           LiveTo(p, lu, ps, p.num_wires), MapTo(p, lu, ps, ph, ns, n),
           FreeTo(p, lu, ps, ph, ns, fl, n), Allocated(ps, n, ns, fl, a, rest, nt)
    PROVE  /\ MapTo(p, lu, ps, [ph EXCEPT ![n] = a], nt, n + 1)
           /\ Given(p, lu, ps, ph, ns, fl, n, a, rest, nt)
<1>1. /\ p.num_inputs \in Nat /\ n \in Nat /\ p.num_wires \in Nat /\ ns \in Nat
      /\ ph \in [0 .. (p.num_wires - 1) -> Int] /\ n \in 0 .. (p.num_wires - 1)
  BY Canonical, SMTT(20) DEF MapTo
<1>2. /\ fl \in Seq(0 .. (ns - 1)) /\ DOMAIN fl = 1 .. Len(fl) /\ Len(fl) \in Nat
      /\ \A i, j \in DOMAIN fl : fl[i] = fl[j] => i = j
      /\ \A k \in DOMAIN fl : fl[k] \in 0 .. (ns - 1)
  <2>1. fl \in Seq(0 .. (ns - 1)) /\ \A i, j \in DOMAIN fl : fl[i] = fl[j] => i = j
    BY DEF FreeTo, IsInjective
  <2>2. DOMAIN fl = 1 .. Len(fl) /\ Len(fl) \in Nat /\ fl \in [1 .. Len(fl) -> 0 .. (ns - 1)]
    BY <2>1, LenProperties
  <2> QED
    BY <2>1, <2>2
<1>3. /\ nt \in Nat /\ ns <= nt /\ a \in 0 .. (nt - 1)
      /\ a = ns \/ (~ps[n] /\ \E k \in DOMAIN fl : a = fl[k])
  <2>1. CASE a = ns /\ rest = fl /\ nt = ns + 1
    BY <1>1, <2>1
  <2>2. CASE /\ ~ps[n] /\ fl # <<>> /\ a = Last(fl) /\ rest = Front(fl) /\ nt = ns
    <3>1. Len(fl) \in DOMAIN fl
      BY <1>2, <2>2
    <3> QED
      BY <1>1, <1>2, <2>2, <3>1 DEF Last
  <2> QED
    BY <2>1, <2>2 DEF Allocated
<1>4. \A w \in 0 .. (n - 1) : ph[w] \in 0 .. (ns - 1)
  BY DEF MapTo
<1>5. \A w \in LiveAt(p, lu, ps, n) : ph[w] # a
  BY <1>1, <1>3, <1>4, SMTT(20) DEF FreeTo, LiveAt
<1>6. /\ rest \in Seq(0 .. (nt - 1)) /\ IsInjective(rest)
      /\ \A k \in DOMAIN rest : rest[k] # a /\ \E j \in DOMAIN fl : rest[k] = fl[j]
  <2>1. CASE a = ns /\ rest = fl /\ nt = ns + 1
    <3>1. \A k \in 1 .. Len(fl) : fl[k] \in 0 .. (nt - 1)
      BY <1>1, <1>2, <2>1
    <3>2. fl \in Seq(0 .. (nt - 1))
      <4>1. 0 .. (ns - 1) \subseteq 0 .. (nt - 1)
        BY <1>1, <2>1
      <4> QED
        BY <1>2, <4>1, SeqMonotonic
    <3> QED
      BY <1>1, <1>2, <2>1, <3>2 DEF IsInjective
  <2>2. CASE /\ ~ps[n] /\ fl # <<>> /\ a = Last(fl) /\ rest = Front(fl) /\ nt = ns
    <3> DEFINE m == Len(fl) - 1
    <3>1. m \in Nat /\ m + 1 = Len(fl) /\ Len(fl) \in DOMAIN fl
      BY <1>2, <2>2
    <3>2. /\ rest \in Seq(0 .. (ns - 1)) /\ Len(rest) = m
          /\ \A k \in 1 .. m : rest[k] = fl[k]
      <4>1. rest = SubSeq(fl, 1, m) /\ \A k \in 1 .. m : fl[k] \in 0 .. (ns - 1)
        <5>1. \A k \in 1 .. m : k \in DOMAIN fl
          BY <1>2
        <5> QED
          BY <1>2, <2>2, <5>1 DEF Front
      <4>2. m \in Int /\ m - 1 + 1 = m /\ \A k \in 1 .. m : 1 + k - 1 = k
        BY <3>1
      <4> HIDE DEF m
      <4> QED
        BY <3>1, <4>1, <4>2, SubSeqProperties
    <3>3. DOMAIN rest = 1 .. m
      BY <3>1, <3>2
    <3> HIDE DEF m
    <3>4. \A k \in 1 .. m : k \in DOMAIN fl /\ k # Len(fl)
      <4>1. DOMAIN fl = 1 .. (m + 1)
        BY <1>2, <3>1
      <4>2. \A k \in 1 .. m : k \in 1 .. (m + 1) /\ k # m + 1
        BY <3>1
      <4> QED
        BY <3>1, <4>1, <4>2
    <3>5. \A k \in DOMAIN rest : rest[k] # a /\ \E j \in DOMAIN fl : rest[k] = fl[j]
      BY <1>2, <2>2, <3>1, <3>2, <3>3, <3>4 DEF Last
    <3>6. IsInjective(rest)
      BY <1>2, <3>2, <3>3, <3>4 DEF IsInjective
    <3> QED
      BY <2>2, <3>2, <3>5, <3>6
  <2> QED
    BY <2>1, <2>2 DEF Allocated
<1> DEFINE pa == [ph EXCEPT ![n] = a]
<1>7. /\ pa \in [0 .. (p.num_wires - 1) -> Int] /\ pa[n] = a
      /\ \A w \in 0 .. (n - 1) : pa[w] = ph[w]
  BY <1>1, <1>3
<1> HIDE DEF pa
<1>8. /\ \A w \in 0 .. (p.num_inputs - 1) : pa[w] = w
      /\ \A w \in 0 .. n : pa[w] \in 0 .. (nt - 1)
  <2>1. \A w \in 0 .. (p.num_inputs - 1) : pa[w] = w
    BY <1>1, <1>7 DEF MapTo
  <2>2. ASSUME NEW w \in 0 .. n PROVE pa[w] \in 0 .. (nt - 1)
    BY <1>1, <1>3, <1>4, <1>7, SMTT(20)
  <2> QED
    BY <2>1, <2>2
<1>9. ASSUME NEW v \in 0 .. n, NEW w \in 0 .. (v - 1), ps[v] \/ ps[w] \/ lu[w] >= GI(p, v)
      PROVE  pa[w] # pa[v]
  <2>1. CASE v \in 0 .. (n - 1)
    <3>1. pa[v] = ph[v] /\ pa[w] = ph[w]
      BY <1>1, <1>7, <2>1
    <3> QED
      BY <1>9, <2>1, <3>1 DEF MapTo
  <2>2. CASE v = n
    <3>1. pa[w] = ph[w] /\ pa[v] = a /\ w \in 0 .. (n - 1) /\ ph[w] \in 0 .. (ns - 1)
      BY <1>4, <1>7, <2>2
    <3>2. CASE a = ns
      BY <1>1, <3>1, <3>2
    <3>3. CASE ~ps[n]
      BY <1>5, <1>9, <2>2, <3>1, <3>3 DEF LiveAt
    <3> QED
      BY <1>3, <3>2, <3>3
  <2> QED
    BY <1>1, <2>1, <2>2
<1>10. MapTo(p, lu, ps, pa, nt, n + 1)
  <2>1. (n + 1) - 1 = n /\ p.num_inputs <= nt
    BY <1>1, <1>3 DEF MapTo
  <2> QED
    BY <1>3, <1>7, <1>8, <1>9, <2>1 DEF MapTo
<1> QED
  BY <1>3, <1>5, <1>6, <1>10 DEF pa, Given
(* Two sequences without repetitions and with nothing in common.           *)
LEMMA ConcatInjective ==
    ASSUME NEW S, NEW s \in Seq(S), NEW t \in Seq(S), IsInjective(s), IsInjective(t),
           \A j \in DOMAIN s, k \in DOMAIN t : s[j] # t[k]
    PROVE  /\ s \o t \in Seq(S) /\ IsInjective(s \o t)
           /\ \A i \in DOMAIN (s \o t) : \/ \E j \in DOMAIN s : (s \o t)[i] = s[j]
                                       \/ \E k \in DOMAIN t : (s \o t)[i] = t[k]
<1> DEFINE c == s \o t
<1>1. /\ c \in Seq(S) /\ DOMAIN c = 1 .. Len(c) /\ DOMAIN s = 1 .. Len(s) /\ DOMAIN t = 1 .. Len(t)
      /\ Len(s) \in Nat /\ Len(t) \in Nat /\ Len(c) = Len(s) + Len(t)
      /\ \A i \in 1 .. Len(s) + Len(t) : c[i] = IF i <= Len(s) THEN s[i] ELSE t[i - Len(s)]
  BY ConcatProperties, LenProperties
<1> HIDE DEF c
<1>2. \A i \in DOMAIN c : \/ i \in DOMAIN s /\ c[i] = s[i]
                          \/ i - Len(s) \in DOMAIN t /\ c[i] = t[i - Len(s)] /\ i \in Int
  BY <1>1
<1>3. ASSUME NEW i \in DOMAIN c, NEW j \in DOMAIN c, c[i] = c[j] PROVE i = j
  <2>1. CASE i \in DOMAIN s /\ c[i] = s[i] /\ j \in DOMAIN s /\ c[j] = s[j]
    BY <1>3, <2>1 DEF IsInjective
  <2>2. CASE /\ i - Len(s) \in DOMAIN t /\ c[i] = t[i - Len(s)] /\ i \in Int
             /\ j - Len(s) \in DOMAIN t /\ c[j] = t[j - Len(s)] /\ j \in Int
    <3>1. i - Len(s) = j - Len(s)
      BY <1>3, <2>2 DEF IsInjective
    <3> QED
      BY <1>1, <2>2, <3>1
  <2> QED
    BY <1>2, <1>3, <2>1, <2>2
<1>4. IsInjective(c)
  BY <1>3 DEF IsInjective
<1> QED
  BY <1>1, <1>2, <1>4 DEF c

(* What gate n frees: slots of operands that die with it, each slot once.  *)
FreedAt(p, lu, ps, ph, ns, n, fr) ==
    /\ fr \in Seq(0 .. (ns - 1)) /\ IsInjective(fr)
    /\ \A k \in DOMAIN fr :
         \E w \in Reads(GateOf(p, n)) : ~ps[w] /\ lu[w] = GI(p, n) /\ fr[k] = ph[w]

(* The freelist after gate n: what alloc_slot left and what the gate frees.*)
LEMMA FreeGrow ==
    ASSUME NEW p \in Programs, NEW n \in p.num_inputs .. (p.num_wires - 1), NEW lu, NEW ps,
           NEW ph, NEW ns, NEW fl, NEW a, NEW rest, NEW nt, NEW fr,
           LiveTo(p, lu, ps, p.num_wires), MapTo(p, lu, ps, ph, ns, n),
           FreeTo(p, lu, ps, ph, ns, fl, n), Allocated(ps, n, ns, fl, a, rest, nt),
           FreedAt(p, lu, ps, ph, ns, n, fr)
    PROVE  FreeTo(p, lu, ps, [ph EXCEPT ![n] = a], nt, rest \o fr, n + 1)
<1> DEFINE pa == [ph EXCEPT ![n] = a]
           S == 0 .. (nt - 1)
           nl == rest \o fr
<1>1. /\ nt \in Nat /\ ns <= nt /\ \A w \in LiveAt(p, lu, ps, n) : ph[w] # a
      /\ \A k \in DOMAIN rest : rest[k] # a /\ \E j \in DOMAIN fl : rest[k] = fl[j]
      /\ rest \in Seq(S) /\ IsInjective(rest)
  <2>1. Given(p, lu, ps, ph, ns, fl, n, a, rest, nt)
    BY MapGrow
  <2> QED
    BY <2>1 DEF Given
<1>2. p.num_inputs \in Nat /\ n \in Nat /\ p.num_wires \in Nat /\ n \in 0 .. (p.num_wires - 1)
  BY Canonical
<1>3. fr \in Seq(S)
  <2>1. ns \in Nat /\ fr \in Seq(0 .. (ns - 1))
    BY DEF MapTo, FreedAt
  <2>2. 0 .. (ns - 1) \subseteq S
    BY <1>1, <2>1
  <2> QED
    BY <2>1, <2>2, SeqMonotonic
<1>4. pa[n] = a /\ \A w \in 0 .. (n - 1) : pa[w] = ph[w]
  BY <1>2 DEF MapTo
<1>5. \A k \in DOMAIN fr : \E w \in LiveAt(p, lu, ps, n) :
        w \notin LiveAt(p, lu, ps, n + 1) /\ fr[k] = ph[w] /\ w # n
  <2>1. ASSUME NEW w \in Reads(GateOf(p, n)), ~ps[w], lu[w] = GI(p, n)
        PROVE  w \in LiveAt(p, lu, ps, n) /\ w \notin LiveAt(p, lu, ps, n + 1) /\ w # n
    <3>1. w \in LiveAt(p, lu, ps, n)
      BY ReadsLive
    <3>2. w # n
      BY <1>2, <3>1 DEF LiveAt
    <3>3. ~IsConst(GateOf(p, n))
      BY DEF Reads
    <3>4. GI(p, n + 1) = GI(p, n) + 1 /\ GI(p, n) \in Nat
      BY <1>2, <3>3, GateIndex
    <3> QED
      BY <2>1, <3>1, <3>2, <3>4 DEF LiveAt
  <2> QED
    BY <2>1 DEF FreedAt
<1>6. \A j \in DOMAIN rest, k \in DOMAIN fr : rest[j] # fr[k]
  <2> SUFFICES ASSUME NEW j \in DOMAIN rest, NEW k \in DOMAIN fr PROVE rest[j] # fr[k]
    OBVIOUS
  <2>1. PICK w \in LiveAt(p, lu, ps, n) : fr[k] = ph[w]
    BY <1>5
  <2>2. PICK i \in DOMAIN fl : rest[j] = fl[i]
    BY <1>1
  <2> QED
    BY <2>1, <2>2 DEF FreeTo
<1> HIDE DEF pa, S, nl
<1>7. /\ nl \in Seq(S) /\ IsInjective(nl)
      /\ \A i \in DOMAIN nl : (\E j \in DOMAIN rest : nl[i] = rest[j]) \/ (\E k \in DOMAIN fr : nl[i] = fr[k])
  <2>1. IsInjective(fr)
    BY DEF FreedAt
  <2> QED
    BY <1>1, <1>3, <1>6, <2>1, ConcatInjective DEF nl
<1>8. ASSUME NEW w \in LiveAt(p, lu, ps, n + 1), NEW i \in DOMAIN nl PROVE nl[i] # pa[w]
  <2>1. CASE w = n
    <3>1. \A k \in DOMAIN fr : fr[k] # a
      BY <1>1, <1>5
    <3> QED
      BY <1>1, <1>4, <1>7, <2>1, <3>1
  <2>2. CASE w # n
    <3>1. w \in LiveAt(p, lu, ps, n) /\ pa[w] = ph[w]
      BY <1>4, <2>2, LiveShrinks DEF LiveAt
    <3>2. \A k \in DOMAIN rest : rest[k] # ph[w]
      BY <1>1, <3>1 DEF FreeTo
    <3>3. ASSUME NEW k \in DOMAIN fr PROVE fr[k] # ph[w]
      <4>1. PICK x \in LiveAt(p, lu, ps, n) : x \notin LiveAt(p, lu, ps, n + 1) /\ fr[k] = ph[x]
        BY <1>5
      <4>2. n \in p.num_inputs .. p.num_wires /\ x # w
        BY <1>2, <4>1
      <4> QED
        BY <3>1, <4>1, <4>2, LiveApart
    <3> QED
      BY <1>7, <3>1, <3>2, <3>3
  <2> QED
    BY <2>1, <2>2
<1> QED
  BY <1>7, <1>8 DEF FreeTo, pa, nl, S
-------------------------------------------------------------------------------
(* The slots arr hold the values val of the wires W, mapped by ph.         *)
HoldsFor(W, arr, ph, val) == \A w \in W : arr[ph[w]] = val[w]

(* A map of the first n wires maps the first m of them.                    *)
LEMMA MapPrefix ==
    ASSUME NEW p \in Programs, NEW n \in Nat, NEW m \in 0 .. n, NEW lu, NEW ps, NEW ph, NEW ns,
           MapTo(p, lu, ps, ph, ns, n)
    PROVE  MapTo(p, lu, ps, ph, ns, m)
<1>1. 0 .. (m - 1) \subseteq 0 .. (n - 1)
  OBVIOUS
<1> QED
  BY <1>1 DEF MapTo

(* A gate writes the slot of its own output, and so leaves alone the slots *)
(* of all other wires that are still needed.                               *)
LEMMA WriteLive ==
    ASSUME NEW p \in Programs, NEW n \in p.num_inputs .. (p.num_wires - 1), NEW lu, NEW ps,
           NEW ph, NEW ns, NEW arr, NEW val, NEW na, NEW nv,
           LiveTo(p, lu, ps, p.num_wires), MapTo(p, lu, ps, ph, ns, n + 1),
           HoldsFor(LiveAt(p, lu, ps, n), arr, ph, val),
           na[ph[n]] = nv[n],
           \A w \in 0 .. (n - 1) : nv[w] = val[w] /\ (ph[w] # ph[n] => na[ph[w]] = arr[ph[w]])
    PROVE  HoldsFor(LiveAt(p, lu, ps, n + 1), na, ph, nv)
<1> SUFFICES ASSUME NEW w \in LiveAt(p, lu, ps, n + 1), w # n PROVE na[ph[w]] = nv[w]
  BY DEF HoldsFor
<1>1. p.num_inputs \in Nat /\ n \in Nat /\ p.num_wires \in Nat /\ (n + 1) - 1 = n /\ n \in 0 .. n
  BY Canonical
<1>2. w \in LiveAt(p, lu, ps, n) /\ w \in 0 .. (n - 1) /\ (ps[w] \/ lu[w] >= GI(p, n))
  BY LiveShrinks DEF LiveAt
<1>3. ph[w] # ph[n]
  BY <1>1, <1>2 DEF MapTo
<1> QED
  BY <1>2, <1>3 DEF HoldsFor

(* The wires that keep their slots to the end.                             *)
Permanent(p, ps) == {w \in 0 .. (p.num_wires - 1) : ps[w]}

(* The same for the permanent wires, once all wires have slots.            *)
LEMMA WritePermanent ==
    ASSUME NEW p \in Programs, NEW n \in p.num_inputs .. (p.num_wires - 1), NEW lu, NEW ps,
           NEW ph, NEW ns, NEW arr, NEW val, NEW na,
           MapTo(p, lu, ps, ph, ns, p.num_wires),
           HoldsFor(Permanent(p, ps), arr, ph, val),
           na[ph[n]] = val[n],
           \A w \in 0 .. (p.num_wires - 1) : ph[w] # ph[n] => na[ph[w]] = arr[ph[w]]
    PROVE  HoldsFor(Permanent(p, ps), na, ph, val)
<1> SUFFICES ASSUME NEW w \in 0 .. (p.num_wires - 1), ps[w], w # n PROVE na[ph[w]] = val[w]
  BY DEF HoldsFor, Permanent
<1>1. p.num_inputs \in Nat /\ n \in Nat /\ p.num_wires \in Nat /\ n \in 0 .. (p.num_wires - 1)
  BY Canonical
<1>2. w \in 0 .. (n - 1) \/ n \in 0 .. (w - 1)
  BY <1>1
<1>3. ph[w] # ph[n]
  BY <1>1, <1>2 DEF MapTo
<1> QED
  BY <1>3 DEF HoldsFor, Permanent
-------------------------------------------------------------------------------
(* free_if_dead: the slot of an operand that dies with the gate.           *)
LEMMA FreedFacts ==
    ASSUME prog \in Programs, wid \in num_in .. (prog.num_wires - 1), gi = GI(prog, wid),
           LiveTo(prog, last_use, persist, prog.num_wires),
           MapTo(prog, last_use, persist, phys, num_slots, wid)
    PROVE  FreedAt(prog, last_use, persist, phys, num_slots, wid, Freed(GateOf(prog, wid)))
<1> DEFINE g == GateOf(prog, wid)
           S == 0 .. (num_slots - 1)
<1>0. <<>> \in Seq(S) /\ IsInjective(<<>>) /\ DOMAIN <<>> = {}
  BY DEF IsInjective
<1>1. g \in Gate /\ \A w \in Reads(g) : w \in LiveAt(prog, last_use, persist, wid) /\ phys[w] \in S
  <2>1. g \in Gate
    BY Canonical DEF num_in
  <2>2. Reads(g) \subseteq LiveAt(prog, last_use, persist, wid)
    BY ReadsLive DEF num_in
  <2> QED
    BY <2>1, <2>2 DEF LiveAt, MapTo
<1>2. \A v, w \in Reads(g) : phys[v] = phys[w] => v = w
  <2>1. wid \in prog.num_inputs .. prog.num_wires
    BY Canonical DEF num_in
  <2> QED
    BY <1>1, <2>1, LiveApart
<1>3. ASSUME NEW w \in Reads(g)
      PROVE  /\ free_if_dead(w) \in Seq(S) /\ IsInjective(free_if_dead(w))
             /\ \A k \in DOMAIN free_if_dead(w) :
                  ~persist[w] /\ last_use[w] = GI(prog, wid) /\ free_if_dead(w)[k] = phys[w]
  <2>1. CASE ~persist[w] /\ last_use[w] = gi
    <3>1. free_if_dead(w) = <<phys[w]>> /\ phys[w] \in S
      BY <1>1, <2>1 DEF free_if_dead
    <3>2. <<phys[w]>> \in Seq(S) /\ DOMAIN <<phys[w]>> = {1} /\ <<phys[w]>>[1] = phys[w]
      BY <3>1
    <3> QED
      BY <2>1, <3>1, <3>2 DEF IsInjective
  <2>2. CASE ~(~persist[w] /\ last_use[w] = gi)
    BY <1>0, <2>2 DEF free_if_dead
  <2> QED
    BY <2>1, <2>2
<1>4. CASE IsConst(g)
  <2>1. Freed(g) = <<>>
    BY <1>4 DEF Freed, IsConst, IsNot
  <2> QED
    BY <1>0, <2>1 DEF FreedAt
<1>5. CASE IsNot(g)
  <2>1. ~IsConst(g) /\ g.in0 \in Reads(g) /\ Freed(g) = free_if_dead(g.in0)
    BY <1>5 DEF Freed, IsNot, IsConst, Reads
  <2> QED
    BY <1>3, <2>1 DEF FreedAt
<1>6. CASE ~IsConst(g) /\ ~IsNot(g)
  <2>1. g.in0 \in Reads(g) /\ g.in1 \in Reads(g)
    BY <1>6 DEF Reads
  <2> DEFINE other == IF g.in1 # g.in0 THEN free_if_dead(g.in1) ELSE <<>>
  <2>2. Freed(g) = free_if_dead(g.in0) \o other
    BY <1>6 DEF Freed
  <2>3. /\ other \in Seq(S) /\ IsInjective(other)
        /\ \A k \in DOMAIN other : /\ ~persist[g.in1] /\ last_use[g.in1] = GI(prog, wid)
                                   /\ other[k] = phys[g.in1] /\ g.in1 # g.in0
    BY <1>0, <1>3, <2>1
  <2>4. \A j \in DOMAIN free_if_dead(g.in0), k \in DOMAIN other : free_if_dead(g.in0)[j] # other[k]
    BY <1>2, <1>3, <2>1, <2>3
  <2> HIDE DEF other, S, g
  <2>5. /\ Freed(g) \in Seq(S) /\ IsInjective(Freed(g))
        /\ \A i \in DOMAIN Freed(g) : \/ \E j \in DOMAIN free_if_dead(g.in0) : Freed(g)[i] = free_if_dead(g.in0)[j]
                                      \/ \E k \in DOMAIN other : Freed(g)[i] = other[k]
    BY <1>3, <2>1, <2>2, <2>3, <2>4, ConcatInjective
  <2>6. \A i \in DOMAIN Freed(g) : \E w \in Reads(g) :
          ~persist[w] /\ last_use[w] = GI(prog, wid) /\ Freed(g)[i] = phys[w]
    BY <1>3, <2>1, <2>3, <2>5
  <2> QED
    BY <2>5, <2>6 DEF FreedAt, g, S
<1> QED
  BY <1>4, <1>5, <1>6
-------------------------------------------------------------------------------
(* The inductive invariant.                                                *)
Passes == {"liveness", "slot", "garble", "evaluate", "gamma", "gather", "done"}
Replays == {"garble", "evaluate", "gamma"}
AfterSlot == {"garble", "evaluate", "gamma", "gather", "done"}

Needed == LiveAt(prog, last_use, persist, wid)

(* The share of a gate that draws none, from those of its operands.        *)
Combine(g, s, t) == IF IsConst(g) THEN {} ELSE IF IsNot(g) THEN s ELSE XorShares(s, t)

(* ws follows the gates: the shares the first n wires should hold.         *)
SharesTo(p, ws, n) ==
    \A v \in p.num_inputs .. (n - 1) :
      GateOf(p, v).op # "And" =>
        ws[v] = Combine(GateOf(p, v), ws[GateOf(p, v).in0], ws[GateOf(p, v).in1])

(* gi is the number of gates so far that are not constants.                *)
PlaceInv ==
    /\ prog \in Programs /\ pass \in Passes
    /\ pc \in 0 .. Len(prog.gates) /\ gi = GI(prog, wid)

LiveInv ==
    /\ pass = "liveness" => LiveTo(prog, last_use, persist, wid)
    /\ pass # "liveness" => LiveTo(prog, last_use, persist, prog.num_wires)

MapInv ==
    /\ pass = "liveness" => freelist = <<>>
    /\ pass = "slot" =>
         /\ MapTo(prog, last_use, persist, phys, num_slots, wid)
         /\ FreeTo(prog, last_use, persist, phys, num_slots, freelist, wid)
    /\ pass \in AfterSlot => MapTo(prog, last_use, persist, phys, num_slots, prog.num_wires)

ShareInv ==
    /\ pass # "liveness" => wire_slot \in [0 .. (num_slots - 1) -> SUBSET Nat]
    /\ pass = "slot" => SharesTo(prog, wshare, wid)
    /\ pass \in Replays \cup {"slot"} => HoldsFor(Needed, wire_slot, phys, wshare)
    /\ pass \in AfterSlot =>
         /\ SharesTo(prog, wshare, prog.num_wires)
         /\ HoldsFor(Permanent(prog, persist), wire_slot, phys, wshare)

(* Each AND so far has taken one draw, in order, and the buffer holds the  *)
(* numbers from the last refill on.                                        *)
DrawInv ==
    /\ rep \in Seq((SUBSET Nat) \X (SUBSET Nat)) /\ lg_buf \in Seq(Nat) /\ lg_off \in 0 .. Len(lg_buf)
    /\ lg_buf = <<>> => rep = <<>>
    /\ \A k \in 1 .. Len(lg_buf) : lg_buf[k] = num_in + Len(rep) - lg_off + k

(* Pass 1 and the garble pass leave the masks of the inputs in place.      *)
MaskInv ==
    /\ pass # "liveness" => DOMAIN mask_input = 0 .. (num_slots - 1)
    /\ pass \in {"slot", "garble"} => HoldsFor(0 .. (num_in - 1), mask_input, phys, wmask)
    /\ pass \in {"evaluate", "gamma"} => HoldsFor(Needed, mask_input, phys, wmask)

IndInv == PlaceInv /\ LiveInv /\ MapInv /\ ShareInv /\ DrawInv /\ MaskInv
-------------------------------------------------------------------------------
(* Combine looks only at what the gate reads.                              *)
LEMMA CombineReads ==
    ASSUME NEW g, NEW s0, NEW s1, NEW t0, NEW t1,
           g.in0 \in Reads(g) => s0 \in SUBSET Nat /\ t0 = s0,
           g.in1 \in Reads(g) => s1 \in SUBSET Nat /\ t1 = s1
    PROVE  Combine(g, s0, s1) \in SUBSET Nat /\ Combine(g, s0, s1) = Combine(g, t0, t1)
<1>1. CASE IsConst(g)
  BY <1>1 DEF Combine
<1>2. CASE ~IsConst(g) /\ IsNot(g)
  BY <1>2 DEF Combine, Reads
<1>3. CASE ~IsConst(g) /\ ~IsNot(g)
  BY <1>3 DEF Combine, Reads, XorShares, SymDiff
<1> QED
  BY <1>1, <1>2, <1>3

(* A fabric share is the combination of its operands' shares.              *)
LEMMA FabricIsCombine ==
    ASSUME NEW g \in Gate, g.op # "And"
    PROVE  /\ FabricShare(g, Share) = Combine(g, Share(g.in0), Share(g.in1))
           /\ FabricShare(g, LogicalShare) = Combine(g, wshare[g.in0], wshare[g.in1])
<1>1. IsConst(g) \/ g.op = "Not" \/ g.op = "Xor"
  BY DEF Gate, Op, IsConst
<1>2. CASE IsConst(g)
  BY <1>2 DEF FabricShare, Combine, IsConst
<1>3. CASE g.op = "Not"
  BY <1>3 DEF FabricShare, Combine, IsConst, IsNot, LogicalShare
<1>4. CASE g.op = "Xor"
  BY <1>4 DEF FabricShare, Combine, IsConst, IsNot, LogicalShare
<1> QED
  BY <1>1, <1>2, <1>3, <1>4

(* Where a pass is: its next gate defines wire wid.                        *)
LEMMA AtGate ==
    ASSUME PlaceInv, more
    PROVE  /\ wid \in prog.num_inputs .. (prog.num_wires - 1) /\ Now = GateOf(prog, wid)
           /\ Now \in Gate /\ wid \in Nat /\ (wid + 1) - 1 = wid /\ wid \in 0 .. (prog.num_wires - 1)
           /\ num_in = prog.num_inputs /\ num_in \in Nat /\ num_in <= wid /\ prog.num_wires \in Nat
<1>1. /\ num_in = prog.num_inputs /\ num_in \in Nat /\ prog.num_wires = num_in + Len(prog.gates)
      /\ Len(prog.gates) \in Nat /\ pc \in Nat /\ pc < Len(prog.gates)
  BY Canonical DEF PlaceInv, num_in, more
<1>2. /\ wid \in prog.num_inputs .. (prog.num_wires - 1) /\ wid \in Nat /\ num_in <= wid
      /\ wid \in 0 .. (prog.num_wires - 1) /\ (wid + 1) - 1 = wid /\ wid - num_in + 1 = pc + 1
  BY <1>1 DEF wid
<1>3. Now = GateOf(prog, wid)
  BY <1>1, <1>2 DEF Now, GateOf
<1>4. Now \in Gate
  BY <1>2, <1>3, Canonical DEF PlaceInv
<1> QED
  BY <1>1, <1>2, <1>3, <1>4

(* A pass moves on to the next gate.                                       *)
LEMMA StepPlace ==
    ASSUME PlaceInv, more, Step, prog' = prog, pass' = pass
    PROVE  PlaceInv' /\ wid' = wid + 1
<1>1. /\ pc \in Nat /\ pc < Len(prog.gates) /\ Len(prog.gates) \in Nat /\ num_in \in Nat
      /\ pc' = pc + 1 /\ num_in' = num_in
  BY Canonical DEF PlaceInv, more, Step, num_in
<1>2. pc' \in 0 .. Len(prog.gates)
  BY <1>1
<1>3. wid' = wid + 1
  BY <1>1 DEF wid
<1>4. gi' = GI(prog, wid + 1)
  BY AtGate, GateIndex DEF PlaceInv, Step
<1> QED
  BY <1>2, <1>3, <1>4 DEF PlaceInv

(* The end of a pass: all its gates are done, and the next one starts.     *)
LEMMA NextPlace ==
    ASSUME PlaceInv, ~more, NEW q \in Passes, NextPass(q), prog' = prog
    PROVE  /\ PlaceInv' /\ wid' = num_in /\ wid = prog.num_wires /\ pass' = q
           /\ num_in = prog.num_inputs /\ num_in' = num_in /\ num_in \in Nat /\ prog.num_wires \in Nat
           /\ num_in <= prog.num_wires
<1>1. /\ pc \in 0 .. Len(prog.gates) /\ ~(pc < Len(prog.gates)) /\ Len(prog.gates) \in Nat /\ num_in \in Nat
      /\ pc' = 0 /\ gi' = 0 /\ num_in' = num_in /\ num_in = prog.num_inputs
      /\ prog.num_wires = num_in + Len(prog.gates) /\ pass' = q
  BY Canonical DEF PlaceInv, more, NextPass, num_in
<1>2. /\ wid' = num_in /\ wid = prog.num_wires /\ prog.num_wires \in Nat /\ num_in <= prog.num_wires
      /\ pc' \in 0 .. Len(prog.gates)
  BY <1>1 DEF wid
<1>3. GI(prog, num_in) = 0
  BY <1>1, GateIndex DEF PlaceInv
<1> QED
  BY <1>1, <1>2, <1>3 DEF PlaceInv

(* The first wires are all inputs, which are permanent.                    *)
LEMMA InputsLive ==
    ASSUME NEW p \in Programs, NEW n \in p.num_inputs .. p.num_wires, NEW lu, NEW ps,
           LiveTo(p, lu, ps, p.num_wires)
    PROVE  /\ 0 .. (p.num_inputs - 1) \subseteq LiveAt(p, lu, ps, n)
           /\ LiveAt(p, lu, ps, p.num_inputs) = 0 .. (p.num_inputs - 1)
           /\ LiveAt(p, lu, ps, p.num_inputs) \subseteq Permanent(p, ps)
           /\ Permanent(p, ps) \subseteq LiveAt(p, lu, ps, p.num_wires)
<1>1. p.num_inputs \in Nat /\ n \in Nat /\ p.num_wires \in Nat /\ p.num_inputs <= p.num_wires
  BY Canonical
<1>2. \A w \in 0 .. (p.num_inputs - 1) : ps[w] /\ w \in 0 .. (n - 1) /\ w \in 0 .. (p.num_wires - 1)
  BY <1>1 DEF LiveTo
<1> QED
  BY <1>2 DEF LiveAt, Permanent

(* One gate of the liveness pass.                                          *)
LEMMA LivenessGateStep ==
    ASSUME IndInv, LivenessGate
    PROVE  IndInv'
<1>1. pass = "liveness" /\ more /\ Step /\ prog' = prog /\ pass' = pass
  BY DEF LivenessGate
<1>2. PlaceInv' /\ wid' = wid + 1
  BY <1>1, StepPlace DEF IndInv
<1>3. LiveInv'
  <2>1. LiveTo(prog, last_use', persist', wid + 1)
    <3>1. LiveTo(prog, last_use, persist, wid) /\ prog \in Programs /\ gi = GI(prog, wid)
      BY <1>1 DEF IndInv, LiveInv, PlaceInv
    <3>2. wid \in prog.num_inputs .. (prog.num_wires - 1) /\ Now = GateOf(prog, wid)
      BY <1>1, AtGate DEF IndInv
    <3>3. /\ last_use' = [w \in 0 .. wid |-> IF w \in Reads(GateOf(prog, wid)) THEN GI(prog, wid)
                                             ELSE IF w = wid THEN -1 ELSE last_use[w]]
          /\ persist' = [w \in 0 .. wid |-> IF w = wid THEN GateOf(prog, wid).op = "And" ELSE persist[w]]
      BY <3>1, <3>2 DEF LivenessGate, Grow
    <3> QED
      BY <3>1, <3>2, <3>3, LiveGrow
  <2> QED
    BY <1>1, <1>2, <2>1 DEF LiveInv
<1>4. /\ UNCHANGED <<freelist, rep, lg_buf, lg_off>> /\ num_in' = num_in
      /\ pass' = "liveness" /\ pass' \notin Replays \cup {"slot"} /\ pass' \notin AfterSlot
  BY <1>1 DEF LivenessGate, slotMap, num_in, Replays, AfterSlot
<1>5. MapInv'
  BY <1>1, <1>4 DEF IndInv, MapInv
<1>6. ShareInv'
  BY <1>1, <1>4 DEF ShareInv
<1>7. DrawInv'
  BY <1>4 DEF IndInv, DrawInv
<1>8. MaskInv'
  BY <1>1, <1>4 DEF MaskInv
<1> QED
  BY <1>2, <1>3, <1>5, <1>6, <1>7, <1>8 DEF IndInv

(* The end of the liveness pass.                                           *)
LEMMA LivenessDoneStep ==
    ASSUME IndInv, LivenessDone
    PROVE  IndInv'
<1>1. /\ pass = "liveness" /\ ~more /\ NextPass("slot") /\ "slot" \in Passes /\ prog \in Programs
      /\ UNCHANGED <<prog, last_use, freelist, lg_buf, lg_off, rep>>
  BY DEF LivenessDone, Passes, IndInv, PlaceInv
<1>2. /\ PlaceInv' /\ wid' = num_in /\ wid = prog.num_wires /\ pass' = "slot"
      /\ num_in = prog.num_inputs /\ num_in' = num_in /\ num_in \in Nat /\ prog.num_wires \in Nat
      /\ num_in <= prog.num_wires
  BY <1>1, NextPlace DEF IndInv
<1>3. pass' \notin AfterSlot /\ pass' # "liveness"
  BY <1>2 DEF AfterSlot
<1>4. LiveTo(prog', last_use', persist', prog.num_wires)
  <2>1. LiveTo(prog, last_use, persist, prog.num_wires)
    BY <1>1, <1>2 DEF IndInv, LiveInv
  <2>2. /\ persist' \in [0 .. (prog.num_wires - 1) -> BOOLEAN]
        /\ \A w \in 0 .. (prog.num_wires - 1) : persist[w] => persist'[w]
    <3>1. persist' = [w \in 0 .. (prog.num_wires - 1) |-> persist[w] \/ \E k \in DOMAIN prog.outputs : prog.outputs[k] = w]
      BY DEF LivenessDone, Pinned, Wires
    <3> QED
      BY <3>1
  <2> QED
    BY <1>1, <2>1, <2>2, LivePinned
<1>5. LiveInv'
  BY <1>1, <1>3, <1>4 DEF LiveInv
<1>6. /\ phys' \in [0 .. (prog.num_wires - 1) -> Int] /\ num_slots' = num_in
      /\ \A w \in 0 .. (num_in - 1) : phys'[w] = w
  BY <1>2 DEF LivenessDone, Wires
<1>7. Needed' = 0 .. (num_in - 1)
  <2>1. prog.num_inputs \in prog.num_inputs .. prog.num_wires
    BY <1>2
  <2> QED
    BY <1>1, <1>2, <1>4, <2>1, InputsLive DEF Needed
<1>8. MapInv'
  <2>1. MapTo(prog', last_use', persist', phys', num_slots', wid')
    <3>1. \A v \in 0 .. (num_in - 1) : v \in Nat /\ \A w \in 0 .. (v - 1) : phys'[w] # phys'[v]
      BY <1>2, <1>6, SMTT(20)
    <3>2. \A w \in 0 .. (num_in - 1) : phys'[w] \in 0 .. (num_in - 1)
      BY <1>6
    <3> QED
      BY <1>1, <1>2, <1>6, <3>1, <3>2 DEF MapTo
  <2>2. FreeTo(prog', last_use', persist', phys', num_slots', freelist', wid')
    <3>1. freelist' = <<>>
      BY <1>1 DEF IndInv, MapInv
    <3> QED
      BY <3>1 DEF FreeTo, IsInjective
  <2> QED
    BY <1>2, <1>3, <2>1, <2>2 DEF MapInv
<1>9. ShareInv'
  <2>1. wire_slot' = [s \in 0 .. (num_in - 1) |-> {s + 1}] /\ wshare' = [w \in 0 .. (num_in - 1) |-> {w + 1}]
    BY DEF LivenessDone, InputShare
  <2>2. wire_slot' \in [0 .. (num_slots' - 1) -> SUBSET Nat]
    BY <1>2, <1>6, <2>1
  <2>3. SharesTo(prog', wshare', wid')
    BY <1>1, <1>2 DEF SharesTo
  <2>4. HoldsFor(Needed', wire_slot', phys', wshare')
    BY <1>6, <1>7, <2>1 DEF HoldsFor
  <2> QED
    BY <1>2, <1>3, <2>2, <2>3, <2>4 DEF ShareInv
<1>10. DrawInv'
  BY <1>1, <1>2 DEF IndInv, DrawInv
<1>11. MaskInv'
  <2>1. /\ mask_input' = [s \in 0 .. (num_in - 1) |-> InputMask(party, s)]
        /\ wmask' = [w \in 0 .. (num_in - 1) |-> InputMask(party, w)]
    BY DEF LivenessDone
  <2>2. DOMAIN mask_input' = 0 .. (num_slots' - 1)
    BY <1>6, <2>1
  <2>3. HoldsFor(0 .. (num_in - 1), mask_input', phys', wmask')
    BY <1>6, <2>1 DEF HoldsFor
  <2> QED
    BY <1>2, <2>2, <2>3 DEF MaskInv
<1> QED
  BY <1>2, <1>5, <1>8, <1>9, <1>10, <1>11 DEF IndInv

(* next_lambda_gamma: the shares of AND outputs are numbered in gate order,*)
(* whatever the size of a batch.                                           *)
LEMMA DrawStep ==
    ASSUME DrawInv, next_lambda_gamma, NEW x \in (SUBSET Nat) \X (SUBSET Nat), rep' = Append(rep, x),
           num_in \in Nat, num_in' = num_in
    PROVE  DrawInv' /\ lg_buf'[lg_off'] = num_in + Len(rep) + 1
<1> DEFINE T == (SUBSET Nat) \X (SUBSET Nat)
<1>1. /\ rep \in Seq(T) /\ lg_buf \in Seq(Nat) /\ Len(lg_buf) \in Nat /\ lg_off \in 0 .. Len(lg_buf)
      /\ Len(rep) \in Nat /\ (lg_buf = <<>> => rep = <<>>)
      /\ \A k \in 1 .. Len(lg_buf) : lg_buf[k] = num_in + Len(rep) - lg_off + k
  BY LenProperties DEF DrawInv
<1> HIDE DEF T
<1>2. rep' \in Seq(T) /\ Len(rep') = Len(rep) + 1
  BY <1>1, AppendProperties DEF T
<1>3. CASE lg_off >= Len(lg_buf)
  <2>1. NextDraw = num_in + Len(rep) + 1
    <3>1. CASE lg_buf = <<>>
      BY <1>1, <3>1 DEF NextDraw
    <3>2. CASE lg_buf # <<>>
      <4>1. Len(lg_buf) \in 1 .. Len(lg_buf) /\ lg_off = Len(lg_buf)
        BY <1>1, <1>3, <3>2, EmptySeq
      <4>2. lg_buf[Len(lg_buf)] = num_in + Len(rep) - lg_off + Len(lg_buf)
        BY <1>1, <4>1
      <4> QED
        BY <1>1, <3>2, <4>1, <4>2 DEF NextDraw, Last
    <3> QED
      BY <3>1, <3>2
  <2>2. lg_buf' = [k \in 1 .. LgBatch |-> NextDraw + k - 1] /\ lg_off' = 1 /\ LgBatch \in Nat \ {0}
    BY <1>3, SlotPassesAssumption DEF next_lambda_gamma
  <2>3. /\ lg_buf' \in Seq(Nat) /\ Len(lg_buf') = LgBatch
        /\ \A k \in 1 .. LgBatch : lg_buf'[k] = num_in + Len(rep) + k
    <3>1. \A k \in 1 .. LgBatch : NextDraw + k - 1 = num_in + Len(rep) + k /\ num_in + Len(rep) + k \in Nat
      BY <1>1, <2>1, <2>2
    <3>2. lg_buf' = [k \in 1 .. LgBatch |-> num_in + Len(rep) + k]
      BY <2>2, <3>1
    <3> QED
      BY <2>2, <3>1, <3>2
  <2>4. \A k \in 1 .. Len(lg_buf') : lg_buf'[k] = num_in' + Len(rep') - lg_off' + k
    BY <1>1, <1>2, <2>2, <2>3
  <2>5. lg_off' \in 0 .. Len(lg_buf') /\ lg_buf' # <<>> /\ 1 \in 1 .. LgBatch
    BY <2>2, <2>3, SMTT(20)
  <2> QED
    BY <1>2, <2>2, <2>3, <2>4, <2>5 DEF DrawInv, T
<1>4. CASE ~(lg_off >= Len(lg_buf))
  <2>1. lg_off' = lg_off + 1 /\ lg_buf' = lg_buf
    BY <1>4 DEF next_lambda_gamma
  <2>2. lg_off + 1 \in 1 .. Len(lg_buf) /\ lg_off + 1 \in 0 .. Len(lg_buf) /\ lg_buf # <<>>
    BY <1>1, <1>4
  <2>3. \A k \in 1 .. Len(lg_buf) : lg_buf[k] = num_in + (Len(rep) + 1) - (lg_off + 1) + k
    BY <1>1
  <2>4. lg_buf[lg_off + 1] = num_in + Len(rep) + 1
    BY <1>1, <2>2
  <2> QED
    BY <1>1, <1>2, <2>1, <2>2, <2>3, <2>4 DEF DrawInv, T
<1> QED
  BY <1>3, <1>4

(* A longer row of shares: one more wire, the others as they were.         *)
LEMMA SharesGrow ==
    ASSUME NEW p \in Programs, NEW n \in p.num_inputs .. (p.num_wires - 1), NEW ws, NEW wt,
           SharesTo(p, ws, n), \A w \in 0 .. (n - 1) : wt[w] = ws[w],
           GateOf(p, n).op # "And" =>
             wt[n] = Combine(GateOf(p, n), ws[GateOf(p, n).in0], ws[GateOf(p, n).in1])
    PROVE  SharesTo(p, wt, n + 1)
<1>1. p.num_inputs \in Nat /\ n \in Nat /\ p.num_wires \in Nat /\ (n + 1) - 1 = n
  BY Canonical
<1>2. ASSUME NEW v \in p.num_inputs .. n, GateOf(p, v).op # "And"
      PROVE  wt[v] = Combine(GateOf(p, v), ws[GateOf(p, v).in0], ws[GateOf(p, v).in1])
  <2>1. v = n \/ (v \in p.num_inputs .. (n - 1) /\ v \in 0 .. (n - 1))
    BY <1>1
  <2> QED
    BY <1>2, <2>1 DEF SharesTo
<1>3. ASSUME NEW v \in p.num_inputs .. n
      PROVE  Combine(GateOf(p, v), ws[GateOf(p, v).in0], ws[GateOf(p, v).in1])
               = Combine(GateOf(p, v), wt[GateOf(p, v).in0], wt[GateOf(p, v).in1])
  <2>1. \A w \in Reads(GateOf(p, v)) : wt[w] = ws[w]
    <3>1. v \in p.num_inputs .. (p.num_wires - 1)
      BY <1>1
    <3>2. Reads(GateOf(p, v)) \subseteq 0 .. (v - 1)
      BY <3>1, Canonical
    <3>3. 0 .. (v - 1) \subseteq 0 .. (n - 1)
      BY <1>1
    <3> QED
      BY <3>2, <3>3
  <2> QED
    BY <2>1 DEF Combine, Reads
<1> QED
  BY <1>1, <1>2, <1>3 DEF SharesTo

(* alloc_slot and AssignSlot, for a gate whose output gets the share s.    *)
LEMMA AssignStep ==
    ASSUME IndInv, pass = "slot", more, NEW s \in SUBSET Nat, AssignSlot(Now, alloc_slot, s),
           UNCHANGED <<prog, live>>
    PROVE  /\ MapTo(prog, last_use, persist, phys', num_slots', wid + 1)
           /\ FreeTo(prog, last_use, persist, phys', num_slots', freelist', wid + 1)
           /\ wire_slot' \in [0 .. (num_slots' - 1) -> SUBSET Nat] /\ wire_slot'[phys'[wid]] = s
           /\ DOMAIN mask_input' = 0 .. (num_slots' - 1)
           /\ mask_input'[phys'[wid]] = ConstBit(Now.op = "Const1")
           /\ \A w \in 0 .. (wid - 1) :
                /\ phys'[w] = phys[w]
                /\ phys'[w] # phys'[wid] => /\ wire_slot'[phys'[w]] = wire_slot[phys[w]]
                                            /\ mask_input'[phys'[w]] = mask_input[phys[w]]
           /\ \A w \in Needed : phys'[w] # phys'[wid]
<1> DEFINE a == alloc_slot.slot
           rest == alloc_slot.free
<1>1. /\ prog \in Programs /\ gi = GI(prog, wid)
      /\ LiveTo(prog, last_use, persist, prog.num_wires)
      /\ MapTo(prog, last_use, persist, phys, num_slots, wid)
      /\ FreeTo(prog, last_use, persist, phys, num_slots, freelist, wid)
      /\ wire_slot \in [0 .. (num_slots - 1) -> SUBSET Nat]
      /\ DOMAIN mask_input = 0 .. (num_slots - 1)
  BY DEF IndInv, PlaceInv, LiveInv, MapInv, ShareInv, MaskInv
<1>2. /\ wid \in prog.num_inputs .. (prog.num_wires - 1) /\ Now = GateOf(prog, wid) /\ wid \in Nat
      /\ wid \in num_in .. (prog.num_wires - 1) /\ wid \in 0 .. (prog.num_wires - 1)
  BY AtGate DEF IndInv
<1>3. /\ phys' = [phys EXCEPT ![wid] = a] /\ freelist' = rest \o Freed(GateOf(prog, wid))
      /\ num_slots' = IF a = num_slots THEN num_slots + 1 ELSE num_slots
      /\ wire_slot' = [i \in 0 .. (num_slots' - 1) |-> IF i = a THEN s ELSE wire_slot[i]]
      /\ DOMAIN mask_input' = 0 .. (num_slots' - 1)
      /\ \A i \in 0 .. (num_slots' - 1) : i # a => mask_input'[i] = mask_input[i]
      /\ a \in 0 .. (num_slots' - 1) => mask_input'[a] = ConstBit(Now.op = "Const1")
  BY <1>2 DEF AssignSlot
<1>4. Allocated(persist, wid, num_slots, freelist, a, rest, num_slots')
  <2>1. CASE Recycles
    <3>1. a = Last(freelist) /\ rest = Front(freelist)
      BY <2>1 DEF alloc_slot
    <3>2. Last(freelist) \in 0 .. (num_slots - 1)
      <4>1. freelist \in Seq(0 .. (num_slots - 1)) /\ freelist # <<>>
        BY <1>1, <2>1 DEF Recycles, FreeTo
      <4>2. Len(freelist) \in 1 .. Len(freelist)
        BY <4>1, EmptySeq
      <4> QED
        BY <4>1, <4>2, ElementOfSeq DEF Last
    <3>3. num_slots \in Nat
      BY <1>1 DEF MapTo
    <3>4. a # num_slots
      BY <3>1, <3>2, <3>3
    <3> QED
      BY <1>3, <2>1, <3>1, <3>4 DEF Allocated, Recycles
  <2>2. CASE ~Recycles
    <3>1. a = num_slots /\ rest = freelist
      BY <2>2 DEF alloc_slot
    <3> QED
      BY <1>3, <3>1 DEF Allocated
  <2> QED
    BY <2>1, <2>2
<1> HIDE DEF a, rest
<1>5. /\ MapTo(prog, last_use, persist, [phys EXCEPT ![wid] = a], num_slots', wid + 1)
      /\ Given(prog, last_use, persist, phys, num_slots, freelist, wid, a, rest, num_slots')
  BY <1>1, <1>2, <1>4, MapGrow
<1>6. FreedAt(prog, last_use, persist, phys, num_slots, wid, Freed(GateOf(prog, wid)))
  BY <1>1, <1>2, FreedFacts
<1>7. FreeTo(prog, last_use, persist, phys', num_slots', freelist', wid + 1)
  BY <1>1, <1>2, <1>3, <1>4, <1>6, FreeGrow
<1>8. /\ phys'[wid] = a /\ a \in 0 .. (num_slots' - 1) /\ num_slots' \in Nat /\ num_slots \in Nat /\ num_slots <= num_slots'
      /\ \A w \in 0 .. (wid - 1) : phys'[w] = phys[w] /\ phys[w] \in 0 .. (num_slots - 1)
      /\ \A w \in Needed : phys[w] # a
  <2>1. /\ a \in 0 .. (num_slots' - 1) /\ num_slots' \in Nat /\ num_slots <= num_slots'
        /\ \A w \in Needed : phys[w] # a
    BY <1>5 DEF Given, Needed
  <2>2. /\ phys \in [0 .. (prog.num_wires - 1) -> Int] /\ num_slots \in Nat
        /\ \A w \in 0 .. (wid - 1) : phys[w] \in 0 .. (num_slots - 1)
    BY <1>1 DEF MapTo
  <2>3. phys'[wid] = a /\ \A w \in 0 .. (wid - 1) : phys'[w] = phys[w]
    BY <1>2, <1>3, <2>2
  <2> QED
    BY <2>1, <2>2, <2>3
<1>9. wire_slot' \in [0 .. (num_slots' - 1) -> SUBSET Nat]
  <2>1. \A i \in 0 .. (num_slots' - 1) : i # a => i \in 0 .. (num_slots - 1)
    BY <1>3, <1>8
  <2> QED
    BY <1>1, <1>3, <2>1
<1>10. ASSUME NEW w \in 0 .. (wid - 1), phys'[w] # phys'[wid]
       PROVE  wire_slot'[phys'[w]] = wire_slot[phys[w]] /\ mask_input'[phys'[w]] = mask_input[phys[w]]
  <2>1. phys'[w] = phys[w] /\ phys[w] \in 0 .. (num_slots' - 1) /\ phys[w] # a
    BY <1>8, <1>10
  <2> QED
    BY <1>3, <2>1
<1>11. wire_slot'[phys'[wid]] = s
  BY <1>3, <1>8
<1>12. \A w \in Needed : phys'[w] # phys'[wid]
  BY <1>8 DEF Needed, LiveAt
<1>13. MapTo(prog, last_use, persist, phys', num_slots', wid + 1)
  BY <1>3, <1>5
<1>14. mask_input'[phys'[wid]] = ConstBit(Now.op = "Const1")
  BY <1>3, <1>8
<1> QED
  BY <1>3, <1>7, <1>8, <1>9, <1>10, <1>11, <1>12, <1>13, <1>14

(* A gate finds the shares of its operands in their slots.                 *)
LEMMA OperandShares ==
    ASSUME IndInv, pass \in Replays \cup {"slot"}, more
    PROVE  /\ \A w \in Reads(Now) : Share(w) = wshare[w] /\ Share(w) \in SUBSET Nat /\ w \in Needed
           /\ Now.op # "And" => /\ FabricShare(Now, Share) \in SUBSET Nat
                                /\ FabricShare(Now, Share) = FabricShare(Now, LogicalShare)
                                /\ FabricShare(Now, LogicalShare)
                                     = Combine(Now, wshare[Now.in0], wshare[Now.in1])
<1>1. /\ prog \in Programs /\ LiveTo(prog, last_use, persist, prog.num_wires)
      /\ HoldsFor(Needed, wire_slot, phys, wshare) /\ wire_slot \in [0 .. (num_slots - 1) -> SUBSET Nat]
  BY DEF IndInv, PlaceInv, LiveInv, ShareInv, Replays
<1>2. /\ wid \in prog.num_inputs .. (prog.num_wires - 1) /\ Now = GateOf(prog, wid) /\ Now \in Gate
      /\ wid \in 0 .. (prog.num_wires - 1) /\ prog.num_wires \in Nat /\ wid \in Nat
  BY AtGate DEF IndInv
<1>3. \A w \in 0 .. (wid - 1) : phys[w] \in 0 .. (num_slots - 1)
  <2>1. CASE pass = "slot"
    BY <2>1 DEF IndInv, MapInv, MapTo
  <2>2. CASE pass \in Replays
    <3>1. MapTo(prog, last_use, persist, phys, num_slots, prog.num_wires)
      BY <2>2 DEF IndInv, MapInv, Replays, AfterSlot
    <3>2. 0 .. (wid - 1) \subseteq 0 .. (prog.num_wires - 1)
      BY <1>2
    <3> QED
      BY <3>1, <3>2 DEF MapTo
  <2> QED
    BY <2>1, <2>2
<1>4. \A w \in Reads(Now) : Share(w) = wshare[w] /\ Share(w) \in SUBSET Nat /\ w \in Needed
  <2>1. Reads(Now) \subseteq Needed
    BY <1>1, <1>2, ReadsLive DEF Needed
  <2>2. Needed \subseteq 0 .. (wid - 1)
    BY DEF Needed, LiveAt
  <2>3. \A w \in Needed : wire_slot[phys[w]] = wshare[w] /\ wire_slot[phys[w]] \in SUBSET Nat
    BY <1>1, <1>3, <2>2 DEF HoldsFor
  <2> QED
    BY <2>1, <2>3 DEF Share
<1>5. ASSUME Now.op # "And"
      PROVE  /\ FabricShare(Now, Share) \in SUBSET Nat
             /\ FabricShare(Now, Share) = FabricShare(Now, LogicalShare)
             /\ FabricShare(Now, LogicalShare) = Combine(Now, wshare[Now.in0], wshare[Now.in1])
  <2> DEFINE g == Now
  <2>1. /\ FabricShare(g, Share) = Combine(g, Share(g.in0), Share(g.in1))
        /\ FabricShare(g, LogicalShare) = Combine(g, wshare[g.in0], wshare[g.in1])
    BY <1>2, <1>5, FabricIsCombine
  <2> HIDE DEF g
  <2>2. /\ Combine(g, Share(g.in0), Share(g.in1)) \in SUBSET Nat
        /\ Combine(g, Share(g.in0), Share(g.in1)) = Combine(g, wshare[g.in0], wshare[g.in1])
    BY <1>4, CombineReads DEF g
  <2> QED
    BY <2>1, <2>2 DEF g
<1> QED
  BY <1>4, <1>5

(* The share that goes into the slot is the one the new wire should hold.  *)
LEMMA SlotAssigns ==
    ASSUME IndInv, SlotGate
    PROVE  \E s \in SUBSET Nat :
             /\ AssignSlot(Now, alloc_slot, s) /\ wshare' = Grow(wshare, wid, s) /\ DrawInv'
             /\ Now.op # "And" => s = Combine(Now, wshare[Now.in0], wshare[Now.in1])
             /\ Now.op = "And" => s = {num_in + Len(rep) + 1}
<1>1. /\ pass = "slot" /\ more /\ UNCHANGED prog /\ pass \in Replays \cup {"slot"}
  BY DEF SlotGate
<1>2. Now \in Gate /\ num_in \in Nat
  BY <1>1, AtGate DEF IndInv
<1>3. num_in' = num_in
  BY <1>1 DEF num_in
<1>4. CASE Now.op = "And"
  <2>1. /\ next_lambda_gamma /\ AssignSlot(Now, alloc_slot, {lg_buf'[lg_off']})
        /\ rep' = Append(rep, <<Share(Now.in0), Share(Now.in1)>>)
        /\ wshare' = Grow(wshare, wid, {num_in + Len(rep) + 1})
    BY <1>4 DEF SlotGate
  <2>2. Now.in0 \in Reads(Now) /\ Now.in1 \in Reads(Now)
    BY <1>4 DEF Reads, IsConst, IsNot
  <2>3. <<Share(Now.in0), Share(Now.in1)>> \in (SUBSET Nat) \X (SUBSET Nat)
    BY <1>1, <2>2, OperandShares
  <2>4. DrawInv /\ Len(rep) \in Nat
    BY LenProperties DEF IndInv, DrawInv
  <2>5. DrawInv' /\ lg_buf'[lg_off'] = num_in + Len(rep) + 1
    BY <1>2, <1>3, <2>1, <2>3, <2>4, DrawStep
  <2>6. {num_in + Len(rep) + 1} \in SUBSET Nat
    BY <1>2, <2>4
  <2> QED
    BY <1>4, <2>1, <2>5, <2>6
<1>5. CASE Now.op # "And"
  <2>1. /\ AssignSlot(Now, alloc_slot, FabricShare(Now, Share)) /\ UNCHANGED <<rep, lg_buf, lg_off>>
        /\ wshare' = Grow(wshare, wid, FabricShare(Now, LogicalShare))
    BY <1>5 DEF SlotGate
  <2>2. /\ FabricShare(Now, Share) \in SUBSET Nat
        /\ FabricShare(Now, Share) = FabricShare(Now, LogicalShare)
        /\ FabricShare(Now, LogicalShare) = Combine(Now, wshare[Now.in0], wshare[Now.in1])
    BY <1>1, <1>5, OperandShares
  <2>3. DrawInv'
    BY <1>3, <2>1 DEF IndInv, DrawInv
  <2> QED
    BY <1>5, <2>1, <2>2, <2>3
<1> QED
  BY <1>4, <1>5

(* One gate of the slot and mask pass.                                     *)
LEMMA SlotGateStep ==
    ASSUME IndInv, SlotGate
    PROVE  IndInv'
<1>1. /\ pass = "slot" /\ more /\ Step /\ UNCHANGED <<party, prog, pass, last_use, persist, wmask>>
      /\ pass \in Replays \cup {"slot"} /\ pass \notin AfterSlot /\ pass # "liveness"
  BY DEF SlotGate, live, AfterSlot
<1>2. PlaceInv' /\ wid' = wid + 1
  BY <1>1, StepPlace DEF IndInv
<1>3. /\ wid \in prog.num_inputs .. (prog.num_wires - 1) /\ Now = GateOf(prog, wid) /\ Now \in Gate
      /\ wid \in 0 .. (prog.num_wires - 1) /\ prog.num_wires \in Nat /\ wid \in Nat
      /\ num_in = prog.num_inputs /\ num_in \in Nat /\ num_in <= wid /\ prog \in Programs
  BY <1>1, AtGate DEF IndInv, PlaceInv
<1>4. LiveInv' /\ LiveTo(prog, last_use, persist, prog.num_wires)
  BY <1>1 DEF IndInv, LiveInv
<1>5. num_in' = num_in /\ Needed' = LiveAt(prog, last_use, persist, wid + 1)
  BY <1>1, <1>2 DEF num_in, Needed
<1>7. PICK s \in SUBSET Nat :
        /\ AssignSlot(Now, alloc_slot, s) /\ wshare' = Grow(wshare, wid, s) /\ DrawInv'
        /\ Now.op # "And" => s = Combine(Now, wshare[Now.in0], wshare[Now.in1])
  BY SlotAssigns
<1>8. /\ MapTo(prog, last_use, persist, phys', num_slots', wid + 1)
      /\ FreeTo(prog, last_use, persist, phys', num_slots', freelist', wid + 1)
      /\ wire_slot' \in [0 .. (num_slots' - 1) -> SUBSET Nat] /\ wire_slot'[phys'[wid]] = s
      /\ DOMAIN mask_input' = 0 .. (num_slots' - 1)
      /\ \A w \in 0 .. (wid - 1) :
           /\ phys'[w] = phys[w]
           /\ phys'[w] # phys'[wid] => /\ wire_slot'[phys'[w]] = wire_slot[phys[w]]
                                       /\ mask_input'[phys'[w]] = mask_input[phys[w]]
      /\ \A w \in Needed : phys'[w] # phys'[wid]
  BY <1>1, <1>7, AssignStep DEF live
<1>9. wshare'[wid] = s /\ \A w \in 0 .. (wid - 1) : wshare'[w] = wshare[w]
  BY <1>3, <1>7 DEF Grow
<1>10. MapInv'
  BY <1>1, <1>2, <1>8 DEF MapInv
<1>11. ShareInv'
  <2>1. SharesTo(prog, wshare', wid + 1)
    <3>1. SharesTo(prog, wshare, wid)
      BY <1>1 DEF IndInv, ShareInv
    <3> QED
      BY <1>3, <1>7, <1>9, <3>1, SharesGrow
  <2>2. HoldsFor(Needed, wire_slot, phys', wshare)
    <3>1. HoldsFor(Needed, wire_slot, phys, wshare) /\ Needed \subseteq 0 .. (wid - 1)
      BY <1>1 DEF IndInv, ShareInv, Needed, LiveAt
    <3> QED
      BY <1>8, <3>1 DEF HoldsFor
  <2>3. HoldsFor(LiveAt(prog, last_use, persist, wid + 1), wire_slot', phys', wshare')
    <3>1. \A w \in 0 .. (wid - 1) : /\ wshare'[w] = wshare[w]
                                    /\ phys'[w] # phys'[wid] => wire_slot'[phys'[w]] = wire_slot[phys'[w]]
      BY <1>8, <1>9
    <3>2. wire_slot'[phys'[wid]] = wshare'[wid]
      BY <1>8, <1>9
    <3> QED
      BY <1>3, <1>4, <1>8, <2>2, <3>1, <3>2, WriteLive DEF Needed
  <2> QED
    BY <1>1, <1>2, <1>5, <1>8, <2>1, <2>3 DEF ShareInv
<1>12. MaskInv'
  <2>1. HoldsFor(0 .. (num_in - 1), mask_input, phys, wmask)
    BY <1>1 DEF IndInv, MaskInv
  <2>2. 0 .. (num_in - 1) \subseteq Needed
    <3>1. wid \in prog.num_inputs .. prog.num_wires
      BY <1>3
    <3> QED
      BY <1>3, <1>4, <3>1, InputsLive DEF Needed
  <2>3. Needed \subseteq 0 .. (wid - 1)
    BY DEF Needed, LiveAt
  <2>4. HoldsFor(0 .. (num_in - 1), mask_input', phys', wmask')
    BY <1>1, <1>8, <2>1, <2>2, <2>3 DEF HoldsFor
  <2> QED
    BY <1>1, <1>5, <1>8, <2>4 DEF MaskInv
<1> QED
  BY <1>2, <1>4, <1>7, <1>10, <1>11, <1>12 DEF IndInv

(* The end of the slot and mask pass.                                      *)
LEMMA SlotDoneStep ==
    ASSUME IndInv, SlotDone
    PROVE  IndInv'
<1> DEFINE q == IF party = Garbler THEN "garble" ELSE "evaluate"
<1>1. /\ pass = "slot" /\ ~more /\ NextPass(q) /\ q \in Passes /\ prog \in Programs /\ q \in {"garble", "evaluate"}
      /\ UNCHANGED <<prog, last_use, persist, phys, num_slots, lg_buf, lg_off, rep, wire_slot, mask_input, wshare, wmask>>
  BY DEF SlotDone, Passes, IndInv, PlaceInv, live, slotMap
<1>2. /\ PlaceInv' /\ wid' = num_in /\ wid = prog.num_wires /\ pass' = q
      /\ num_in = prog.num_inputs /\ num_in' = num_in /\ num_in \in Nat /\ prog.num_wires \in Nat
      /\ num_in <= prog.num_wires
  BY <1>1, NextPlace DEF IndInv
<1> HIDE DEF q
<1>3. pass' \in Replays /\ pass' \in AfterSlot /\ pass' # "liveness" /\ pass' # "slot"
  BY <1>1, <1>2 DEF Replays, AfterSlot
<1>4. LiveTo(prog, last_use, persist, prog.num_wires) /\ LiveInv'
  BY <1>1, <1>3 DEF IndInv, LiveInv
<1>5. /\ Needed' = 0 .. (num_in - 1) /\ Needed' \subseteq Permanent(prog, persist)
      /\ Permanent(prog, persist) \subseteq Needed
  <2>1. prog.num_inputs \in prog.num_inputs .. prog.num_wires
    BY <1>2
  <2> QED
    BY <1>1, <1>2, <1>4, <2>1, InputsLive DEF Needed
<1>6. MapInv'
  BY <1>1, <1>2, <1>3 DEF IndInv, MapInv
<1>7. ShareInv'
  <2>1. /\ wire_slot' \in [0 .. (num_slots' - 1) -> SUBSET Nat] /\ SharesTo(prog', wshare', prog'.num_wires)
        /\ HoldsFor(Needed, wire_slot, phys, wshare)
    BY <1>1, <1>2 DEF IndInv, ShareInv
  <2>2. HoldsFor(Permanent(prog', persist'), wire_slot', phys', wshare') /\ HoldsFor(Needed', wire_slot', phys', wshare')
    BY <1>1, <1>5, <2>1 DEF HoldsFor
  <2> QED
    BY <1>3, <2>1, <2>2 DEF ShareInv
<1>8. DrawInv'
  BY <1>1, <1>2 DEF IndInv, DrawInv
<1>9. MaskInv'
  <2>1. HoldsFor(0 .. (num_in - 1), mask_input, phys, wmask) /\ DOMAIN mask_input = 0 .. (num_slots - 1)
    BY <1>1 DEF IndInv, MaskInv
  <2> QED
    BY <1>1, <1>2, <1>5, <2>1 DEF MaskInv
<1> QED
  BY <1>2, <1>4, <1>6, <1>7, <1>8, <1>9 DEF IndInv
-------------------------------------------------------------------------------
(* A gate of a replay: shares are propagated over the slots again.         *)
LEMMA ReplayStep ==
    ASSUME IndInv, pass \in Replays, more, Step, wire_slot' = Repropagated,
           UNCHANGED <<prog, pass, live, slotMap, wshare>>
    PROVE  /\ PlaceInv' /\ LiveInv' /\ MapInv' /\ ShareInv' /\ DrawInv'
           /\ wid' = wid + 1 /\ num_in' = num_in /\ Needed' = LiveAt(prog, last_use, persist, wid + 1)
           /\ UNCHANGED <<last_use, persist, phys, num_slots>>
<1>1. /\ UNCHANGED <<last_use, persist, phys, num_slots, freelist, lg_buf, lg_off, rep>>
      /\ pass \in AfterSlot /\ pass # "slot" /\ pass # "liveness" /\ pass \in Replays \cup {"slot"}
  BY DEF live, slotMap, Replays, AfterSlot
<1>2. PlaceInv' /\ wid' = wid + 1
  BY StepPlace DEF IndInv
<1>3. /\ wid \in prog.num_inputs .. (prog.num_wires - 1) /\ Now = GateOf(prog, wid) /\ Now \in Gate
      /\ wid \in 0 .. (prog.num_wires - 1) /\ prog.num_wires \in Nat /\ wid \in Nat
      /\ num_in = prog.num_inputs /\ num_in \in Nat /\ num_in <= wid /\ prog \in Programs
  BY AtGate DEF IndInv, PlaceInv
<1>4. LiveInv' /\ LiveTo(prog, last_use, persist, prog.num_wires)
  BY <1>1 DEF IndInv, LiveInv
<1>5. num_in' = num_in /\ Needed' = LiveAt(prog, last_use, persist, wid + 1)
  BY <1>1, <1>2 DEF num_in, Needed
<1>6. MapInv' /\ MapTo(prog, last_use, persist, phys, num_slots, prog.num_wires)
  BY <1>1 DEF IndInv, MapInv
<1>7. DrawInv'
  BY <1>1, <1>5 DEF IndInv, DrawInv
<1>8. /\ wire_slot \in [0 .. (num_slots - 1) -> SUBSET Nat] /\ SharesTo(prog, wshare, prog.num_wires)
      /\ HoldsFor(Needed, wire_slot, phys, wshare) /\ HoldsFor(Permanent(prog, persist), wire_slot, phys, wshare)
  BY <1>1 DEF IndInv, ShareInv
<1>9. \A w \in 0 .. (prog.num_wires - 1) : phys[w] \in 0 .. (num_slots - 1)
  BY <1>6 DEF MapTo
<1>10. /\ wire_slot' \in [0 .. (num_slots - 1) -> SUBSET Nat] /\ wire_slot'[phys[wid]] = wshare[wid]
       /\ \A w \in 0 .. (prog.num_wires - 1) : phys[w] # phys[wid] => wire_slot'[phys[w]] = wire_slot[phys[w]]
  <2>1. CASE Now.op = "And"
    <3>1. wid \in Permanent(prog, persist)
      BY <1>3, <1>4, <2>1 DEF LiveTo, Permanent
    <3>2. wire_slot' = wire_slot
      BY <2>1 DEF Repropagated
    <3> QED
      BY <1>8, <3>1, <3>2 DEF HoldsFor
  <2>2. CASE Now.op # "And"
    <3> DEFINE s == FabricShare(Now, Share)
    <3>1. wire_slot' = [wire_slot EXCEPT ![phys[wid]] = s]
      BY <2>2 DEF Repropagated
    <3>2. s \in SUBSET Nat /\ s = Combine(Now, wshare[Now.in0], wshare[Now.in1])
      BY <1>1, <2>2, OperandShares
    <3>3. s = wshare[wid]
      BY <1>3, <1>8, <2>2, <3>2 DEF SharesTo
    <3> HIDE DEF s
    <3> QED
      BY <1>3, <1>8, <1>9, <3>1, <3>2, <3>3
  <2> QED
    BY <2>1, <2>2
<1>11. HoldsFor(LiveAt(prog, last_use, persist, wid + 1), wire_slot', phys, wshare)
  <2>1. MapTo(prog, last_use, persist, phys, num_slots, wid + 1)
    <3>1. wid + 1 \in 0 .. prog.num_wires
      BY <1>3
    <3> QED
      BY <1>3, <1>6, <3>1, MapPrefix
  <2>2. \A w \in 0 .. (wid - 1) : /\ wshare[w] = wshare[w]
                                  /\ phys[w] # phys[wid] => wire_slot'[phys[w]] = wire_slot[phys[w]]
    BY <1>3, <1>10
  <2> QED
    BY <1>3, <1>4, <1>8, <1>10, <2>1, <2>2, WriteLive DEF Needed
<1>12. HoldsFor(Permanent(prog, persist), wire_slot', phys, wshare)
  BY <1>3, <1>6, <1>8, <1>10, WritePermanent
<1>13. ShareInv'
  BY <1>1, <1>5, <1>8, <1>10, <1>11, <1>12 DEF ShareInv
<1> QED
  BY <1>1, <1>2, <1>4, <1>5, <1>6, <1>7, <1>13

(* One gate of the garble pass.                                            *)
LEMMA GarbleGateStep ==
    ASSUME IndInv, GarbleGate
    PROVE  IndInv'
<1>1. /\ pass = "garble" /\ pass \in Replays /\ more /\ Step /\ wire_slot' = Repropagated
      /\ UNCHANGED <<prog, pass, live, slotMap, wshare>> /\ UNCHANGED <<mask_input, wmask>>
  BY DEF GarbleGate, Replays
<1>2. /\ PlaceInv' /\ LiveInv' /\ MapInv' /\ ShareInv' /\ DrawInv' /\ num_in' = num_in
      /\ UNCHANGED <<last_use, persist, phys, num_slots>>
  BY <1>1, ReplayStep
<1>3. MaskInv'
  BY <1>1, <1>2 DEF IndInv, MaskInv
<1> QED
  BY <1>2, <1>3 DEF IndInv

(* The same for the masks, in a pass that propagates them.                 *)
LEMMA ReplayMask ==
    ASSUME IndInv, pass \in {"evaluate", "gamma"}, more, Step, wire_slot' = Repropagated,
           UNCHANGED <<prog, pass, live, slotMap, wshare>>, NEW x,
           mask_input' = [mask_input EXCEPT ![phys[wid]] = x], wmask' = Grow(wmask, wid, x)
    PROVE  IndInv'
<1>1. pass \in Replays /\ pass \in AfterSlot /\ pass # "slot" /\ pass # "liveness" /\ pass \notin {"slot", "garble"}
  BY DEF Replays, AfterSlot
<1>2. /\ PlaceInv' /\ LiveInv' /\ MapInv' /\ ShareInv' /\ DrawInv'
      /\ Needed' = LiveAt(prog, last_use, persist, wid + 1)
      /\ UNCHANGED <<last_use, persist, phys, num_slots>>
  BY <1>1, ReplayStep
<1>3. /\ wid \in prog.num_inputs .. (prog.num_wires - 1) /\ wid \in 0 .. (prog.num_wires - 1)
      /\ prog.num_wires \in Nat /\ wid \in Nat /\ prog \in Programs
  BY AtGate DEF IndInv, PlaceInv
<1>4. /\ LiveTo(prog, last_use, persist, prog.num_wires)
      /\ MapTo(prog, last_use, persist, phys, num_slots, prog.num_wires)
      /\ DOMAIN mask_input = 0 .. (num_slots - 1) /\ HoldsFor(Needed, mask_input, phys, wmask)
  BY <1>1 DEF IndInv, LiveInv, MapInv, MaskInv
<1>5. \A w \in 0 .. (prog.num_wires - 1) : phys[w] \in 0 .. (num_slots - 1)
  BY <1>4 DEF MapTo
<1>6. /\ mask_input'[phys[wid]] = wmask'[wid] /\ DOMAIN mask_input' = 0 .. (num_slots - 1)
      /\ \A w \in 0 .. (wid - 1) : /\ wmask'[w] = wmask[w]
                                   /\ phys[w] # phys[wid] => mask_input'[phys[w]] = mask_input[phys[w]]
  <2>1. wmask'[wid] = x /\ \A w \in 0 .. (wid - 1) : wmask'[w] = wmask[w] /\ w \in 0 .. (prog.num_wires - 1)
    BY <1>3 DEF Grow
  <2> QED
    BY <1>3, <1>4, <1>5, <2>1
<1>7. MapTo(prog, last_use, persist, phys, num_slots, wid + 1)
  <2>1. wid + 1 \in 0 .. prog.num_wires
    BY <1>3
  <2> QED
    BY <1>3, <1>4, <2>1, MapPrefix
<1>8. HoldsFor(LiveAt(prog, last_use, persist, wid + 1), mask_input', phys, wmask')
  BY <1>3, <1>4, <1>6, <1>7, WriteLive, ZenonT(60) DEF Needed
<1>9. MaskInv'
  BY <1>1, <1>2, <1>6, <1>8 DEF MaskInv
<1> QED
  BY <1>2, <1>9 DEF IndInv

(* A gate finds the masks of its operands in their slots too, and an AND   *)
(* its lambda_gamma in the slot of its output.                             *)
LEMMA OperandMasks ==
    ASSUME IndInv, pass \in {"evaluate", "gamma"}, more
    PROVE  /\ Now.op # "And" => FabricMask(Now, Mask) = FabricMask(Now, LogicalMask)
           /\ Now.op = "And" => AndMask(Now, Share(wid), Share, Mask)
                                  = AndMask(Now, wshare[wid], LogicalShare, LogicalMask)
<1>1. /\ pass \in AfterSlot /\ pass # "liveness" /\ pass \in Replays \cup {"slot"}
      /\ LiveTo(prog, last_use, persist, prog.num_wires)
      /\ HoldsFor(Needed, mask_input, phys, wmask)
      /\ HoldsFor(Permanent(prog, persist), wire_slot, phys, wshare)
  BY DEF IndInv, LiveInv, MaskInv, ShareInv, Replays, AfterSlot
<1>2. /\ wid \in prog.num_inputs .. (prog.num_wires - 1) /\ Now = GateOf(prog, wid) /\ Now \in Gate
      /\ wid \in 0 .. (prog.num_wires - 1)
  BY AtGate DEF IndInv
<1>3. \A w \in Reads(Now) : Share(w) = wshare[w] /\ w \in Needed
  BY <1>1, OperandShares
<1>4. \A w \in Reads(Now) : Mask(w) = wmask[w]
  BY <1>1, <1>3 DEF HoldsFor, Mask
<1>5. ASSUME Now.op # "And" PROVE FabricMask(Now, Mask) = FabricMask(Now, LogicalMask)
  <2>1. IsConst(Now) \/ Now.op = "Not" \/ Now.op = "Xor"
    BY <1>2, <1>5 DEF Gate, Op, IsConst
  <2>2. CASE IsConst(Now)
    BY <2>2 DEF FabricMask, IsConst
  <2>3. CASE Now.op = "Not"
    <3>1. Now.in0 \in Reads(Now)
      BY <2>3 DEF Reads, IsConst, IsNot
    <3> QED
      BY <1>4, <2>3, <3>1 DEF FabricMask, IsConst, LogicalMask
  <2>4. CASE Now.op = "Xor"
    <3>1. Now.in0 \in Reads(Now) /\ Now.in1 \in Reads(Now)
      BY <2>4 DEF Reads, IsConst, IsNot
    <3> QED
      BY <1>4, <2>4, <3>1 DEF FabricMask, IsConst, LogicalMask
  <2> QED
    BY <2>1, <2>2, <2>3, <2>4
<1>6. ASSUME Now.op = "And"
      PROVE  AndMask(Now, Share(wid), Share, Mask) = AndMask(Now, wshare[wid], LogicalShare, LogicalMask)
  <2>1. Now.in0 \in Reads(Now) /\ Now.in1 \in Reads(Now)
    BY <1>6 DEF Reads, IsConst, IsNot
  <2>2. wid \in Permanent(prog, persist)
    BY <1>1, <1>2, <1>6 DEF LiveTo, Permanent
  <2>3. Share(wid) = wshare[wid]
    BY <1>1, <2>2 DEF HoldsFor, Share
  <2> QED
    BY <1>3, <1>4, <2>1, <2>3 DEF AndMask, LogicalMask, LogicalShare
<1> QED
  BY <1>5, <1>6

(* One gate of the evaluate pass.                                          *)
LEMMA EvaluateGateStep ==
    ASSUME IndInv, EvaluateGate
    PROVE  IndInv'
<1> DEFINE x == IF Now.op = "And" THEN AndMask(Now, Share(wid), Share, Mask) ELSE FabricMask(Now, Mask)
           y == IF Now.op = "And" THEN AndMask(Now, wshare[wid], LogicalShare, LogicalMask)
                                  ELSE FabricMask(Now, LogicalMask)
<1>1. /\ pass \in {"evaluate", "gamma"} /\ more /\ Step /\ wire_slot' = Repropagated
      /\ UNCHANGED <<prog, pass, live, slotMap, wshare>>
      /\ mask_input' = [mask_input EXCEPT ![phys[wid]] = x] /\ wmask' = Grow(wmask, wid, y)
  BY DEF EvaluateGate
<1>2. x = y
  BY <1>1, OperandMasks
<1> HIDE DEF x, y
<1> QED
  BY <1>1, <1>2, ReplayMask

(* One gate of the c_gamma pass.                                           *)
LEMMA GammaGateStep ==
    ASSUME IndInv, GammaGate
    PROVE  IndInv'
<1> DEFINE x == IF Now.op = "And" THEN Lambda_AND(wid) ELSE FabricMask(Now, Mask)
           y == IF Now.op = "And" THEN Lambda_AND(wid) ELSE FabricMask(Now, LogicalMask)
<1>1. /\ pass \in {"evaluate", "gamma"} /\ more /\ Step /\ wire_slot' = Repropagated
      /\ UNCHANGED <<prog, pass, live, slotMap, wshare>>
      /\ mask_input' = [mask_input EXCEPT ![phys[wid]] = x] /\ wmask' = Grow(wmask, wid, y)
  BY DEF GammaGate
<1>2. x = y
  BY <1>1, OperandMasks
<1> HIDE DEF x, y
<1> QED
  BY <1>1, <1>2, ReplayMask

(* The end of a replay.                                                    *)
LEMMA ReplayDoneStep ==
    ASSUME IndInv, GarbleDone \/ EvaluateDone \/ GammaDone
    PROVE  IndInv'
<1>1. PICK q \in {"gather", "gamma"} :
        /\ pass \in Replays /\ ~more /\ NextPass(q) /\ (q = "gamma" => pass = "garble")
        /\ UNCHANGED <<prog, live, slotMap, wire_slot, mask_input, wshare, wmask>>
  BY DEF GarbleDone, EvaluateDone, GammaDone, Replays
<1>2. /\ UNCHANGED <<prog, last_use, persist, phys, num_slots, lg_buf, lg_off, rep, wire_slot, mask_input, wshare, wmask>>
      /\ q \in Passes /\ pass \in AfterSlot /\ pass # "liveness" /\ prog \in Programs
  BY <1>1 DEF live, slotMap, Passes, Replays, AfterSlot, IndInv, PlaceInv
<1>3. /\ PlaceInv' /\ wid' = num_in /\ wid = prog.num_wires /\ pass' = q
      /\ num_in = prog.num_inputs /\ num_in' = num_in /\ num_in \in Nat /\ prog.num_wires \in Nat
      /\ num_in <= prog.num_wires
  BY <1>1, <1>2, NextPlace DEF IndInv
<1>4. pass' \in AfterSlot /\ pass' # "liveness" /\ pass' # "slot" /\ pass' \notin {"slot", "garble"}
  BY <1>1, <1>3 DEF AfterSlot
<1>5. LiveTo(prog, last_use, persist, prog.num_wires) /\ LiveInv'
  BY <1>2, <1>4 DEF IndInv, LiveInv
<1>6. Needed' = 0 .. (num_in - 1) /\ Needed' \subseteq Permanent(prog, persist)
  <2>1. prog.num_inputs \in prog.num_inputs .. prog.num_wires
    BY <1>3
  <2> QED
    BY <1>2, <1>3, <1>5, <2>1, InputsLive DEF Needed
<1>7. MapInv'
  BY <1>2, <1>4 DEF IndInv, MapInv
<1>8. ShareInv'
  <2>1. /\ wire_slot' \in [0 .. (num_slots' - 1) -> SUBSET Nat] /\ SharesTo(prog', wshare', prog'.num_wires)
        /\ HoldsFor(Permanent(prog', persist'), wire_slot', phys', wshare')
    BY <1>2 DEF IndInv, ShareInv
  <2>2. HoldsFor(Needed', wire_slot', phys', wshare')
    BY <1>2, <1>6, <2>1 DEF HoldsFor
  <2> QED
    BY <1>4, <2>1, <2>2 DEF ShareInv
<1>9. DrawInv'
  BY <1>2, <1>3 DEF IndInv, DrawInv
<1>10. MaskInv'
  <2>1. DOMAIN mask_input' = 0 .. (num_slots' - 1)
    BY <1>2 DEF IndInv, MaskInv
  <2>2. CASE q = "gamma"
    BY <1>1, <1>2, <1>3, <1>4, <1>6, <2>1, <2>2 DEF IndInv, MaskInv
  <2>3. CASE q = "gather"
    BY <1>3, <2>1, <2>3 DEF MaskInv
  <2> QED
    BY <1>1, <2>2, <2>3
<1> QED
  BY <1>3, <1>5, <1>7, <1>8, <1>9, <1>10 DEF IndInv

(* The outputs are gathered.                                               *)
LEMMA GatherStep ==
    ASSUME IndInv, GatherOutputs
    PROVE  IndInv'
<1>1. /\ pass = "gather" /\ pass' = "done" /\ pass \in AfterSlot /\ pass' \in AfterSlot /\ pass' \in Passes
      /\ pass' \notin Replays \cup {"slot"} /\ pass' # "liveness" /\ pass' # "slot"
      /\ UNCHANGED <<prog, pc, gi, last_use, persist, phys, num_slots, lg_buf, lg_off, rep, wire_slot, mask_input, wshare, wmask>>
  BY DEF GatherOutputs, live, slotMap, AfterSlot, Passes, Replays
<1>2. PlaceInv' /\ LiveInv'
  BY <1>1 DEF IndInv, PlaceInv, LiveInv, wid, num_in
<1>3. MapInv' /\ ShareInv'
  BY <1>1 DEF IndInv, MapInv, ShareInv
<1>4. DrawInv' /\ MaskInv'
  BY <1>1 DEF IndInv, DrawInv, MaskInv, num_in
<1> QED
  BY <1>2, <1>3, <1>4 DEF IndInv

(* The invariant holds before the first pass.                              *)
LEMMA InitIndInv == Init => IndInv
<1> SUFFICES ASSUME Init PROVE IndInv
  OBVIOUS
<1>1. /\ prog \in Programs /\ pass = "liveness" /\ pc = 0 /\ gi = 0 /\ freelist = <<>> /\ rep = <<>>
      /\ lg_buf = <<>> /\ lg_off = 0 /\ pass \in Passes /\ pass \notin AfterSlot /\ pass \notin Replays \cup {"slot"}
  BY DEF Init, Passes, Replays, AfterSlot
<1>2. num_in \in Nat /\ num_in = prog.num_inputs /\ Len(prog.gates) \in Nat /\ wid = num_in
  <2>1. num_in \in Nat /\ num_in = prog.num_inputs /\ Len(prog.gates) \in Nat
    BY <1>1, Canonical DEF num_in
  <2> QED
    BY <1>1, <2>1 DEF wid
<1>3. PlaceInv
  BY <1>1, <1>2, GateIndex DEF PlaceInv
<1>4. LiveInv
  <2>1. /\ last_use = [w \in 0 .. (num_in - 1) |-> -1]
        /\ persist = [w \in 0 .. (num_in - 1) |-> TRUE]
    BY DEF Init
  <2>2. LiveTo(prog, last_use, persist, wid)
    BY <1>2, <2>1 DEF LiveTo
  <2> QED
    BY <1>1, <2>2 DEF LiveInv
<1>5. MapInv /\ ShareInv
  BY <1>1 DEF MapInv, ShareInv
<1>6. DrawInv
  BY <1>1, EmptySeq DEF DrawInv
<1>7. MaskInv
  BY <1>1 DEF MaskInv
<1> QED
  BY <1>3, <1>4, <1>5, <1>6, <1>7 DEF IndInv

(* Every step of every pass keeps it.                                      *)
LEMMA StepIndInv == IndInv /\ [Next]_vars => IndInv'
<1> SUFFICES ASSUME IndInv, [Next]_vars PROVE IndInv'
  OBVIOUS
<1>1. CASE UNCHANGED vars
  <2>1. UNCHANGED <<prog, pass, pc, gi, last_use, persist, phys, num_slots, freelist, lg_buf, lg_off, rep, wire_slot, mask_input, wshare, wmask>>
    BY <1>1 DEF vars, live, slotMap
  <2>2. UNCHANGED <<num_in, wid, Needed>>
    BY <2>1 DEF num_in, wid, Needed
  <2>3. PlaceInv' /\ LiveInv' /\ MapInv'
    BY <2>1, <2>2 DEF IndInv, PlaceInv, LiveInv, MapInv
  <2>4. ShareInv' /\ DrawInv' /\ MaskInv'
    BY <2>1, <2>2 DEF IndInv, ShareInv, DrawInv, MaskInv
  <2> QED
    BY <2>3, <2>4 DEF IndInv
<1>2. CASE Next
  BY <1>1, <1>2, LivenessGateStep, LivenessDoneStep, SlotGateStep, SlotDoneStep, GarbleGateStep,
     EvaluateGateStep, GammaGateStep, ReplayDoneStep, GatherStep DEF Next, Ended
<1> QED
  BY <1>1, <1>2

(* It holds in every state of a run.                                       *)
LEMMA PassesInductive == Spec => []IndInv
<1> QED
  BY InitIndInv, StepIndInv, PTL DEF Spec

(* After the liveness pass its table gives the wires still needed.         *)
LEMMA NeededIsLive == IndInv /\ pass # "liveness" => LiveWires = Needed
<1> SUFFICES ASSUME IndInv, pass # "liveness" PROVE LiveWires = Needed
  OBVIOUS
<1>1. prog \in Programs /\ gi = GI(prog, wid) /\ pc \in 0 .. Len(prog.gates)
  BY DEF IndInv, PlaceInv
<1>2. num_in \in Nat /\ prog.num_wires = num_in + Len(prog.gates) /\ Len(prog.gates) \in Nat
  BY <1>1, Canonical DEF num_in
<1>3. wid \in Nat /\ wid <= prog.num_wires /\ prog.num_wires \in Nat
  BY <1>1, <1>2 DEF wid
<1>4. {w \in Wires : w < wid} = 0 .. (wid - 1)
  BY <1>3 DEF Wires
<1> QED
  BY <1>1, <1>4 DEF LiveWires, Needed, LiveAt

(* While slots are handed out, two wires that are both still needed never  *)
(* share a slot and no slot in use is free (AG2PCSlotMaskPass's alloc_slot *)
(* and free_if_dead): for every set of canonical programs.                 *)
THEOREM SlotsNotAliased == Spec => []NoAliasing
<1>1. IndInv => NoAliasing
  <2> SUFFICES ASSUME IndInv, pass = "slot"
               PROVE  /\ \A v, w \in LiveWires : phys[v] = phys[w] => v = w
                      /\ \A w \in LiveWires : phys[w] \in DOMAIN wire_slot /\ ~Contains(freelist, phys[w])
                      /\ ToSet(freelist) \subseteq DOMAIN wire_slot
                      /\ IsInjective(freelist)
    BY DEF NoAliasing
  <2>1. /\ prog \in Programs /\ LiveTo(prog, last_use, persist, prog.num_wires)
        /\ MapTo(prog, last_use, persist, phys, num_slots, wid)
        /\ FreeTo(prog, last_use, persist, phys, num_slots, freelist, wid)
        /\ wire_slot \in [0 .. (num_slots - 1) -> SUBSET Nat] /\ pc \in 0 .. Len(prog.gates)
    BY DEF IndInv, PlaceInv, LiveInv, MapInv, ShareInv
  <2>2. LiveWires = LiveAt(prog, last_use, persist, wid)
    BY NeededIsLive DEF Needed
  <2>3. wid \in prog.num_inputs .. prog.num_wires
    <3>1. num_in \in Nat /\ num_in = prog.num_inputs /\ prog.num_wires = num_in + Len(prog.gates) /\ Len(prog.gates) \in Nat
      BY <2>1, Canonical DEF num_in
    <3> QED
      BY <2>1, <3>1 DEF wid
  <2>4. \A v, w \in LiveWires : phys[v] = phys[w] => v = w
    BY <2>1, <2>2, <2>3, LiveApart
  <2>5. \A w \in LiveWires : phys[w] \in DOMAIN wire_slot
    BY <2>1, <2>2 DEF LiveAt, MapTo
  <2>6. /\ DOMAIN freelist = 1 .. Len(freelist) /\ IsInjective(freelist)
        /\ \A k \in DOMAIN freelist : freelist[k] \in 0 .. (num_slots - 1)
    BY <2>1, LenProperties, ZenonT(60) DEF FreeTo
  <2>7. \A w \in LiveWires : ~Contains(freelist, phys[w])
    BY <2>1, <2>2, <2>6 DEF FreeTo, Contains
  <2>8. ToSet(freelist) \subseteq DOMAIN wire_slot
    BY <2>1, <2>6 DEF ToSet
  <2> QED
    BY <2>4, <2>5, <2>6, <2>7, <2>8
<1> QED
  BY <1>1, PassesInductive, PTL

(* In every pass and at every gate, the slot of a wire that is still       *)
(* needed holds that wire's share, and in the passes that propagate masks  *)
(* its mask (AG2PCGarblePass, AG2PCEvaluatePass, AG2PCGammaCheckPass).     *)
THEOREM SlotsIntact == Spec => []LiveIntact
<1>1. IndInv => LiveIntact
  <2> SUFFICES ASSUME IndInv PROVE LiveIntact
    OBVIOUS
  <2>1. ASSUME pass \in {"slot", "garble", "evaluate", "gamma"} PROVE \A w \in LiveWires : Share(w) = wshare[w]
    BY <2>1, NeededIsLive DEF IndInv, ShareInv, HoldsFor, Share, Replays
  <2>2. ASSUME pass \in {"garble", "evaluate", "gamma", "gather"}
        PROVE  \A w \in Wires : persist[w] => Share(w) = wshare[w]
    BY <2>2 DEF IndInv, ShareInv, HoldsFor, Share, AfterSlot, Permanent, Wires
  <2>3. ASSUME pass \in {"evaluate", "gamma"} PROVE \A w \in LiveWires : Mask(w) = wmask[w]
    BY <2>3, NeededIsLive DEF IndInv, MaskInv, HoldsFor, Mask
  <2> QED
    BY <2>1, <2>2, <2>3 DEF LiveIntact
<1> QED
  BY <1>1, PassesInductive, PTL
-------------------------------------------------------------------------------
(* The run as module Engine describes it: the wires before the c_gamma     *)
(* exchange, and the garbler's masks after it.                             *)
GivenWires(p) ==
    [k \in 1 .. p.num_inputs |-> [share |-> InputShare(k - 1),
                                  lamA |-> InputMask(Garbler, k - 1),
                                  lamB |-> InputMask(Evaluator, k - 1)]]
RunWires(p) == EvaluatedWires(p, GivenWires(p), p.num_inputs)
EW(p, w) == RunWires(p)[w + 1]
CB(p, w) == GammaCheckMasks(p, RunWires(p))[w + 1]

(* The mask of a gate that is no AND, from the masks of its operands.      *)
CombineMasks(g, x, y) ==
    IF IsConst(g) THEN ConstBit(g.op = "Const1") ELSE IF IsNot(g) THEN NotBit(x) ELSE XorBit(x, y)

(* The AND gates among the first k.                                        *)
AndsTo(p, k) == Cardinality({j \in AndGates(p) : j <= k})

(* The masks an AND of clear operands leaves at the evaluator.             *)
OpenedAnd(d, a, b) == XorBit(DrawnMask(d), AndBit(ValueAtBob(a), ValueAtBob(b)))

(* What Engine makes of the gate that defines wire v.                      *)
EngineGate(p, v) ==
    LET g == GateOf(p, v)
    IN /\ EW(p, v).lamA = ConstBit(g.op = "Const1")
       /\ g.op = "And" =>
            /\ EW(p, v).share = {p.num_inputs + AndsTo(p, v - p.num_inputs + 1)}
            /\ EW(p, v).lamB = OpenedAnd(p.num_inputs + AndsTo(p, v - p.num_inputs + 1),
                                         EW(p, g.in0), EW(p, g.in1))
            /\ CB(p, v) = EW(p, v).lamB
       /\ g.op # "And" =>
            /\ EW(p, v).share = Combine(g, EW(p, g.in0).share, EW(p, g.in1).share)
            /\ EW(p, v).lamB = CombineMasks(g, EW(p, g.in0).lamB, EW(p, g.in1).lamB)
            /\ CB(p, v) = CombineMasks(g, CB(p, g.in0), CB(p, g.in1))

EngineInput(p, w) ==
    /\ EW(p, w).share = InputShare(w) /\ EW(p, w).lamA = InputMask(Garbler, w)
    /\ EW(p, w).lamB = InputMask(Evaluator, w) /\ CB(p, w) = InputMask(Garbler, w)

(* The folds of module Engine, wire by wire.                               *)
LEMMA EngineIs ==
    ASSUME NEW p \in Programs
    PROVE  /\ \A w \in 0 .. (p.num_inputs - 1) : EngineInput(p, w)
           /\ \A v \in p.num_inputs .. (p.num_wires - 1) : EngineGate(p, v)
<1> DEFINE W == RunWires(p)
           M == GammaCheckMasks(p, RunWires(p))
           in == GivenWires(p)
           n == p.num_inputs
<1>1. /\ p \in BooleanProgram /\ RecordCanonical(p) /\ n = p.num_inputs /\ n \in Nat
      /\ p.num_wires = n + Len(p.gates) /\ Len(p.gates) \in Nat
  BY SlotPassesAssumption, Canonical
<1> HIDE DEF n
<1>2. \E A : in \in Seq(A)
  <2> DEFINE A == {in[k] : k \in 1 .. n}
  <2>1. in \in [1 .. n -> A]
    BY <1>1 DEF GivenWires
  <2> HIDE DEF in, A
  <2>2. in \in Seq(A)
    BY <1>1, <2>1
  <2> QED
    BY <2>2
<1>3. Len(in) = n
  <2>1. DOMAIN in = 1 .. n
    BY <1>1 DEF GivenWires
  <2> QED
    BY <1>1, <1>2, <2>1, LenProperties
<1>4. \A j \in 1 .. n : /\ in[j].share = InputShare(j - 1) /\ in[j].lamA = InputMask(Garbler, j - 1)
                             /\ in[j].lamB = InputMask(Evaluator, j - 1)
  BY <1>1 DEF GivenWires
<1> HIDE DEF in
<1>5. /\ \A j \in 1 .. n : W[j] = in[j]
      /\ \A k \in 1 .. Len(p.gates) : W[n + k] = GateWire(p, n, W, p.gates[k])
  <2>1. PICK A : in \in Seq(A)
    BY <1>2
  <2>2. W = EvaluatedWires(p, in, n)
    BY <1>1 DEF RunWires, in
  <2> HIDE DEF W
  <2> QED
    BY <1>1, <1>3, <2>1, <2>2, WiresAre
<1>6. /\ \A j \in 1 .. n : M[j] = W[j].lamA
      /\ \A k \in 1 .. Len(p.gates) : M[n + k] = CheckedMask(W, M, p.gates[k])
  <2> HIDE DEF W
  <2>2. M = GammaCheckMasks(p, W)
    BY DEF W
  <2> HIDE DEF M
  <2> QED
    BY <1>1, <2>2, MasksAre
<1>7. ASSUME NEW w \in 0 .. (n - 1) PROVE EngineInput(p, w)
  <2>1. w + 1 \in 1 .. n /\ (w + 1) - 1 = w
    BY <1>1
  <2>2. EW(p, w) = in[w + 1] /\ CB(p, w) = EW(p, w).lamA
    BY <1>5, <1>6, <2>1 DEF EW, CB
  <2> QED
    BY <1>4, <2>1, <2>2 DEF EngineInput
<1>8. ASSUME NEW v \in n .. (p.num_wires - 1) PROVE EngineGate(p, v)
  <2> DEFINE k == v - n + 1
             g == p.gates[k]
             d == n + AndsTo(p, k)
  <2>1. /\ k \in 1 .. Len(p.gates) /\ n + k = v + 1 /\ GateOf(p, v) = g
        /\ n + (k - 1) = v
    BY <1>1 DEF GateOf
  <2> HIDE DEF k
  <2>2. g \in Gate /\ g.out = v
    BY <1>1, <2>1, OperandsBelow
  <2>3. /\ EW(p, v) = GateWire(p, n, W, g) /\ CB(p, v) = CheckedMask(W, M, g)
    BY <1>5, <1>6, <2>1 DEF EW, CB
  <2>4. /\ W[g.in0 + 1] = EW(p, g.in0) /\ W[g.in1 + 1] = EW(p, g.in1) /\ W[g.out + 1] = EW(p, v)
        /\ M[g.in0 + 1] = CB(p, g.in0) /\ M[g.in1 + 1] = CB(p, g.in1)
    BY <2>2 DEF EW, CB
  <2>5. DrawOf(p, n, g) = d
    <3>1. {i \in AndGates(p) : p.gates[i].out <= g.out} = {j \in AndGates(p) : j <= k}
      <4> SUFFICES ASSUME NEW i \in AndGates(p) PROVE p.gates[i].out <= g.out <=> i <= k
        OBVIOUS
      <4>1. i \in 1 .. Len(p.gates)
        BY <1>1 DEF AndGates, BooleanProgram
      <4>2. p.gates[i].out = n + (i - 1)
        BY <1>1, <4>1, OperandsBelow
      <4>3. g.out = n + (k - 1)
        BY <2>1, <2>2
      <4>4. \A x, y, z \in Int : x + (y - 1) <= x + (z - 1) <=> y <= z
        OBVIOUS
      <4>5. n \in Int /\ i \in Int /\ k \in Int
        BY <1>1, <2>1, <4>1
      <4> QED
        BY <4>2, <4>3, <4>4, <4>5
    <3> QED
      BY <3>1 DEF DrawOf, AndsTo
  <2> HIDE DEF W, M, g, d
  <2>6. CASE g.op = "And"
    <3>1. EW(p, v) = EvalAnd(EW(p, g.in0), EW(p, g.in1), d) /\ CB(p, v) = EW(p, v).lamB
      BY <2>3, <2>4, <2>5, <2>6 DEF GateWire, IsConst, CheckedMask
    <3> QED
      BY <1>1, <2>1, <2>6, <3>1 DEF EngineGate, EvalAnd, OpenedAnd, ConstBit, d, k
  <2>7. CASE g.op = "Xor"
    <3>1. EW(p, v) = EvalXor(EW(p, g.in0), EW(p, g.in1)) /\ CB(p, v) = XorBit(CB(p, g.in0), CB(p, g.in1))
      BY <2>3, <2>4, <2>7 DEF GateWire, IsConst, CheckedMask
    <3> QED
      BY <2>1, <2>7, <3>1 DEF EngineGate, EvalXor, Combine, CombineMasks, IsConst, IsNot, ConstBit
  <2>8. CASE g.op = "Not"
    <3>1. EW(p, v) = EvalNot(EW(p, g.in0)) /\ CB(p, v) = NotBit(CB(p, g.in0))
      BY <2>3, <2>4, <2>8 DEF GateWire, IsConst, CheckedMask
    <3> QED
      BY <2>1, <2>8, <3>1 DEF EngineGate, EvalNot, Combine, CombineMasks, IsConst, IsNot, ConstBit
  <2>9. CASE g.op \in {"Const0", "Const1"}
    <3>1. EW(p, v) = PublicWire(ConstBit(g.op = "Const1")) /\ CB(p, v) = EW(p, v).lamA /\ IsConst(g) /\ g.op # "And"
      BY <2>3, <2>4, <2>9 DEF GateWire, IsConst, CheckedMask
    <3> QED
      BY <2>1, <3>1 DEF EngineGate, PublicWire, Combine, CombineMasks
  <2> QED
    BY <2>2, <2>6, <2>7, <2>8, <2>9, GateCases
<1> QED
  BY <1>1, <1>7, <1>8

(* Every wire of a run is a record of a share and two masks.               *)
LEMMA RunWiresShape ==
    ASSUME NEW p \in Programs, NEW w \in 0 .. (p.num_wires - 1)
    PROVE  IsWire(RunWires(p)[w + 1])
<1> DEFINE in == GivenWires(p)
           n == p.num_inputs
           A == {in[k] : k \in 1 .. n}
           W == RunWires(p)
<1>1. /\ p \in BooleanProgram /\ RecordCanonical(p) /\ n = p.num_inputs /\ n \in Nat
      /\ p.num_wires = n + Len(p.gates) /\ Len(p.gates) \in Nat
  BY SlotPassesAssumption, Canonical
<1> HIDE DEF n
<1>2. in \in [1 .. n -> A] /\ DOMAIN in = 1 .. n
  BY <1>1 DEF GivenWires
<1>3. ASSUME NEW k \in 1 .. n PROVE IsWire(in[k]) /\ in[k].share \subseteq 1 .. n
  <2>1. in[k] = [share |-> InputShare(k - 1), lamA |-> InputMask(Garbler, k - 1),
                 lamB |-> InputMask(Evaluator, k - 1)]
    BY <1>1 DEF GivenWires
  <2>2. InputShare(k - 1) \subseteq 1 .. n
    BY <1>1 DEF InputShare
  <2> HIDE DEF in
  <2> QED
    BY <2>1, <2>2 DEF IsWire
<1>4. W = EvaluatedWires(p, in, n)
  BY <1>1 DEF RunWires
<1> HIDE DEF in, A, W
<1>5. in \in Seq(A) /\ Len(in) = n
  BY <1>1, <1>2
<1>6. \A j \in 1 .. (n + Len(p.gates)) : IsWire(W[j])
  BY <1>1, <1>2, <1>3, <1>4, <1>5, SharesBounded
<1>7. w + 1 \in 1 .. (n + Len(p.gates))
  BY <1>1
<1> QED
  BY <1>6, <1>7 DEF W

(* How many gates the slot pass has been through.                          *)
Slotted == IF pass = "liveness" THEN 0 ELSE IF pass = "slot" THEN pc ELSE Len(prog.gates)

(* Each party runs its own passes, the gamma pass only if there is an AND. *)
PartyInv ==
    /\ party \in {Garbler, Evaluator}
    /\ pass \in {"garble", "gamma"} => party = Garbler
    /\ pass = "evaluate" => party = Evaluator
    /\ pass = "gamma" => rep # <<>>

(* The request to the triple generator: the operands of the ANDs so far.   *)
RequestInv ==
    /\ Len(rep) = AndsTo(prog, Slotted)
    /\ \A i \in AndGates(prog) : i <= Slotted =>
         rep[AndsTo(prog, i)] = <<EW(prog, prog.gates[i].in0).share, EW(prog, prog.gates[i].in1).share>>

(* What the wires should hold is what Engine says.                         *)
GhostInv ==
    /\ pass = "slot" => \A w \in 0 .. (wid - 1) : wshare[w] = EW(prog, w).share
    /\ pass \in AfterSlot => \A w \in 0 .. (prog.num_wires - 1) : wshare[w] = EW(prog, w).share
    /\ pass \in {"slot", "garble"} => \A w \in 0 .. (num_in - 1) : wmask[w] = InputMask(party, w)
    /\ pass = "evaluate" => \A w \in 0 .. (wid - 1) : wmask[w] = EW(prog, w).lamB
    /\ pass = "gamma" => \A w \in 0 .. (wid - 1) : wmask[w] = CB(prog, w)

FirstMasks == [w \in 0 .. (prog.num_wires - 1) |-> EW(prog, w).lamA]

(* The masks a party ends with.                                            *)
FinalMask(w) ==
    IF party = Evaluator THEN EW(prog, w).lamB ELSE IF AndGates(prog) = {} THEN EW(prog, w).lamA ELSE CB(prog, w)

(* The masks in the slots: at the garbler those of pass 1 until the gamma  *)
(* pass, and at the end those Engine returns.                              *)
SlotMaskInv ==
    /\ pass = "slot" /\ party = Garbler => HoldsFor(Needed, mask_input, phys, FirstMasks)
    /\ pass = "garble" => HoldsFor(Permanent(prog, persist), mask_input, phys, FirstMasks)
    /\ pass = "gather" => \A w \in Permanent(prog, persist) : mask_input[phys[w]] = FinalMask(w)

OutputsInv ==
    /\ pass # "liveness" => \A k \in DOMAIN prog.outputs : prog.outputs[k] \in Permanent(prog, persist)
    /\ pass = "done" =>
         out = [k \in DOMAIN prog.outputs |-> [share |-> EW(prog, prog.outputs[k]).share,
                                               mask  |-> FinalMask(prog.outputs[k])]]

EngInv == PartyInv /\ RequestInv /\ GhostInv /\ SlotMaskInv /\ OutputsInv

(* AND gates are counted one by one.                                       *)
LEMMA AndCount ==
    ASSUME NEW p \in Programs
    PROVE  /\ AndsTo(p, 0) = 0 /\ AndsTo(p, Len(p.gates)) = Cardinality(AndGates(p))
           /\ \A k \in Nat : AndsTo(p, k) \in Nat
           /\ \A k \in 1 .. Len(p.gates) :
                AndsTo(p, k) = IF p.gates[k].op = "And" THEN AndsTo(p, k - 1) + 1 ELSE AndsTo(p, k - 1)
           /\ AndGates(p) = {k \in 1 .. Len(p.gates) : p.gates[k].op = "And"} /\ Len(p.gates) \in Nat
           /\ IsFiniteSet(AndGates(p))
<1> DEFINE S(k) == {j \in AndGates(p) : j <= k}
<1>1. p \in BooleanProgram /\ Len(p.gates) \in Nat /\ DOMAIN p.gates = 1 .. Len(p.gates)
  BY SlotPassesAssumption, Canonical, LenProperties
<1>2. AndGates(p) = {k \in 1 .. Len(p.gates) : p.gates[k].op = "And"}
  BY <1>1 DEF AndGates
<1>3. IsFiniteSet(AndGates(p))
  BY <1>1, AndGatesFinite
<1>4. \A k : IsFiniteSet(S(k)) /\ Cardinality(S(k)) \in Nat
  <2> SUFFICES ASSUME NEW k PROVE IsFiniteSet(S(k)) /\ Cardinality(S(k)) \in Nat
    OBVIOUS
  <2>1. S(k) \in SUBSET AndGates(p)
    OBVIOUS
  <2> QED
    BY <1>3, <2>1, FS_Subset, FS_CardinalityType
<1>5. S(0) = {} /\ S(Len(p.gates)) = AndGates(p)
  BY <1>1, <1>2
<1>6. AndsTo(p, 0) = 0 /\ AndsTo(p, Len(p.gates)) = Cardinality(AndGates(p))
  BY <1>5, FS_EmptySet DEF AndsTo
<1>7. ASSUME NEW k \in 1 .. Len(p.gates)
      PROVE  AndsTo(p, k) = IF p.gates[k].op = "And" THEN AndsTo(p, k - 1) + 1 ELSE AndsTo(p, k - 1)
  <2>1. CASE p.gates[k].op = "And"
    <3>1. S(k) = S(k - 1) \cup {k} /\ k \notin S(k - 1)
      BY <1>1, <1>2, <2>1
    <3> HIDE DEF S
    <3>2. Cardinality(S(k)) = Cardinality(S(k - 1)) + 1
      BY <1>4, <3>1, FS_AddElement
    <3> QED
      BY <2>1, <3>2 DEF AndsTo, S
  <2>2. CASE p.gates[k].op # "And"
    <3>1. S(k) = S(k - 1)
      BY <1>1, <1>2, <2>2
    <3> QED
      BY <2>2, <3>1 DEF AndsTo
  <2> QED
    BY <2>1, <2>2
<1>8. \A k \in Nat : AndsTo(p, k) \in Nat
  BY <1>4 DEF AndsTo
<1> QED
  BY <1>1, <1>2, <1>3, <1>6, <1>7, <1>8

(* An AND has its place among those up to a later gate.                    *)
LEMMA AndsWithin ==
    ASSUME NEW p \in Programs, NEW i \in AndGates(p), NEW k \in Nat, i <= k
    PROVE  AndsTo(p, i) \in 1 .. AndsTo(p, k)
<1> DEFINE S(j) == {a \in AndGates(p) : a <= j}
<1>1. i \in Nat /\ IsFiniteSet(AndGates(p)) /\ AndGates(p) \subseteq Nat
  BY AndCount
<1>2. i \in S(i) /\ S(i) \in SUBSET S(k) /\ S(k) \in SUBSET AndGates(p)
  BY <1>1
<1> HIDE DEF S
<1>3. IsFiniteSet(S(k)) /\ IsFiniteSet(S(i))
  BY <1>1, <1>2, FS_Subset
<1>4. Cardinality(S(i)) <= Cardinality(S(k)) /\ Cardinality(S(i)) \in Nat /\ Cardinality(S(k)) \in Nat
  BY <1>2, <1>3, FS_Subset, FS_CardinalityType
<1>5. Cardinality(S(i)) # 0
  BY <1>2, <1>3, FS_EmptySet
<1>6. AndsTo(p, i) = Cardinality(S(i)) /\ AndsTo(p, k) = Cardinality(S(k))
  BY DEF AndsTo, S
<1> QED
  BY <1>4, <1>5, <1>6

(* From pass 1 on, the request, the shares and the pinned outputs stay.    *)
LEMMA EngKept ==
    ASSUME IndInv, EngInv, pass \in AfterSlot, pass' \in AfterSlot,
           UNCHANGED <<party, prog, persist, rep, wshare>>
    PROVE  /\ RequestInv' /\ num_in' = num_in /\ pass' # "slot" /\ pass' # "liveness"
           /\ \A w \in 0 .. (prog'.num_wires - 1) : wshare'[w] = EW(prog', w).share
           /\ \A k \in DOMAIN prog'.outputs : prog'.outputs[k] \in Permanent(prog', persist')
<1>1. pass # "liveness" /\ pass # "slot" /\ pass' # "liveness" /\ pass' # "slot"
  BY DEF AfterSlot
<1>2. Slotted' = Slotted
  BY <1>1 DEF Slotted
<1>3. RequestInv'
  BY <1>2 DEF EngInv, RequestInv
<1> QED
  BY <1>1, <1>3 DEF EngInv, GhostInv, OutputsInv, num_in

LEMMA LivenessGateEng ==
    ASSUME IndInv, EngInv, LivenessGate
    PROVE  EngInv'
<1>1. pass = "liveness" /\ pass' = "liveness" /\ UNCHANGED <<party, prog, rep>>
  BY DEF LivenessGate, slotMap
<1>2. Slotted' = Slotted /\ pass' \notin AfterSlot
  BY <1>1 DEF Slotted, AfterSlot
<1>3. RequestInv' /\ PartyInv'
  BY <1>1, <1>2 DEF EngInv, RequestInv, PartyInv
<1> QED
  BY <1>1, <1>2, <1>3 DEF EngInv, GhostInv, SlotMaskInv, OutputsInv

LEMMA LivenessDoneEng ==
    ASSUME IndInv, IndInv', EngInv, LivenessDone
    PROVE  EngInv'
<1>1. /\ pass = "liveness" /\ ~more /\ NextPass("slot") /\ "slot" \in Passes /\ prog \in Programs
      /\ UNCHANGED <<party, prog, rep>>
  BY DEF LivenessDone, Passes, IndInv, PlaceInv
<1>2. /\ wid' = num_in /\ pass' = "slot" /\ pc' = 0
      /\ num_in = prog.num_inputs /\ num_in' = num_in /\ num_in \in Nat /\ prog.num_wires \in Nat
      /\ num_in <= prog.num_wires
  BY <1>1, NextPlace DEF IndInv, NextPass
<1>3. Slotted' = Slotted /\ pass' \notin AfterSlot
  BY <1>1, <1>2 DEF Slotted, AfterSlot
<1>4. RequestInv' /\ PartyInv'
  BY <1>1, <1>2, <1>3 DEF EngInv, RequestInv, PartyInv
<1>5. \A w \in 0 .. (num_in - 1) : EngineInput(prog, w)
  BY <1>1, <1>2, EngineIs
<1>6. \A w \in 0 .. (num_in - 1) : /\ wshare'[w] = InputShare(w) /\ wmask'[w] = InputMask(party, w)
                                   /\ mask_input'[w] = InputMask(party, w)
  BY DEF LivenessDone
<1>7. GhostInv'
  BY <1>1, <1>2, <1>3, <1>5, <1>6 DEF GhostInv, EngineInput
<1>8. SlotMaskInv'
  <2>1. Needed' = 0 .. (num_in - 1)
    <3>1. LiveTo(prog', last_use', persist', prog'.num_wires)
      BY <1>2 DEF IndInv, LiveInv
    <3>2. num_in \in prog.num_inputs .. prog.num_wires
      BY <1>2
    <3> QED
      BY <1>1, <1>2, <3>1, <3>2, InputsLive DEF Needed
  <2>2. ASSUME NEW w \in 0 .. (num_in - 1), party' = Garbler
        PROVE  mask_input'[phys'[w]] = FirstMasks'[w]
    <3>1. phys'[w] = w
      BY <1>2 DEF LivenessDone, Wires
    <3>2. FirstMasks'[w] = EW(prog, w).lamA
      BY <1>1, <1>2 DEF FirstMasks
    <3> QED
      BY <1>1, <1>5, <1>6, <2>2, <3>1, <3>2 DEF EngineInput
  <2>3. party' = Garbler => HoldsFor(Needed', mask_input', phys', FirstMasks')
    BY <2>1, <2>2 DEF HoldsFor
  <2> QED
    BY <1>2, <2>3 DEF SlotMaskInv
<1>9. OutputsInv'
  <2>1. \A k \in DOMAIN prog.outputs : prog.outputs[k] \in 0 .. (prog.num_wires - 1)
    BY <1>1, Canonical
  <2>2. \A k \in DOMAIN prog.outputs : persist'[prog.outputs[k]]
    BY <2>1 DEF LivenessDone, Pinned, Wires
  <2> QED
    BY <1>1, <1>2, <2>1, <2>2 DEF OutputsInv, Permanent
<1> QED
  BY <1>4, <1>7, <1>8, <1>9 DEF EngInv

(* One more AND is in the request, or no more.                             *)
LEMMA RequestGrows ==
    ASSUME IndInv, EngInv, SlotGate
    PROVE  RequestInv'
<1>1. /\ pass = "slot" /\ more /\ Step /\ UNCHANGED <<party, prog, pass>> /\ prog \in Programs
      /\ pass \in Replays \cup {"slot"}
  BY DEF SlotGate, IndInv, PlaceInv
<1>2. /\ pc \in Nat /\ pc' = pc + 1 /\ pc + 1 \in 1 .. Len(prog.gates) /\ Now = prog.gates[pc + 1]
      /\ Slotted = pc /\ Slotted' = pc + 1 /\ Now \in Gate /\ (pc + 1) - 1 = pc
  <2>1. pc \in 0 .. Len(prog.gates) /\ pc < Len(prog.gates) /\ Len(prog.gates) \in Nat /\ pc' = pc + 1
    BY <1>1, Canonical DEF IndInv, PlaceInv, more, Step
  <2>2. Slotted = pc /\ Slotted' = pc + 1
    BY <1>1, <2>1 DEF Slotted
  <2> QED
    BY <1>1, <2>1, <2>2, AtGate DEF Now, IndInv
<1>3. /\ AndGates(prog) = {k \in 1 .. Len(prog.gates) : prog.gates[k].op = "And"}
      /\ AndsTo(prog, pc + 1) = IF Now.op = "And" THEN AndsTo(prog, pc) + 1 ELSE AndsTo(prog, pc)
      /\ Len(prog.gates) \in Nat
  BY <1>1, <1>2, AndCount
<1>4. /\ Len(rep) = AndsTo(prog, pc) /\ Len(rep) \in Nat /\ rep \in Seq((SUBSET Nat) \X (SUBSET Nat))
      /\ \A i \in AndGates(prog) : i <= pc =>
           rep[AndsTo(prog, i)] = <<EW(prog, prog.gates[i].in0).share, EW(prog, prog.gates[i].in1).share>>
  BY <1>2, LenProperties DEF EngInv, RequestInv, IndInv, DrawInv
<1>5. CASE Now.op # "And"
  <2>1. rep' = rep
    BY <1>5 DEF SlotGate
  <2>2. \A i \in AndGates(prog) : i <= pc + 1 => i <= pc
    BY <1>2, <1>3, <1>5
  <2> QED
    BY <1>1, <1>2, <1>3, <1>4, <1>5, <2>1, <2>2 DEF RequestInv
<1>6. CASE Now.op = "And"
  <2> DEFINE e == <<Share(Now.in0), Share(Now.in1)>>
  <2>1. rep' = Append(rep, e)
    BY <1>6 DEF SlotGate
  <2>2. Now.in0 \in Reads(Now) /\ Now.in1 \in Reads(Now)
    BY <1>6 DEF Reads, IsConst, IsNot
  <2>3. \A w \in Reads(Now) : Share(w) = wshare[w] /\ Share(w) \in SUBSET Nat /\ w \in 0 .. (wid - 1)
    BY <1>1, OperandShares DEF Needed, LiveAt
  <2>4. e \in (SUBSET Nat) \X (SUBSET Nat)
    BY <2>2, <2>3
  <2>5. e = <<EW(prog, Now.in0).share, EW(prog, Now.in1).share>>
    BY <1>1, <2>2, <2>3 DEF EngInv, GhostInv
  <2> HIDE DEF e
  <2>6. Len(rep') = Len(rep) + 1 /\ rep'[Len(rep) + 1] = e /\ \A j \in 1 .. Len(rep) : rep'[j] = rep[j]
    BY <1>4, <2>1, <2>4, AppendProperties
  <2>7. ASSUME NEW i \in AndGates(prog), i <= pc + 1
        PROVE  rep'[AndsTo(prog, i)] = <<EW(prog, prog.gates[i].in0).share, EW(prog, prog.gates[i].in1).share>>
    <3>1. CASE i = pc + 1
      BY <1>2, <1>3, <1>4, <1>6, <2>5, <2>6, <3>1
    <3>2. CASE i # pc + 1
      <4>1. i \in Nat /\ i <= pc /\ i \in 1 .. Len(prog.gates) /\ prog.gates[i].op = "And"
        BY <1>2, <1>3, <2>7, <3>2
      <4>2. AndsTo(prog, i) \in 1 .. AndsTo(prog, pc)
        BY <1>1, <1>2, <4>1, AndsWithin
      <4> QED
        BY <1>4, <2>6, <4>1, <4>2
    <3> QED
      BY <3>1, <3>2
  <2> QED
    BY <1>1, <1>2, <1>3, <1>4, <1>6, <2>6, <2>7 DEF RequestInv
<1> QED
  BY <1>5, <1>6

(* What a gate's operands make of the next wire, for any values that the   *)
(* wires it reads hold.                                                    *)
LEMMA CombinedMasks ==
    ASSUME NEW g, NEW x0, NEW x1, NEW y0, NEW y1,
           g.in0 \in Reads(g) => x0 = y0, g.in1 \in Reads(g) => x1 = y1
    PROVE  /\ CombineMasks(g, x0, x1) = CombineMasks(g, y0, y1)
           /\ Combine(g, x0, x1) = Combine(g, y0, y1)
<1>1. CASE IsConst(g)
  BY <1>1 DEF CombineMasks, Combine
<1>2. CASE ~IsConst(g) /\ IsNot(g)
  BY <1>2 DEF CombineMasks, Combine, Reads
<1>3. CASE ~IsConst(g) /\ ~IsNot(g)
  BY <1>3 DEF CombineMasks, Combine, Reads
<1> QED
  BY <1>1, <1>2, <1>3

(* Where a pass is, in Engine's terms: the next wire and its operands.     *)
LEMMA EngineAt ==
    ASSUME IndInv, more, pass # "liveness"
    PROVE  /\ EngineGate(prog, wid) /\ Now = GateOf(prog, wid) /\ Now \in Gate
           /\ wid - num_in + 1 = pc + 1 /\ pc \in Nat /\ num_in = prog.num_inputs /\ num_in \in Nat
           /\ wid \in 0 .. (prog.num_wires - 1) /\ wid \in Nat /\ prog.num_wires \in Nat /\ prog \in Programs
           /\ pc + 1 \in 1 .. Len(prog.gates) /\ Now = prog.gates[pc + 1]
           /\ \A w \in Reads(Now) : w \in 0 .. (wid - 1) /\ w \in 0 .. (prog.num_wires - 1)
<1>1. prog \in Programs /\ pc \in 0 .. Len(prog.gates) /\ pc < Len(prog.gates) /\ Len(prog.gates) \in Nat
  BY Canonical DEF IndInv, PlaceInv, more
<1>2. /\ wid \in prog.num_inputs .. (prog.num_wires - 1) /\ Now = GateOf(prog, wid)
      /\ Now \in Gate /\ wid \in Nat /\ wid \in 0 .. (prog.num_wires - 1)
      /\ num_in = prog.num_inputs /\ num_in \in Nat /\ prog.num_wires \in Nat
  BY AtGate DEF IndInv
<1>3. EngineGate(prog, wid)
  BY <1>1, <1>2, EngineIs
<1>4. wid - num_in + 1 = pc + 1 /\ pc \in Nat /\ pc + 1 \in 1 .. Len(prog.gates)
  BY <1>1, <1>2 DEF wid
<1>5. \A w \in Reads(Now) : w \in 0 .. (wid - 1)
  BY <1>1, <1>2, Canonical
<1>6. \A w \in 0 .. (wid - 1) : w \in 0 .. (prog.num_wires - 1)
  BY <1>2
<1> QED
  BY <1>1, <1>2, <1>3, <1>4, <1>5, <1>6 DEF Now

LEMMA SlotGateEng ==
    ASSUME IndInv, IndInv', EngInv, SlotGate
    PROVE  EngInv'
<1>1. /\ pass = "slot" /\ more /\ Step /\ UNCHANGED <<party, prog, pass, last_use, persist, wmask>>
      /\ pass' \notin AfterSlot /\ pass # "liveness" /\ pass \in Replays \cup {"slot"}
  BY DEF SlotGate, live, AfterSlot
<1>2. wid' = wid + 1 /\ num_in' = num_in
  BY <1>1, StepPlace DEF IndInv, num_in
<1>3. /\ EngineGate(prog, wid) /\ Now = GateOf(prog, wid) /\ Now \in Gate
      /\ wid - num_in + 1 = pc + 1 /\ pc \in Nat /\ num_in = prog.num_inputs /\ num_in \in Nat
      /\ wid \in 0 .. (prog.num_wires - 1) /\ wid \in Nat /\ prog.num_wires \in Nat /\ prog \in Programs
      /\ pc + 1 \in 1 .. Len(prog.gates) /\ Now = prog.gates[pc + 1]
      /\ \A w \in Reads(Now) : w \in 0 .. (wid - 1) /\ w \in 0 .. (prog.num_wires - 1)
  BY <1>1, EngineAt
<1>4. PICK s \in SUBSET Nat :
        /\ AssignSlot(Now, alloc_slot, s) /\ wshare' = Grow(wshare, wid, s) /\ DrawInv'
        /\ Now.op # "And" => s = Combine(Now, wshare[Now.in0], wshare[Now.in1])
        /\ Now.op = "And" => s = {num_in + Len(rep) + 1}
  BY SlotAssigns
<1>5. \A w \in 0 .. (wid - 1) : wshare[w] = EW(prog, w).share
  BY <1>1 DEF EngInv, GhostInv
<1>6. s = EW(prog, wid).share
  <2>1. CASE Now.op = "And"
    <3>1. Len(rep) = AndsTo(prog, pc) /\ AndsTo(prog, pc) \in Nat
      BY <1>1, <1>3, AndCount DEF EngInv, RequestInv, Slotted
    <3>2. AndsTo(prog, pc + 1) = AndsTo(prog, pc) + 1
      <4>1. (pc + 1) - 1 = pc
        BY <1>3
      <4> QED
        BY <1>3, <2>1, <4>1, AndCount
    <3>3. EW(prog, wid).share = {num_in + AndsTo(prog, pc + 1)}
      <4>1. EW(prog, wid).share = {prog.num_inputs + AndsTo(prog, wid - prog.num_inputs + 1)}
        <5>1. EngineGate(prog, wid) /\ GateOf(prog, wid).op = "And"
          BY <1>3, <2>1
        <5> QED
          BY <5>1, Zenon DEF EngineGate
      <4>2. prog.num_inputs = num_in /\ wid - num_in + 1 = pc + 1
        BY <1>3
      <4> QED
        BY <4>1, <4>2, Zenon
    <3>4. num_in + (Len(rep) + 1) = num_in + Len(rep) + 1
      <4>1. \A x, y \in Nat : x + (y + 1) = x + y + 1
        OBVIOUS
      <4>2. num_in \in Nat /\ Len(rep) \in Nat
        BY <1>3, <3>1
      <4> QED
        BY <4>1, <4>2
    <3> QED
      BY <1>4, <2>1, <3>1, <3>2, <3>3, <3>4
  <2>2. CASE Now.op # "And"
    <3>1. EW(prog, wid).share = Combine(Now, EW(prog, Now.in0).share, EW(prog, Now.in1).share)
      BY <1>3, <2>2 DEF EngineGate
    <3>2. Combine(Now, wshare[Now.in0], wshare[Now.in1])
            = Combine(Now, EW(prog, Now.in0).share, EW(prog, Now.in1).share)
      <4>1. \A g : (g.in0 \in Reads(g) => wshare[g.in0] = EW(prog, g.in0).share)
                   /\ (g.in1 \in Reads(g) => wshare[g.in1] = EW(prog, g.in1).share)
                   => Combine(g, wshare[g.in0], wshare[g.in1])
                        = Combine(g, EW(prog, g.in0).share, EW(prog, g.in1).share)
        BY CombinedMasks
      <4> QED
        BY <1>3, <1>5, <4>1
    <3> QED
      BY <1>4, <2>2, <3>1, <3>2
  <2> QED
    BY <2>1, <2>2
<1>7. \A w \in 0 .. wid : wshare'[w] = EW(prog, w).share
  BY <1>3, <1>4, <1>5, <1>6 DEF Grow
<1>8. GhostInv'
  <2>1. (wid + 1) - 1 = wid
    BY <1>3
  <2> QED
    BY <1>1, <1>2, <1>7, <2>1 DEF EngInv, GhostInv
<1>9. SlotMaskInv'
  <2> SUFFICES ASSUME party = Garbler PROVE HoldsFor(Needed', mask_input', phys', FirstMasks')
    BY <1>1 DEF SlotMaskInv
  <2>1. /\ MapTo(prog, last_use, persist, phys', num_slots', wid + 1)
        /\ mask_input'[phys'[wid]] = ConstBit(Now.op = "Const1")
        /\ \A w \in 0 .. (wid - 1) :
             /\ phys'[w] = phys[w]
             /\ phys'[w] # phys'[wid] => mask_input'[phys'[w]] = mask_input[phys[w]]
    BY <1>1, <1>4, AssignStep DEF live
  <2>2. FirstMasks' = FirstMasks /\ FirstMasks[wid] = ConstBit(Now.op = "Const1")
    <3>1. FirstMasks[wid] = EW(prog, wid).lamA
      BY <1>3 DEF FirstMasks
    <3>2. EW(prog, wid).lamA = ConstBit(Now.op = "Const1")
      BY <1>3 DEF EngineGate
    <3>3. FirstMasks' = FirstMasks
      BY <1>1 DEF FirstMasks
    <3> QED
      BY <3>1, <3>2, <3>3
  <2>3. HoldsFor(LiveAt(prog, last_use, persist, wid), mask_input, phys', FirstMasks)
    <3>1. HoldsFor(Needed, mask_input, phys, FirstMasks) /\ Needed \subseteq 0 .. (wid - 1)
      BY <1>1 DEF EngInv, SlotMaskInv, Needed, LiveAt
    <3> QED
      BY <2>1, <3>1 DEF HoldsFor, Needed
  <2>4. \A w \in 0 .. (wid - 1) : /\ FirstMasks[w] = FirstMasks[w]
                                  /\ phys'[w] # phys'[wid] => mask_input'[phys'[w]] = mask_input[phys'[w]]
    BY <2>1
  <2>5. wid \in prog.num_inputs .. (prog.num_wires - 1) /\ LiveTo(prog, last_use, persist, prog.num_wires)
    BY <1>1, AtGate DEF IndInv, LiveInv
  <2>6. mask_input'[phys'[wid]] = FirstMasks[wid]
    BY <2>1, <2>2
  <2>7. HoldsFor(LiveAt(prog, last_use, persist, wid + 1), mask_input', phys', FirstMasks)
    BY <1>3, <2>1, <2>3, <2>4, <2>5, <2>6, WriteLive
  <2>8. Needed' = LiveAt(prog, last_use, persist, wid + 1)
    BY <1>1, <1>2 DEF Needed
  <2> QED
    BY <2>2, <2>7, <2>8
<1>10. OutputsInv'
  BY <1>1 DEF EngInv, OutputsInv
<1>11. PartyInv'
  BY <1>1 DEF EngInv, PartyInv
<1> QED
  BY <1>8, <1>9, <1>10, <1>11, RequestGrows DEF EngInv

LEMMA SlotDoneEng ==
    ASSUME IndInv, EngInv, SlotDone
    PROVE  EngInv'
<1> DEFINE q == IF party = Garbler THEN "garble" ELSE "evaluate"
<1>1. /\ pass = "slot" /\ ~more /\ NextPass(q) /\ q \in Passes /\ prog \in Programs /\ q \in AfterSlot
      /\ UNCHANGED <<party, prog, last_use, persist, phys, rep, mask_input, wshare, wmask>>
  BY DEF SlotDone, Passes, IndInv, PlaceInv, live, slotMap, AfterSlot
<1> HIDE DEF q
<1>2. /\ wid' = num_in /\ pass' = q /\ wid = prog.num_wires
      /\ num_in = prog.num_inputs /\ num_in' = num_in /\ num_in \in Nat /\ prog.num_wires \in Nat
      /\ num_in <= prog.num_wires
  BY <1>1, NextPlace DEF IndInv
<1>3. Slotted' = Slotted
  <2>1. pc = Len(prog.gates)
    <3>1. pc \in 0 .. Len(prog.gates) /\ ~(pc < Len(prog.gates)) /\ Len(prog.gates) \in Nat
      BY <1>1, Canonical DEF IndInv, PlaceInv, more
    <3> QED
      BY <3>1
  <2> QED
    BY <1>1, <1>2, <2>1 DEF Slotted, q
<1>4. RequestInv' /\ PartyInv'
  <2>1. Garbler # Evaluator
    BY SlotPassesAssumption
  <2> QED
    BY <1>1, <1>2, <1>3, <2>1 DEF EngInv, RequestInv, PartyInv, q
<1>5. \A w \in 0 .. (num_in - 1) : EngineInput(prog, w)
  BY <1>1, <1>2, EngineIs
<1>6. GhostInv'
  <2>1. \A w \in 0 .. (prog.num_wires - 1) : wshare[w] = EW(prog, w).share
    BY <1>1, <1>2 DEF EngInv, GhostInv
  <2>2. \A w \in 0 .. (num_in - 1) : wmask[w] = InputMask(party, w)
    BY <1>1 DEF EngInv, GhostInv
  <2>3. party # Garbler => party = Evaluator
    BY DEF EngInv, PartyInv
  <2> QED
    BY <1>1, <1>2, <1>5, <2>1, <2>2, <2>3 DEF GhostInv, EngineInput, q
<1>7. SlotMaskInv'
  <2> SUFFICES ASSUME party = Garbler PROVE HoldsFor(Permanent(prog, persist), mask_input, phys, FirstMasks)
    BY <1>1, <1>2 DEF SlotMaskInv, q, FirstMasks
  <2>1. HoldsFor(Needed, mask_input, phys, FirstMasks)
    BY <1>1 DEF EngInv, SlotMaskInv
  <2>2. Permanent(prog, persist) \subseteq Needed
    <3>1. LiveTo(prog, last_use, persist, prog.num_wires)
      BY <1>1 DEF IndInv, LiveInv
    <3>2. prog.num_wires \in prog.num_inputs .. prog.num_wires
      BY <1>2
    <3> QED
      BY <1>1, <1>2, <3>1, <3>2, InputsLive DEF Needed
  <2> QED
    BY <2>1, <2>2 DEF HoldsFor
<1>8. OutputsInv'
  BY <1>1, <1>2 DEF EngInv, OutputsInv, q
<1> QED
  BY <1>4, <1>6, <1>7, <1>8 DEF EngInv

LEMMA GarbleGateEng ==
    ASSUME IndInv, EngInv, GarbleGate
    PROVE  EngInv'
<1>1. /\ pass = "garble" /\ pass' = "garble" /\ pass \in AfterSlot
      /\ UNCHANGED <<party, prog, persist, phys, rep, mask_input, wshare, wmask>>
  BY DEF GarbleGate, live, slotMap, AfterSlot
<1>2. /\ RequestInv' /\ num_in' = num_in /\ pass' # "slot" /\ pass' # "liveness"
      /\ \A w \in 0 .. (prog'.num_wires - 1) : wshare'[w] = EW(prog', w).share
      /\ \A k \in DOMAIN prog'.outputs : prog'.outputs[k] \in Permanent(prog', persist')
  BY <1>1, EngKept
<1>3. PartyInv' /\ GhostInv'
  BY <1>1, <1>2 DEF EngInv, PartyInv, GhostInv
<1>4. SlotMaskInv' /\ OutputsInv'
  BY <1>1, <1>2 DEF EngInv, SlotMaskInv, OutputsInv, FirstMasks
<1> QED
  BY <1>2, <1>3, <1>4 DEF EngInv

(* The masks that the propagating passes compute for a wire.               *)
LEMMA FabricIsMasks ==
    ASSUME NEW g \in Gate, g.op # "And"
    PROVE  FabricMask(g, LogicalMask) = CombineMasks(g, wmask[g.in0], wmask[g.in1])
<1>1. IsConst(g) \/ g.op = "Not" \/ g.op = "Xor"
  BY DEF Gate, Op, IsConst
<1>2. CASE IsConst(g)
  BY <1>2 DEF FabricMask, CombineMasks, IsConst
<1>3. CASE g.op = "Not"
  BY <1>3 DEF FabricMask, CombineMasks, IsConst, IsNot, LogicalMask
<1>4. CASE g.op = "Xor"
  BY <1>4 DEF FabricMask, CombineMasks, IsConst, IsNot, LogicalMask
<1> QED
  BY <1>1, <1>2, <1>3, <1>4

(* One more wire of a pass that propagates masks, of mask x.               *)
LEMMA MaskGateEng ==
    ASSUME IndInv, EngInv, pass \in {"evaluate", "gamma"}, more, Step, NEW x,
           UNCHANGED <<party, prog, pass, live, slotMap, out, wshare>>, wmask' = Grow(wmask, wid, x),
           pass = "evaluate" => x = EW(prog, wid).lamB,
           pass = "gamma" => x = CB(prog, wid)
    PROVE  EngInv'
<1>1. /\ pass \in AfterSlot /\ pass' = pass /\ pass # "liveness" /\ pass \notin {"slot", "garble", "gather", "done"}
      /\ UNCHANGED <<party, prog, persist, rep, wshare>>
  BY DEF live, slotMap, AfterSlot
<1>2. /\ RequestInv' /\ num_in' = num_in /\ pass' # "slot" /\ pass' # "liveness"
      /\ \A w \in 0 .. (prog'.num_wires - 1) : wshare'[w] = EW(prog', w).share
      /\ \A k \in DOMAIN prog'.outputs : prog'.outputs[k] \in Permanent(prog', persist')
  BY <1>1, EngKept
<1>3. wid' = wid + 1 /\ wid \in Nat /\ (wid + 1) - 1 = wid
  BY <1>1, StepPlace, AtGate DEF IndInv
<1>4. wmask'[wid] = x /\ \A w \in 0 .. (wid - 1) : wmask'[w] = wmask[w]
  BY <1>3 DEF Grow
<1>5. \A w \in 0 .. wid : w = wid \/ w \in 0 .. (wid - 1)
  BY <1>3
<1>6. PartyInv'
  BY <1>1 DEF EngInv, PartyInv
<1>7. GhostInv'
  <2>1. pass = "evaluate" => \A w \in 0 .. wid : wmask'[w] = EW(prog, w).lamB
    BY <1>4, <1>5 DEF EngInv, GhostInv
  <2>2. pass = "gamma" => \A w \in 0 .. wid : wmask'[w] = CB(prog, w)
    BY <1>4, <1>5 DEF EngInv, GhostInv
  <2> QED
    BY <1>1, <1>2, <1>3, <2>1, <2>2 DEF GhostInv
<1>8. SlotMaskInv' /\ OutputsInv'
  BY <1>1, <1>2 DEF SlotMaskInv, OutputsInv
<1> QED
  BY <1>2, <1>6, <1>7, <1>8 DEF EngInv

LEMMA EvaluateGateEng ==
    ASSUME IndInv, EngInv, EvaluateGate
    PROVE  EngInv'
<1> DEFINE y == IF Now.op = "And" THEN AndMask(Now, wshare[wid], LogicalShare, LogicalMask)
                                  ELSE FabricMask(Now, LogicalMask)
<1>1. /\ pass = "evaluate" /\ pass \in {"evaluate", "gamma"} /\ more /\ Step /\ pass # "liveness"
      /\ UNCHANGED <<party, prog, pass, live, slotMap, out, wshare>> /\ wmask' = Grow(wmask, wid, y)
  BY DEF EvaluateGate
<1>2. /\ EngineGate(prog, wid) /\ Now = GateOf(prog, wid) /\ Now \in Gate
      /\ wid - num_in + 1 = pc + 1 /\ pc \in Nat /\ num_in = prog.num_inputs
      /\ wid \in 0 .. (prog.num_wires - 1)
      /\ \A w \in Reads(Now) : w \in 0 .. (wid - 1) /\ w \in 0 .. (prog.num_wires - 1)
  BY <1>1, EngineAt
<1>3. /\ \A w \in 0 .. (wid - 1) : wmask[w] = EW(prog, w).lamB
      /\ \A w \in 0 .. (prog.num_wires - 1) : wshare[w] = EW(prog, w).share
  BY <1>1 DEF EngInv, GhostInv, AfterSlot
<1>4. y = EW(prog, wid).lamB
  <2>1. CASE Now.op # "And"
    <3>1. EW(prog, wid).lamB = CombineMasks(Now, EW(prog, Now.in0).lamB, EW(prog, Now.in1).lamB)
      BY <1>2, <2>1 DEF EngineGate
    <3>2. y = CombineMasks(Now, wmask[Now.in0], wmask[Now.in1])
      BY <1>2, <2>1, FabricIsMasks
    <3>3. \A g : (g.in0 \in Reads(g) => wmask[g.in0] = EW(prog, g.in0).lamB)
                 /\ (g.in1 \in Reads(g) => wmask[g.in1] = EW(prog, g.in1).lamB)
                 => CombineMasks(g, wmask[g.in0], wmask[g.in1])
                      = CombineMasks(g, EW(prog, g.in0).lamB, EW(prog, g.in1).lamB)
      BY CombinedMasks
    <3> HIDE DEF y
    <3> QED
      BY <1>2, <1>3, <3>1, <3>2, <3>3
  <2>2. CASE Now.op = "And"
    <3> DEFINE d == num_in + AndsTo(prog, pc + 1)
               a == Now.in0
               b == Now.in1
    <3>1. EW(prog, wid).lamB = OpenedAnd(d, EW(prog, a), EW(prog, b)) /\ EW(prog, wid).share = {d}
      BY <1>2, <2>2 DEF EngineGate
    <3>2. a \in Reads(Now) /\ b \in Reads(Now)
      BY <2>2 DEF Reads, IsConst, IsNot
    <3>3. /\ wmask[a] = EW(prog, a).lamB /\ wmask[b] = EW(prog, b).lamB
          /\ wshare[a] = EW(prog, a).share /\ wshare[b] = EW(prog, b).share /\ wshare[wid] = {d}
      BY <1>2, <1>3, <3>1, <3>2
    <3>4. y = XorBit(Lambda(wshare[wid]), AndBit(XorBit(wmask[a], Lambda(wshare[a])),
                                                 XorBit(wmask[b], Lambda(wshare[b]))))
      BY <2>2 DEF AndMask, LogicalMask, LogicalShare
    <3> HIDE DEF y, d, a, b
    <3>5. Lambda({d}) = DrawnMask(d)
      BY DEF Lambda
    <3> QED
      BY <3>1, <3>3, <3>4, <3>5 DEF OpenedAnd, ValueAtBob
  <2> QED
    BY <2>1, <2>2
<1> HIDE DEF y
<1> QED
  BY <1>1, <1>4, MaskGateEng

LEMMA GammaGateEng ==
    ASSUME IndInv, EngInv, GammaGate
    PROVE  EngInv'
<1> DEFINE y == IF Now.op = "And" THEN Lambda_AND(wid) ELSE FabricMask(Now, LogicalMask)
<1>1. /\ pass = "gamma" /\ pass \in {"evaluate", "gamma"} /\ more /\ Step /\ pass # "liveness"
      /\ UNCHANGED <<party, prog, pass, live, slotMap, out, wshare>> /\ wmask' = Grow(wmask, wid, y)
  BY DEF GammaGate
<1>2. /\ EngineGate(prog, wid) /\ Now = GateOf(prog, wid) /\ Now \in Gate /\ num_in = prog.num_inputs
      /\ \A w \in Reads(Now) : w \in 0 .. (wid - 1)
  BY <1>1, EngineAt
<1>3. \A w \in 0 .. (wid - 1) : wmask[w] = CB(prog, w)
  BY <1>1 DEF EngInv, GhostInv
<1>4. y = CB(prog, wid)
  <2>1. CASE Now.op # "And"
    <3>1. CB(prog, wid) = CombineMasks(Now, CB(prog, Now.in0), CB(prog, Now.in1))
      BY <1>2, <2>1 DEF EngineGate
    <3>2. y = CombineMasks(Now, wmask[Now.in0], wmask[Now.in1])
      BY <1>2, <2>1, FabricIsMasks
    <3>3. \A g : (g.in0 \in Reads(g) => wmask[g.in0] = CB(prog, g.in0))
                 /\ (g.in1 \in Reads(g) => wmask[g.in1] = CB(prog, g.in1))
                 => CombineMasks(g, wmask[g.in0], wmask[g.in1])
                      = CombineMasks(g, CB(prog, g.in0), CB(prog, g.in1))
      BY CombinedMasks
    <3> HIDE DEF y
    <3> QED
      BY <1>2, <1>3, <3>1, <3>2, <3>3
  <2>2. CASE Now.op = "And"
    <3>1. CB(prog, wid) = EW(prog, wid).lamB
      BY <1>2, <2>2 DEF EngineGate
    <3>2. Lambda_AND(wid) = EW(prog, wid).lamB
      BY <1>2 DEF Lambda_AND, EW, RunWires, InWires, GivenWires
    <3> QED
      BY <2>2, <3>1, <3>2
  <2> QED
    BY <2>1, <2>2
<1> HIDE DEF y
<1> QED
  BY <1>1, <1>4, MaskGateEng

(* The end of a replay.                                                    *)
LEMMA ReplayDoneEng ==
    ASSUME IndInv, EngInv, GarbleDone \/ EvaluateDone \/ GammaDone
    PROVE  EngInv'
<1>1. PICK q \in {"gather", "gamma"} :
        /\ pass \in Replays /\ ~more /\ NextPass(q)
        /\ pass = "garble" => q = IF rep = <<>> THEN "gather" ELSE "gamma"
        /\ pass # "garble" => q = "gather"
        /\ UNCHANGED <<party, prog, live, slotMap, wire_slot, mask_input, out, wshare, wmask>>
  BY DEF GarbleDone, EvaluateDone, GammaDone, Replays
<1>2. /\ UNCHANGED <<party, prog, last_use, persist, phys, rep, mask_input, wshare, wmask>>
      /\ q \in Passes /\ pass \in AfterSlot /\ q \in AfterSlot /\ pass # "liveness" /\ prog \in Programs
  BY <1>1 DEF live, slotMap, Passes, Replays, AfterSlot, IndInv, PlaceInv
<1>3. /\ wid' = num_in /\ wid = prog.num_wires /\ pass' = q
      /\ num_in = prog.num_inputs /\ num_in \in Nat /\ prog.num_wires \in Nat
      /\ num_in <= prog.num_wires
  BY <1>1, <1>2, NextPlace DEF IndInv
<1>4. /\ RequestInv' /\ num_in' = num_in /\ pass' # "slot" /\ pass' # "liveness"
      /\ \A w \in 0 .. (prog'.num_wires - 1) : wshare'[w] = EW(prog', w).share
      /\ \A k \in DOMAIN prog'.outputs : prog'.outputs[k] \in Permanent(prog', persist')
  BY <1>2, <1>3, EngKept
<1>5. rep = <<>> <=> AndGates(prog) = {}
  <2>1. Len(rep) = Cardinality(AndGates(prog)) /\ IsFiniteSet(AndGates(prog))
    BY <1>1, <1>2, AndCount DEF EngInv, RequestInv, Slotted, Replays
  <2>2. rep = <<>> <=> Len(rep) = 0
    BY EmptySeq DEF IndInv, DrawInv
  <2> QED
    BY <2>1, <2>2, FS_EmptySet
<1>6. /\ pass = "garble" => party = Garbler /\ party # Evaluator
      /\ pass = "gamma" => party = Garbler /\ party # Evaluator
      /\ pass = "evaluate" => party = Evaluator
      /\ party \in {Garbler, Evaluator}
  BY SlotPassesAssumption DEF EngInv, PartyInv
<1>7. PartyInv'
  BY <1>1, <1>2, <1>3, <1>6 DEF PartyInv
<1>8. GhostInv'
  <2>1. q = "gamma" => \A w \in 0 .. (num_in - 1) : wmask[w] = CB(prog, w)
    <3>1. \A w \in 0 .. (num_in - 1) : EngineInput(prog, w)
      BY <1>2, <1>3, EngineIs
    <3>2. q = "gamma" => pass = "garble" /\ \A w \in 0 .. (num_in - 1) : wmask[w] = InputMask(party, w)
      BY <1>1 DEF EngInv, GhostInv
    <3> QED
      BY <1>6, <3>1, <3>2 DEF EngineInput
  <2>2. q # "garble" /\ q # "evaluate" /\ q # "slot"
    BY <1>1
  <2> QED
    BY <1>2, <1>3, <1>4, <2>1, <2>2 DEF GhostInv
<1>9. ASSUME q = "gather", NEW w \in Permanent(prog, persist)
      PROVE  mask_input[phys[w]] = FinalMask(w)
  <2>0. w \in 0 .. (prog.num_wires - 1)
    BY DEF Permanent
  <2>1. CASE pass = "garble"
    <3>1. mask_input[phys[w]] = FirstMasks[w]
      BY <2>1 DEF EngInv, SlotMaskInv, HoldsFor
    <3>2. AndGates(prog) = {}
      BY <1>1, <1>5, <1>9, <2>1
    <3> QED
      BY <1>6, <2>0, <2>1, <3>1, <3>2 DEF FirstMasks, FinalMask
  <2>2. CASE pass \in {"evaluate", "gamma"}
    <3>1. w \in Needed
      <4>1. LiveTo(prog, last_use, persist, prog.num_wires)
        BY <1>2 DEF IndInv, LiveInv
      <4>2. prog.num_wires \in prog.num_inputs .. prog.num_wires
        BY <1>3
      <4> QED
        BY <1>2, <1>3, <4>1, <4>2, InputsLive DEF Needed
    <3>2. mask_input[phys[w]] = wmask[w]
      BY <2>2, <3>1 DEF IndInv, MaskInv, HoldsFor
    <3>3. pass = "evaluate" => wmask[w] = EW(prog, w).lamB
      BY <1>3, <2>0 DEF EngInv, GhostInv
    <3>4. pass = "gamma" => wmask[w] = CB(prog, w) /\ AndGates(prog) # {}
      BY <1>3, <1>5, <2>0 DEF EngInv, GhostInv, PartyInv
    <3> QED
      BY <1>6, <2>2, <3>2, <3>3, <3>4 DEF FinalMask
  <2> QED
    BY <1>1, <2>1, <2>2 DEF Replays
<1>10. SlotMaskInv'
  BY <1>1, <1>2, <1>3, <1>9 DEF SlotMaskInv, FinalMask
<1>11. OutputsInv'
  BY <1>1, <1>3, <1>4 DEF OutputsInv
<1> QED
  BY <1>4, <1>7, <1>8, <1>10, <1>11 DEF EngInv

(* The outputs are gathered.                                               *)
LEMMA GatherEng ==
    ASSUME IndInv, EngInv, GatherOutputs
    PROVE  EngInv'
<1>1. /\ pass = "gather" /\ pass' = "done" /\ pass \in AfterSlot /\ pass' \in AfterSlot /\ prog \in Programs
      /\ UNCHANGED <<party, prog, persist, phys, rep, mask_input, wire_slot, wshare, wmask>>
  BY DEF GatherOutputs, live, slotMap, AfterSlot, IndInv, PlaceInv
<1>2. /\ RequestInv' /\ num_in' = num_in /\ pass' # "slot" /\ pass' # "liveness"
      /\ \A w \in 0 .. (prog'.num_wires - 1) : wshare'[w] = EW(prog', w).share
      /\ \A k \in DOMAIN prog'.outputs : prog'.outputs[k] \in Permanent(prog', persist')
  BY <1>1, EngKept
<1>3. PartyInv' /\ GhostInv' /\ SlotMaskInv'
  BY <1>1, <1>2 DEF EngInv, PartyInv, GhostInv, SlotMaskInv
<1>4. ASSUME NEW k \in DOMAIN prog.outputs
      PROVE  /\ Share(prog.outputs[k]) = EW(prog, prog.outputs[k]).share
             /\ Mask(prog.outputs[k]) = FinalMask(prog.outputs[k])
  <2> DEFINE o == prog.outputs[k]
  <2>1. o \in Permanent(prog, persist) /\ o \in 0 .. (prog.num_wires - 1)
    BY <1>1 DEF EngInv, OutputsInv, Permanent
  <2> HIDE DEF o
  <2>2. Share(o) = wshare[o] /\ wshare[o] = EW(prog, o).share
    BY <1>1, <2>1 DEF IndInv, ShareInv, HoldsFor, Share, EngInv, GhostInv
  <2>3. Mask(o) = FinalMask(o)
    BY <1>1, <2>1 DEF EngInv, SlotMaskInv, Mask
  <2> QED
    BY <2>2, <2>3 DEF o
<1>5. \A w : FinalMask(w)' = FinalMask(w)
  BY <1>1 DEF FinalMask
<1>6. out' = [k \in DOMAIN prog.outputs |-> [share |-> EW(prog, prog.outputs[k]).share,
                                             mask  |-> FinalMask(prog.outputs[k])]]
  BY <1>4 DEF GatherOutputs
<1>7. OutputsInv'
  BY <1>1, <1>2, <1>6 DEF OutputsInv, FinalMask
<1> QED
  BY <1>2, <1>3, <1>7 DEF EngInv

LEMMA InitEngInv == Init => EngInv
<1> SUFFICES ASSUME Init PROVE EngInv
  OBVIOUS
<1>1. party \in {Garbler, Evaluator} /\ pass = "liveness" /\ rep = <<>> /\ prog \in Programs /\ pass \notin AfterSlot
  BY DEF Init, AfterSlot
<1>2. Slotted = 0 /\ AndsTo(prog, 0) = 0 /\ \A i \in AndGates(prog) : i \in Nat \ {0}
  BY <1>1, AndCount DEF Slotted
<1>3. Len(rep) = 0
  BY <1>1
<1>4. RequestInv
  BY <1>2, <1>3 DEF RequestInv
<1> QED
  BY <1>1, <1>4 DEF EngInv, PartyInv, GhostInv, SlotMaskInv, OutputsInv

LEMMA StepEngInv == IndInv /\ IndInv' /\ EngInv /\ [Next]_vars => EngInv'
<1> SUFFICES ASSUME IndInv, IndInv', EngInv, [Next]_vars PROVE EngInv'
  OBVIOUS
<1>1. CASE UNCHANGED vars
  <2>1. UNCHANGED <<party, prog, pass, pc, last_use, persist, phys, rep, mask_input, out, wshare, wmask>>
    BY <1>1 DEF vars, live, slotMap
  <2>2. UNCHANGED <<num_in, wid, Needed, Slotted, FirstMasks>>
    BY <2>1 DEF num_in, wid, Needed, Slotted, FirstMasks
  <2>3. PartyInv' /\ RequestInv' /\ GhostInv'
    BY <2>1, <2>2 DEF EngInv, PartyInv, RequestInv, GhostInv
  <2>4. SlotMaskInv' /\ OutputsInv'
    BY <2>1, <2>2 DEF EngInv, SlotMaskInv, OutputsInv, FinalMask
  <2> QED
    BY <2>3, <2>4 DEF EngInv
<1>2. CASE Next
  BY <1>1, <1>2, LivenessGateEng, LivenessDoneEng, SlotGateEng, SlotDoneEng, GarbleGateEng,
     EvaluateGateEng, GammaGateEng, ReplayDoneEng, GatherEng DEF Next, Ended
<1> QED
  BY <1>1, <1>2

(* The passes over recycled slots return exactly the bundle that           *)
(* run_source is specified to return, and hand the triple generator the    *)
(* shares of each AND's own operands: for every set of canonical programs, *)
(* both parties and every batch size.                                      *)
THEOREM PassesRefineEngine == Spec => []MatchesEngine
<1>1. IndInv /\ EngInv => MatchesEngine
  <2> SUFFICES ASSUME IndInv, EngInv, pass = "done"
               PROVE  /\ out = Expected
                      /\ Len(rep) = Cardinality(AndGates(prog))
                      /\ \A i \in AndGates(prog) :
                           rep[AndsTo(prog, i)] =
                             <<EvaluatedWires(prog, InWires, num_in)[prog.gates[i].in0 + 1].share,
                               EvaluatedWires(prog, InWires, num_in)[prog.gates[i].in1 + 1].share>>
    BY DEF MatchesEngine, AndsTo
  <2>1. /\ EvaluatedWires(prog, InWires, num_in) = RunWires(prog) /\ prog \in Programs
        /\ party \in {Garbler, Evaluator} /\ Garbler # Evaluator
    BY SlotPassesAssumption DEF RunWires, InWires, GivenWires, num_in, IndInv, PlaceInv, EngInv, PartyInv
  <2>2. Slotted = Len(prog.gates)
    BY DEF Slotted
  <2>3. /\ Len(rep) = Cardinality(AndGates(prog))
        /\ \A i \in AndGates(prog) : i <= Len(prog.gates)
    BY <2>1, <2>2, AndCount DEF EngInv, RequestInv
  <2>4. \A i \in AndGates(prog) :
          rep[AndsTo(prog, i)] = <<EW(prog, prog.gates[i].in0).share, EW(prog, prog.gates[i].in1).share>>
    BY <2>2, <2>3 DEF EngInv, RequestInv
  <2>5. out = [k \in DOMAIN prog.outputs |-> [share |-> EW(prog, prog.outputs[k]).share,
                                              mask  |-> FinalMask(prog.outputs[k])]]
    BY DEF EngInv, OutputsInv
  <2> DEFINE W == RunWires(prog)
             M == GammaCheckMasks(prog, W)
             outs == Gather(prog, W, M).out
  <2>6. Expected = [k \in DOMAIN outs |-> [share |-> outs[k].share,
                                           mask  |-> IF party = Garbler THEN outs[k].lamA ELSE outs[k].lamB]]
    BY <2>1 DEF Expected, run_source, CheckAndGather
  <2>7. outs = [k \in DOMAIN prog.outputs |->
                  IF AndGates(prog) = {} THEN W[prog.outputs[k] + 1]
                  ELSE [W[prog.outputs[k] + 1] EXCEPT !.lamA = M[prog.outputs[k] + 1]]]
    BY DEF Gather
  <2>8. DOMAIN outs = DOMAIN prog.outputs
    BY <2>7
  <2>9. ASSUME NEW k \in DOMAIN prog.outputs
        PROVE  /\ outs[k].share = EW(prog, prog.outputs[k]).share
               /\ (IF party = Garbler THEN outs[k].lamA ELSE outs[k].lamB) = FinalMask(prog.outputs[k])
    <3> DEFINE o == prog.outputs[k]
    <3>1. W[o + 1] = EW(prog, o) /\ M[o + 1] = CB(prog, o)
      BY DEF EW, CB
    <3>2. outs[k] = IF AndGates(prog) = {} THEN W[o + 1] ELSE [W[o + 1] EXCEPT !.lamA = M[o + 1]]
      BY <2>7
    <3>3. IsWire(W[o + 1])
      <4>1. o \in 0 .. (prog.num_wires - 1)
        BY <2>1, Canonical
      <4> QED
        BY <2>1, <4>1, RunWiresShape
    <3> HIDE DEF outs, W, M, o
    <3>4. /\ outs[k].share = W[o + 1].share /\ outs[k].lamB = W[o + 1].lamB
          /\ outs[k].lamA = IF AndGates(prog) = {} THEN W[o + 1].lamA ELSE M[o + 1]
      BY <3>2, <3>3 DEF IsWire
    <3> QED
      BY <2>1, <3>1, <3>4 DEF FinalMask, o
  <2> HIDE DEF outs, W, M
  <2>10. out = Expected
    BY <2>5, <2>6, <2>8, <2>9
  <2> QED
    BY <2>1, <2>3, <2>4, <2>10 DEF EW
<1>2. Spec => [](IndInv /\ EngInv)
  BY InitIndInv, StepIndInv, InitEngInv, StepEngInv, PTL DEF Spec
<1> QED
  BY <1>1, <1>2, PTL
===============================================================================
