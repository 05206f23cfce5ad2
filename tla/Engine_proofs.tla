----------------------------- MODULE Engine_proofs -----------------------------
(***************************************************************************)
(* Facts about a run of the engine on a canonical program and about what   *)
(* plan_flush makes of a chunk, for programs, inputs, chunks and keep      *)
(* lists of any size.                                                      *)
(***************************************************************************)
EXTENDS Engine, FlushPlan, FiniteSetTheorems, NaturalsInduction, WellFoundedInduction,
        SequenceTheorems, TLAPS

(* The steps of the folds in Engine, Circuit and FlushPlan; c holds what a *)
(* step depends on besides the result so far and the next element.         *)
FoldStep(fold, c, a, x) ==
    CASE fold = "wires" -> Append(a, GateWire(c[1], c[2], a, x))
      [] fold = "masks" -> Append(a, CheckedMask(c, a, x))
      [] fold = "clear" -> Append(a, ClearBit(a, x))
      [] fold = "sublist" -> IF x \in c THEN Append(a, x) ELSE a
      [] fold = "inputs" -> NoteOperands(c, a, x)
      [] fold = "outputs" -> NoteId(c, a, x)
      [] fold = "reached" -> IF x.out \in a THEN a \cup Reads(x) ELSE a

-------------------------------------------------------------------------------
(* Folds over sequences: FoldLeft and FoldRight pass through a trace of    *)
(* intermediate results, one step per element.  This is what makes         *)
(* induction over a program possible.                                      *)
Fold(c, d, base, seq) == FoldLeft(LAMBDA a, x : FoldStep(c, d, a, x), base, seq)

BackFold(c, d, base, seq) == FoldRight(LAMBDA x, a : FoldStep(c, d, a, x), seq, base)

(* T[k] is the result after the first k elements.                          *)
IsTrace(T, c, d, base, seq) ==
    /\ T[0] = base
    /\ \A k \in 1 .. Len(seq) : T[k] = FoldStep(c, d, T[k - 1], seq[k])

(* T[k] is the result of the elements after the first k.                   *)
IsBackTrace(T, c, d, base, seq) ==
    /\ T[Len(seq)] = base
    /\ \A k \in 1 .. Len(seq) : T[k - 1] = FoldStep(c, d, T[k], seq[k])

(* The function FoldLeft iterates, over the sets of the indices a + 1 .. n.*)
IsIter(g, c, d, base, seq, n) ==
    g = [s \in SUBSET (1 .. n) |->
           IF s = {} THEN base
           ELSE FoldStep(c, d, g[s \ {Max(s)}], seq[Max(s)])]

(* Every nonempty set of natural numbers has a least element.              *)
LEMMA LeastNumber ==
    ASSUME NEW T \in SUBSET Nat, T # {}
    PROVE  \E n \in T : \A k \in T : ~(k < n)
<1> DEFINE R == OpToRel(<, Nat)
<1>1. IsWellFoundedOn(R, Nat)
  BY NatLessThanWellFounded
<1>2. \A m, n \in Nat : m < n => <<m, n>> \in R
  BY DEF OpToRel
<1> HIDE DEF R
<1>3. \E x \in T : \A y \in T : ~ (<<y, x>> \in R)
  BY <1>1, WFMin
<1> QED
  BY <1>2, <1>3

(* Induction, with the property as a set.                                  *)
LEMMA SetInduction ==
    ASSUME NEW S, 0 \in S, \A n \in Nat : n \in S => n + 1 \in S
    PROVE  Nat \subseteq S
<1> SUFFICES ASSUME Nat \ S # {} PROVE FALSE
  OBVIOUS
<1>1. PICK n \in Nat \ S : \A k \in Nat \ S : ~(k < n)
  BY LeastNumber
<1>2. n # 0 /\ n - 1 \in Nat /\ n - 1 < n
  BY <1>1
<1>3. n - 1 \in S
  BY <1>1, <1>2
<1>4. (n - 1) + 1 = n
  BY <1>2
<1> QED
  BY <1>1, <1>2, <1>3, <1>4

(* The largest, and the least, of a set that has one.                      *)
LEMMA MaxIs ==
    ASSUME NEW s \in SUBSET Int, NEW m \in s, \A k \in s : k <= m
    PROVE  Max(s) = m
<1> DEFINE P(x) == x \in s /\ \A y \in s : x >= y
<1>1. P(m)
  OBVIOUS
<1>2. P(CHOOSE x : P(x))
  BY <1>1, Zenon
<1>3. (CHOOSE x : P(x)) = Max(s)
  BY DEF Max
<1>4. \A x : P(x) => x = m
  OBVIOUS
<1> QED
  BY <1>2, <1>3, <1>4, Zenon

(* The minimum of a set of integers.                                       *)
LEMMA MinIs ==
    ASSUME NEW s \in SUBSET Int, NEW m \in s, \A k \in s : m <= k
    PROVE  Min(s) = m
<1> DEFINE P(x) == x \in s /\ \A y \in s : x =< y
<1>1. P(m)
  OBVIOUS
<1>2. P(CHOOSE x : P(x))
  BY <1>1, Zenon
<1>3. (CHOOSE x : P(x)) = Min(s)
  BY DEF Min
<1>4. \A x : P(x) => x = m
  OBVIOUS
<1> QED
  BY <1>2, <1>3, <1>4, Zenon
-------------------------------------------------------------------------------
(* The iteration of FoldLeft exists.                                       *)
LEMMA IterExists ==
    ASSUME NEW c, NEW d, NEW base, NEW seq
    PROVE  \A n \in Nat : \E g : IsIter(g, c, d, base, seq, n)
<1> DEFINE S == {n \in Nat : \E g : IsIter(g, c, d, base, seq, n)}
<1>1. 0 \in S
  <2> DEFINE g == [s \in SUBSET (1 .. 0) |-> base]
  <2>1. \A s \in SUBSET (1 .. 0) : s = {}
    OBVIOUS
  <2>2. g = [s \in SUBSET (1 .. 0) |->
               IF s = {} THEN base ELSE FoldStep(c, d, g[s \ {Max(s)}], seq[Max(s)])]
    BY <2>1
  <2> HIDE DEF g
  <2>3. IsIter(g, c, d, base, seq, 0)
    BY <2>2 DEF IsIter
  <2> QED
    BY <2>3
<1>2. ASSUME NEW n \in Nat, n \in S PROVE n + 1 \in S
  <2>1. PICK g : IsIter(g, c, d, base, seq, n)
    BY <1>2
  <2> DEFINE next(a, k) == FoldStep(c, d, a, seq[k])
             h == [s \in SUBSET (1 .. (n + 1)) |->
                     IF n + 1 \in s THEN next(g[s \ {n + 1}], n + 1) ELSE g[s]]
  <2>2. \A s \in SUBSET (1 .. n) : g[s] = IF s = {} THEN base ELSE next(g[s \ {Max(s)}], Max(s))
    BY <2>1 DEF IsIter
  <2> HIDE DEF next
  <2>3. ASSUME NEW s \in SUBSET (1 .. (n + 1))
        PROVE  h[s] = IF s = {} THEN base ELSE next(h[s \ {Max(s)}], Max(s))
    <3>1. CASE n + 1 \in s
      <4>1. Max(s) = n + 1
        <5>1. s \in SUBSET Int /\ \A k \in s : k <= n + 1
          OBVIOUS
        <5> QED
          BY <3>1, <5>1, MaxIs
      <4>2. s \ {n + 1} \in SUBSET (1 .. (n + 1)) /\ n + 1 \notin s \ {n + 1} /\ s # {}
        BY <3>1
      <4>3. h[s \ {n + 1}] = g[s \ {n + 1}]
        BY <4>2
      <4> QED
        BY <3>1, <4>1, <4>2, <4>3
    <3>2. CASE n + 1 \notin s
      <4>1. s \in SUBSET (1 .. n)
        BY <3>2
      <4>2. \A m : s \ {m} \in SUBSET (1 .. (n + 1)) /\ n + 1 \notin s \ {m}
        BY <3>2
      <4>3. h[s \ {Max(s)}] = g[s \ {Max(s)}] /\ h[s] = g[s]
        BY <3>2, <4>2
      <4> QED
        BY <2>2, <4>1, <4>3
    <3> QED
      BY <3>1, <3>2
  <2>4. h = [s \in SUBSET (1 .. (n + 1)) |-> h[s]]
    OBVIOUS
  <2> HIDE DEF h
  <2>5. h = [s \in SUBSET (1 .. (n + 1)) |-> IF s = {} THEN base ELSE next(h[s \ {Max(s)}], Max(s))]
    BY <2>3, <2>4
  <2>6. IsIter(h, c, d, base, seq, n + 1)
    BY <2>5 DEF IsIter, next
  <2> QED
    BY <2>6
<1> HIDE DEF S
<1>3. Nat \subseteq S
  BY <1>1, <1>2, SetInduction
<1> QED
  BY <1>3 DEF S

(* FoldLeft takes one of them.                                             *)
LEMMA FoldIsIter ==
    ASSUME NEW c, NEW d, NEW base, NEW E, NEW seq \in Seq(E)
    PROVE  \E g : IsIter(g, c, d, base, seq, Len(seq)) /\ Fold(c, d, base, seq) = g[1 .. Len(seq)]
<1>1. DOMAIN seq = 1 .. Len(seq) /\ Len(seq) \in Nat
  BY LenProperties
<1> DEFINE n == Len(seq)
<1>2. \E g : IsIter(g, c, d, base, seq, n)
  BY <1>1, IterExists
<1>3. DOMAIN seq = 1 .. n
  BY <1>1
<1> HIDE DEF n
<1> DEFINE it == CHOOSE g : IsIter(g, c, d, base, seq, n)
<1>4. IsIter(it, c, d, base, seq, n)
  BY <1>2, Zenon
<1>5. Fold(c, d, base, seq) = it[1 .. n]
  BY <1>3 DEF Fold, FoldLeft, MapThenFoldSet, IsIter
<1> QED
  BY <1>4, <1>5 DEF n

(* FoldLeft passes through a trace, which ends in its result.              *)
LEMMA FoldTrace ==
    ASSUME NEW c, NEW d, NEW base, NEW E, NEW seq \in Seq(E)
    PROVE  \E T : IsTrace(T, c, d, base, seq) /\ Fold(c, d, base, seq) = T[Len(seq)]
<1>1. PICK g : IsIter(g, c, d, base, seq, Len(seq)) /\ Fold(c, d, base, seq) = g[1 .. Len(seq)]
  BY FoldIsIter
<1>2. Len(seq) \in Nat
  BY LenProperties
<1> DEFINE n == Len(seq)
           T == [k \in 0 .. n |-> g[1 .. k]]
<1>3. \A s \in SUBSET (1 .. n) : g[s] = IF s = {} THEN base ELSE FoldStep(c, d, g[s \ {Max(s)}], seq[Max(s)])
  BY <1>1 DEF IsIter
<1>n. n \in Nat
  BY <1>2
<1>4. T[0] = base
  <2>1. 1 .. 0 = {} /\ 0 \in 0 .. n
    BY <1>n
  <2>2. {} \in SUBSET (1 .. n)
    OBVIOUS
  <2>3. g[{}] = base
    BY <1>3, <2>2
  <2> QED
    BY <2>1, <2>3
<1>5. ASSUME NEW k \in 1 .. n PROVE T[k] = FoldStep(c, d, T[k - 1], seq[k])
  <2> HIDE DEF n
  <2>0. 1 .. k \in SUBSET (1 .. n) /\ k \in 1 .. k /\ k \in 0 .. n /\ k - 1 \in 0 .. n
    BY <1>n
  <2>1. 1 .. k \in SUBSET (1 .. n) /\ k \in 1 .. k /\ 1 .. k # {} /\ k \in 0 .. n /\ k - 1 \in 0 .. n
    BY <2>0
  <2>2. Max(1 .. k) = k
    <3>1. 1 .. k \in SUBSET Int /\ \A j \in 1 .. k : j <= k
      OBVIOUS
    <3> QED
      BY <2>1, <3>1, MaxIs
  <2>3. (1 .. k) \ {k} = 1 .. (k - 1)
    BY <2>1
  <2>4. g[1 .. k] = FoldStep(c, d, g[1 .. (k - 1)], seq[k])
    BY <1>3, <2>1, <2>2, <2>3
  <2> QED
    BY <2>1, <2>4
<1>6. T[n] = g[1 .. n]
  BY <1>2
<1> HIDE DEF T
<1> QED
  BY <1>1, <1>4, <1>5, <1>6 DEF IsTrace
-------------------------------------------------------------------------------
(* The same for FoldRight, whose iteration takes the least index first.    *)
IsBackIter(g, c, d, base, seq, m, n) ==
    g = [s \in SUBSET (m .. n) |->
           IF s = {} THEN base
           ELSE FoldStep(c, d, g[s \ {Min(s)}], seq[Min(s)])]

(* The function FoldRight iterates exists.                                 *)
LEMMA BackIterExists ==
    ASSUME NEW c, NEW d, NEW base, NEW seq, NEW n \in Nat
    PROVE  \A j \in Nat : \E g : IsBackIter(g, c, d, base, seq, (n + 1) - j, n)
<1> DEFINE S == {j \in Nat : \E g : IsBackIter(g, c, d, base, seq, (n + 1) - j, n)}
<1>1. 0 \in S
  <2> DEFINE g == [s \in SUBSET (((n + 1) - 0) .. n) |-> base]
  <2>1. \A s \in SUBSET (((n + 1) - 0) .. n) : s = {}
    OBVIOUS
  <2>2. g = [s \in SUBSET (((n + 1) - 0) .. n) |->
               IF s = {} THEN base ELSE FoldStep(c, d, g[s \ {Min(s)}], seq[Min(s)])]
    BY <2>1
  <2> HIDE DEF g
  <2>3. IsBackIter(g, c, d, base, seq, (n + 1) - 0, n)
    BY <2>2 DEF IsBackIter
  <2> QED
    BY <2>3
<1>2. ASSUME NEW j \in Nat, j \in S PROVE j + 1 \in S
  <2>1. PICK g : IsBackIter(g, c, d, base, seq, (n + 1) - j, n)
    BY <1>2
  <2> DEFINE m == n - j
  <2>m. m \in Int /\ (n + 1) - j = m + 1 /\ (n + 1) - (j + 1) = m
    OBVIOUS
  <2> DEFINE next(a, k) == FoldStep(c, d, a, seq[k])
             h == [s \in SUBSET (m .. n) |->
                     IF m \in s THEN next(g[s \ {m}], m) ELSE g[s]]
  <2>2. \A s \in SUBSET ((m + 1) .. n) : g[s] = IF s = {} THEN base ELSE next(g[s \ {Min(s)}], Min(s))
    BY <2>1, <2>m DEF IsBackIter
  <2> HIDE DEF next, m
  <2>3. ASSUME NEW s \in SUBSET (m .. n)
        PROVE  h[s] = IF s = {} THEN base ELSE next(h[s \ {Min(s)}], Min(s))
    <3>1. CASE m \in s
      <4>1. Min(s) = m
        <5>1. s \in SUBSET Int /\ \A k \in s : m <= k
          BY <2>m
        <5> QED
          BY <3>1, <5>1, MinIs
      <4>2. s \ {m} \in SUBSET (m .. n) /\ m \notin s \ {m} /\ s # {}
        BY <3>1
      <4>3. h[s \ {m}] = g[s \ {m}]
        BY <4>2
      <4> QED
        BY <3>1, <4>1, <4>2, <4>3
    <3>2. CASE m \notin s
      <4>1. s \in SUBSET ((m + 1) .. n)
        BY <2>m, <3>2
      <4>2. \A x : s \ {x} \in SUBSET (m .. n) /\ m \notin s \ {x}
        BY <3>2
      <4>3. h[s \ {Min(s)}] = g[s \ {Min(s)}] /\ h[s] = g[s]
        BY <3>2, <4>2
      <4> QED
        BY <2>2, <4>1, <4>3
    <3> QED
      BY <3>1, <3>2
  <2>4. h = [s \in SUBSET (m .. n) |-> h[s]]
    OBVIOUS
  <2> HIDE DEF h
  <2>5. h = [s \in SUBSET (m .. n) |-> IF s = {} THEN base ELSE next(h[s \ {Min(s)}], Min(s))]
    BY <2>3, <2>4
  <2>6. IsBackIter(h, c, d, base, seq, m, n)
    BY <2>5 DEF IsBackIter, next
  <2> QED
    BY <2>6, <2>m
<1> HIDE DEF S
<1>3. Nat \subseteq S
  BY <1>1, <1>2, SetInduction
<1> QED
  BY <1>3 DEF S

(* FoldRight is its value on all indices.                                  *)
LEMMA BackFoldIsIter ==
    ASSUME NEW c, NEW d, NEW base, NEW E, NEW seq \in Seq(E)
    PROVE  \E g : /\ IsBackIter(g, c, d, base, seq, 1, Len(seq))
                  /\ BackFold(c, d, base, seq) = g[1 .. Len(seq)]
<1>1. DOMAIN seq = 1 .. Len(seq) /\ Len(seq) \in Nat
  BY LenProperties
<1> DEFINE n == Len(seq)
<1>2. \E g : IsBackIter(g, c, d, base, seq, 1, n)
  <2>1. (n + 1) - n = 1
    BY <1>1
  <2> QED
    BY <1>1, <2>1, BackIterExists
<1>3. DOMAIN seq = 1 .. n
  BY <1>1
<1> HIDE DEF n
<1> DEFINE it == CHOOSE g : IsBackIter(g, c, d, base, seq, 1, n)
<1>4. IsBackIter(it, c, d, base, seq, 1, n)
  BY <1>2, Zenon
<1>5. BackFold(c, d, base, seq) = it[1 .. n]
  BY <1>3 DEF BackFold, FoldRight, MapThenFoldSet, IsBackIter
<1> QED
  BY <1>4, <1>5 DEF n

(* FoldRight passes through a trace, from the last element to the first.   *)
LEMMA BackFoldTrace ==
    ASSUME NEW c, NEW d, NEW base, NEW E, NEW seq \in Seq(E)
    PROVE  \E T : IsBackTrace(T, c, d, base, seq) /\ BackFold(c, d, base, seq) = T[0]
<1>1. PICK g : /\ IsBackIter(g, c, d, base, seq, 1, Len(seq))
               /\ BackFold(c, d, base, seq) = g[1 .. Len(seq)]
  BY BackFoldIsIter
<1>2. Len(seq) \in Nat
  BY LenProperties
<1> DEFINE n == Len(seq)
           T == [k \in 0 .. n |-> g[(k + 1) .. n]]
<1>3. \A s \in SUBSET (1 .. n) : g[s] = IF s = {} THEN base ELSE FoldStep(c, d, g[s \ {Min(s)}], seq[Min(s)])
  BY <1>1 DEF IsBackIter
<1>4. T[n] = base
  <2>1. (n + 1) .. n = {} /\ n \in 0 .. n
    BY <1>2
  <2> QED
    BY <1>3, <2>1
<1>5. ASSUME NEW k \in 1 .. n PROVE T[k - 1] = FoldStep(c, d, T[k], seq[k])
  <2>1. k .. n \in SUBSET (1 .. n) /\ k \in k .. n /\ k .. n # {} /\ k \in 0 .. n /\ k - 1 \in 0 .. n
    BY <1>2
  <2>2. Min(k .. n) = k
    <3>1. k .. n \in SUBSET Int /\ \A j \in k .. n : k <= j
      BY <1>2
    <3> QED
      BY <2>1, <3>1, MinIs
  <2>3. (k .. n) \ {k} = (k + 1) .. n /\ (k - 1) + 1 = k
    BY <1>2
  <2>4. g[k .. n] = FoldStep(c, d, g[(k + 1) .. n], seq[k])
    BY <1>3, <2>1, <2>2, <2>3
  <2> QED
    BY <2>1, <2>3, <2>4
<1>6. T[0] = g[1 .. n]
  BY <1>2
<1> HIDE DEF T
<1> QED
  BY <1>1, <1>4, <1>5, <1>6 DEF IsBackTrace
-------------------------------------------------------------------------------
(* Folds whose step appends to the result: what is at a place once stays.  *)

Appends(c, d) == \A a, x : \E e : FoldStep(c, d, a, x) = Append(a, e)

(* F is base and then one element per step, computed from the elements     *)
(* before it.                                                              *)
GrowsTo(F, c, d, base, seq) ==
    /\ \E B : F \in Seq(B)
    /\ Len(F) = Len(base) + Len(seq)
    /\ \A j \in 1 .. Len(base) : F[j] = base[j]
    /\ \A k \in 1 .. Len(seq) :
         \E a : /\ \E B : a \in Seq(B)
                /\ Len(a) = Len(base) + (k - 1)
                /\ \A j \in 1 .. (Len(base) + (k - 1)) : F[j] = a[j]
                /\ F[Len(base) + k] = FoldStep(c, d, a, seq[k])[Len(base) + k]

(* Along the trace the results grow by one and keep their elements.        *)
LEMMA GrowingTrace ==
    ASSUME NEW c, NEW d, NEW A, NEW base \in Seq(A), NEW seq, Len(seq) \in Nat,
           Appends(c, d),
           NEW T, IsTrace(T, c, d, base, seq)
    PROVE  /\ \A k \in 0 .. Len(seq) : (\E B : T[k] \in Seq(B)) /\ Len(T[k]) = Len(base) + k
           /\ \A k \in 0 .. Len(seq) : \A j \in 1 .. (Len(base) + k) : T[Len(seq)][j] = T[k][j]
<1> DEFINE n == Len(seq)
           b == Len(base)
<1>1. n \in Nat /\ b \in Nat
  BY LenProperties
<1>2. T[0] = base /\ \A k \in 1 .. n : \E e : T[k] = Append(T[k - 1], e)
  <2>1. T[0] = base /\ \A k \in 1 .. n : T[k] = FoldStep(c, d, T[k - 1], seq[k])
    BY Zenon DEF IsTrace
  <2> HIDE DEF n
  <2>2. ASSUME NEW k \in 1 .. n PROVE \E e : T[k] = Append(T[k - 1], e)
    <3>1. T[k] = FoldStep(c, d, T[k - 1], seq[k])
      BY <2>1
    <3>2. PICK e : FoldStep(c, d, T[k - 1], seq[k]) = Append(T[k - 1], e)
      BY Zenon DEF Appends
    <3> QED
      BY <3>1, <3>2
  <2> QED
    BY <2>1, <2>2
<1> HIDE DEF n
<1> DEFINE S == {k \in Nat : k <= n => (\E B : T[k] \in Seq(B)) /\ Len(T[k]) = b + k}
<1>3. Nat \subseteq S
  <2>1. 0 \in S
    BY <1>1, <1>2
  <2>2. ASSUME NEW k \in Nat, k \in S PROVE k + 1 \in S
    <3>1. CASE ~(k + 1 <= n)
      BY <3>1
    <3>2. CASE k + 1 <= n
      <4> HIDE DEF b
      <4>0. k + 1 \in 1 .. n /\ (k + 1) - 1 = k /\ k <= n
        BY <1>1, <3>2
      <4>1. PICK B : T[k] \in Seq(B)
        BY <2>2, <4>0
      <4>2. Len(T[k]) = b + k
        BY <2>2, <4>0
      <4>3. PICK e : T[k + 1] = Append(T[k], e)
        BY <1>2, <4>0
      <4>4. T[k] \in Seq(B \cup {e})
        BY <4>1
      <4>5. T[k + 1] \in Seq(B \cup {e}) /\ Len(T[k + 1]) = Len(T[k]) + 1
        <5>1. e \in B \cup {e}
          OBVIOUS
        <5> QED
          BY <4>3, <4>4, <5>1, AppendProperties
      <4>6. Len(T[k + 1]) = b + (k + 1)
        BY <4>2, <4>5, <1>1
      <4> QED
        BY <4>5, <4>6
    <3> QED
      BY <3>1, <3>2
  <2> HIDE DEF S
  <2> QED
    BY <2>1, <2>2, SetInduction
<1>4. ASSUME NEW k \in 0 .. n PROVE (\E B : T[k] \in Seq(B)) /\ Len(T[k]) = b + k
  BY <1>1, <1>3
<1> HIDE DEF S
<1>5. ASSUME NEW k \in 0 .. n PROVE \A j \in 1 .. (b + k) : T[n][j] = T[k][j]
  <2> DEFINE R == {m \in Nat : k + m <= n => \A j \in 1 .. (b + k) : T[k + m][j] = T[k][j]}
  <2>1. 0 \in R
    BY <1>1
  <2>2. ASSUME NEW m \in Nat, m \in R PROVE m + 1 \in R
    <3>1. CASE ~(k + (m + 1) <= n)
      BY <3>1
    <3>2. CASE k + (m + 1) <= n
      <4>0. k + m \in 0 .. n /\ k + (m + 1) \in 1 .. n /\ (k + (m + 1)) - 1 = k + m
        BY <1>1, <3>2
      <4>1. PICK B : T[k + m] \in Seq(B)
        BY <1>4, <4>0
      <4>2. Len(T[k + m]) = b + (k + m)
        BY <1>4, <4>0
      <4>3. PICK e : T[k + (m + 1)] = Append(T[k + m], e)
        BY <1>2, <4>0
      <4>4. T[k + m] \in Seq(B \cup {e}) /\ e \in B \cup {e}
        BY <4>1
      <4>5. \A j \in 1 .. Len(T[k + m]) : T[k + (m + 1)][j] = T[k + m][j]
        BY <4>3, <4>4, AppendProperties
      <4>6. \A j \in 1 .. (b + k) : j \in 1 .. Len(T[k + m])
        BY <4>2, <1>1
      <4>7. \A j \in 1 .. (b + k) : T[k + m][j] = T[k][j]
        BY <2>2, <3>2, <4>0
      <4> HIDE DEF b
      <4> QED
        BY <4>5, <4>6, <4>7
    <3> QED
      BY <3>1, <3>2
  <2> HIDE DEF R
  <2>3. Nat \subseteq R
    BY <2>1, <2>2, SetInduction
  <2>4. n - k \in R /\ k + (n - k) = n /\ n - k \in Nat
    BY <1>1, <2>3
  <2> QED
    BY <2>4, <1>1 DEF R
<1> QED
  BY <1>4, <1>5 DEF n

(* The result of such a fold.                                              *)
LEMMA GrowingFold ==
    ASSUME NEW c, NEW d, NEW A, NEW base \in Seq(A), NEW E, NEW seq \in Seq(E),
           Appends(c, d)
    PROVE  GrowsTo(Fold(c, d, base, seq), c, d, base, seq)
<1> DEFINE F == Fold(c, d, base, seq)
<1>1. PICK T : IsTrace(T, c, d, base, seq) /\ F = T[Len(seq)]
  BY FoldTrace
<1> HIDE DEF F
<1>2. Len(seq) \in Nat /\ Len(base) \in Nat
  BY LenProperties
<1>3. /\ \A k \in 0 .. Len(seq) : (\E B : T[k] \in Seq(B)) /\ Len(T[k]) = Len(base) + k
      /\ \A k \in 0 .. Len(seq) : \A j \in 1 .. (Len(base) + k) : F[j] = T[k][j]
  BY <1>1, <1>2, GrowingTrace
<1>4. T[0] = base /\ \A k \in 1 .. Len(seq) : T[k] = FoldStep(c, d, T[k - 1], seq[k])
  BY <1>1 DEF IsTrace
<1>5. 0 \in 0 .. Len(seq) /\ Len(seq) \in 0 .. Len(seq) /\ Len(base) + 0 = Len(base)
  BY <1>2
<1>6. ASSUME NEW k \in 1 .. Len(seq)
      PROVE  \E a : /\ \E B : a \in Seq(B)
                    /\ Len(a) = Len(base) + (k - 1)
                    /\ \A j \in 1 .. (Len(base) + (k - 1)) : F[j] = a[j]
                    /\ F[Len(base) + k] = FoldStep(c, d, a, seq[k])[Len(base) + k]
  <2>1. k - 1 \in 0 .. Len(seq) /\ k \in 0 .. Len(seq) /\ Len(base) + k \in 1 .. (Len(base) + k)
    BY <1>2
  <2>2. (\E B : T[k - 1] \in Seq(B)) /\ Len(T[k - 1]) = Len(base) + (k - 1)
    BY <1>3, <2>1
  <2>3. \A j \in 1 .. (Len(base) + (k - 1)) : F[j] = T[k - 1][j]
    BY <1>3, <2>1
  <2>4. F[Len(base) + k] = T[k][Len(base) + k]
    BY <1>3, <2>1
  <2>5. F[Len(base) + k] = FoldStep(c, d, T[k - 1], seq[k])[Len(base) + k]
    BY <1>4, <2>4
  <2> QED
    BY <2>2, <2>3, <2>5
<1>7. (\E B : F \in Seq(B)) /\ Len(F) = Len(base) + Len(seq)
  BY <1>1, <1>3, <1>5
<1>8. \A j \in 1 .. Len(base) : F[j] = base[j]
  BY <1>3, <1>4, <1>5
<1> QED
  BY <1>6, <1>7, <1>8 DEF GrowsTo, F
-------------------------------------------------------------------------------
(* Induction along a fold: P holds the pairs of a number of elements and a *)
(* result that is right for them.                                          *)
LEMMA FoldInduction ==
    ASSUME NEW c, NEW d, NEW base, NEW E, NEW seq \in Seq(E), NEW P,
           <<0, base>> \in P,
           \A k \in 1 .. Len(seq) : \A a :
             <<k - 1, a>> \in P => <<k, FoldStep(c, d, a, seq[k])>> \in P
    PROVE  <<Len(seq), Fold(c, d, base, seq)>> \in P
<1>1. PICK T : IsTrace(T, c, d, base, seq) /\ Fold(c, d, base, seq) = T[Len(seq)]
  BY FoldTrace
<1>2. T[0] = base /\ \A k \in 1 .. Len(seq) : T[k] = FoldStep(c, d, T[k - 1], seq[k])
  BY <1>1, Zenon DEF IsTrace
<1>3. Len(seq) \in Nat
  BY LenProperties
<1> DEFINE S == {k \in Nat : k <= Len(seq) => <<k, T[k]>> \in P}
<1>4. 0 \in S
  BY <1>2
<1>5. ASSUME NEW k \in Nat, k \in S PROVE k + 1 \in S
  <2>1. CASE ~(k + 1 <= Len(seq))
    BY <2>1
  <2>2. CASE k + 1 <= Len(seq)
    <3>1. k + 1 \in 1 .. Len(seq) /\ (k + 1) - 1 = k /\ k <= Len(seq)
      BY <1>3, <2>2
    <3>2. <<k, T[k]>> \in P
      BY <1>5, <3>1
    <3>3. T[k + 1] = FoldStep(c, d, T[k], seq[k + 1])
      BY <1>2, <3>1
    <3>4. <<k + 1, FoldStep(c, d, T[k], seq[k + 1])>> \in P
      BY <3>1, <3>2
    <3> QED
      BY <3>3, <3>4
  <2> QED
    BY <2>1, <2>2
<1> HIDE DEF S
<1>6. Nat \subseteq S
  BY <1>4, <1>5, SetInduction
<1>7. <<Len(seq), T[Len(seq)]>> \in P
  BY <1>3, <1>6 DEF S
<1> QED
  BY <1>1, <1>7
-------------------------------------------------------------------------------
(* The wires of a run as a fold of the instance F.                         *)
LEMMA WiresFold ==
    ASSUME NEW prog, NEW in, NEW draws
    PROVE  EvaluatedWires(prog, in, draws) = Fold("wires", <<prog, draws>>, in, prog.gates)
BY DEF EvaluatedWires, FoldStep, Fold, FoldLeft, MapThenFoldSet, Max

(* The garbler's masks likewise.                                           *)
LEMMA MasksFold ==
    ASSUME NEW prog, NEW w
    PROVE  GammaCheckMasks(prog, w) =
             Fold("masks", w, [k \in 1 .. prog.num_inputs |-> w[k].lamA], prog.gates)
BY DEF GammaCheckMasks, FoldStep, Fold, FoldLeft, MapThenFoldSet, Max

(* The clear evaluation likewise.                                          *)
LEMMA ClearFold ==
    ASSUME NEW prog, NEW in
    PROVE  ClearEval(prog, in) = Fold("clear", {}, in, prog.gates)
BY DEF ClearEval, FoldStep, Fold, FoldLeft, MapThenFoldSet, Max
-------------------------------------------------------------------------------
(* In a canonical program a gate reads only wires before its own.          *)
LEMMA OperandsBelow ==
    ASSUME NEW prog \in BooleanProgram, RecordCanonical(prog),
           NEW k \in 1 .. Len(prog.gates)
    PROVE  /\ prog.gates[k] \in Gate
           /\ prog.gates[k].out = prog.num_inputs + (k - 1)
           /\ \A v \in Reads(prog.gates[k]) : v + 1 \in 1 .. (prog.num_inputs + (k - 1))
<1>1. /\ prog.num_inputs \in Nat /\ prog.gates \in Seq(Gate)
      /\ DOMAIN prog.gates = 1 .. Len(prog.gates) /\ Len(prog.gates) \in Nat
  BY DEF BooleanProgram
<1>2. prog.gates[k] \in Gate
  BY <1>1
<1>3. /\ \A i \in DOMAIN prog.gates : prog.gates[i].out = prog.num_inputs + (i - 1)
      /\ \A v \in Reads(prog.gates[k]) :
              \/ v \in 0 .. (prog.num_inputs - 1)
              \/ \E j \in 1 .. (k - 1) : prog.gates[j].out = v
  BY <1>1 DEF RecordCanonical, validate_program
<1>4. ASSUME NEW v \in Reads(prog.gates[k])
      PROVE  v + 1 \in 1 .. (prog.num_inputs + (k - 1))
  <2>1. CASE v \in 0 .. (prog.num_inputs - 1)
    BY <1>1, <2>1
  <2>2. CASE \E j \in 1 .. (k - 1) : prog.gates[j].out = v
    <3>1. PICK j \in 1 .. (k - 1) : prog.gates[j].out = v
      BY <2>2
    <3>2. v = prog.num_inputs + (j - 1)
      BY <1>1, <1>3, <3>1
    <3> QED
      BY <1>1, <3>2
  <2> QED
    BY <1>3, <2>1, <2>2
<1> QED
  BY <1>1, <1>2, <1>3, <1>4

(* A gate's operation, and which operands it reads.                        *)
LEMMA GateCases ==
    ASSUME NEW g \in Gate
    PROVE  /\ g.op \in {"And", "Xor", "Not", "Const0", "Const1"}
           /\ g.in0 \in Nat /\ g.in1 \in Nat /\ g.out \in Nat
           /\ IsConst(g) <=> g.op \in {"Const0", "Const1"}
           /\ g.op \in {"And", "Xor"} => Reads(g) = {g.in0, g.in1}
           /\ g.op = "Not" => Reads(g) = {g.in0}
BY DEF Gate, Op, IsConst, IsNot, Reads

(* The wires of a run: the inputs, then for every gate what it makes of    *)
(* the wires it reads.                                                     *)
LEMMA WiresAre ==
    ASSUME NEW prog \in BooleanProgram, RecordCanonical(prog), NEW draws,
           NEW A, NEW in \in Seq(A), Len(in) = prog.num_inputs,
           NEW w, w = EvaluatedWires(prog, in, draws)
    PROVE  /\ Len(w) = prog.num_inputs + Len(prog.gates)
           /\ \A j \in 1 .. prog.num_inputs : w[j] = in[j]
           /\ \A k \in 1 .. Len(prog.gates) :
                w[prog.num_inputs + k] = GateWire(prog, draws, w, prog.gates[k])
<1>1. prog.gates \in Seq(Gate) /\ prog.num_inputs \in Nat
  BY DEF BooleanProgram
<1>2. Appends("wires", <<prog, draws>>)
  BY DEF FoldStep, Appends
<1>3. GrowsTo(w, "wires", <<prog, draws>>, in, prog.gates)
  <2>1. GrowsTo(Fold("wires", <<prog, draws>>, in, prog.gates), "wires", <<prog, draws>>, in, prog.gates)
    BY <1>1, <1>2, GrowingFold
  <2> QED
    BY <2>1, WiresFold
<1>4. /\ Len(w) = Len(in) + Len(prog.gates)
      /\ \A j \in 1 .. Len(in) : w[j] = in[j]
      /\ \A k \in 1 .. Len(prog.gates) :
           \E a : /\ \E B : a \in Seq(B)
                  /\ Len(a) = Len(in) + (k - 1)
                  /\ \A j \in 1 .. (Len(in) + (k - 1)) : w[j] = a[j]
                  /\ w[Len(in) + k] = FoldStep("wires", <<prog, draws>>, a, prog.gates[k])[Len(in) + k]
  BY <1>3 DEF GrowsTo
<1>5. ASSUME NEW k \in 1 .. Len(prog.gates)
      PROVE  w[prog.num_inputs + k] = GateWire(prog, draws, w, prog.gates[k])
  <2> DEFINE n == prog.num_inputs
             g == prog.gates[k]
  <2>1. PICK a : /\ \E B : a \in Seq(B)
                 /\ Len(a) = n + (k - 1)
                 /\ \A j \in 1 .. (n + (k - 1)) : w[j] = a[j]
                 /\ w[n + k] = FoldStep("wires", <<prog, draws>>, a, g)[n + k]
    <3>1. Len(in) = prog.num_inputs
      OBVIOUS
    <3>2. \E a : /\ \E B : a \in Seq(B)
                 /\ Len(a) = Len(in) + (k - 1)
                 /\ \A j \in 1 .. (Len(in) + (k - 1)) : w[j] = a[j]
                 /\ w[Len(in) + k] = FoldStep("wires", <<prog, draws>>, a, prog.gates[k])[Len(in) + k]
      BY <1>4
    <3> QED
      BY <3>1, <3>2
  <2>2. g \in Gate /\ \A v \in Reads(g) : v + 1 \in 1 .. (n + (k - 1))
    BY OperandsBelow
  <2>3. GateWire(prog, draws, a, g) = GateWire(prog, draws, w, g)
    <3>0. g.op \in {"And", "Xor", "Not", "Const0", "Const1"}
      BY <2>2, GateCases
    <3>1. CASE g.op \in {"And", "Xor"}
      <4>1. w[g.in0 + 1] = a[g.in0 + 1] /\ w[g.in1 + 1] = a[g.in1 + 1]
        BY <2>1, <2>2, <3>1, GateCases
      <4> HIDE DEF g, n
      <4> QED
        BY <4>1, <3>1 DEF GateWire, IsConst
    <3>2. CASE g.op = "Not"
      <4>1. w[g.in0 + 1] = a[g.in0 + 1]
        BY <2>1, <2>2, <3>2, GateCases
      <4> HIDE DEF g, n
      <4> QED
        BY <4>1, <3>2 DEF GateWire, IsConst
    <3>3. CASE g.op \in {"Const0", "Const1"}
      <4> HIDE DEF g, n
      <4> QED
        BY <3>3 DEF GateWire, IsConst
    <3> QED
      BY <3>0, <3>1, <3>2, <3>3
  <2>4. FoldStep("wires", <<prog, draws>>, a, g)[n + k] = GateWire(prog, draws, a, g)
    <3> DEFINE e == GateWire(prog, draws, a, g)
    <3>1. PICK B : a \in Seq(B)
      BY <2>1
    <3>2. FoldStep("wires", <<prog, draws>>, a, g) = Append(a, e)
      BY DEF FoldStep
    <3> HIDE DEF e, g, n
    <3>3. n + k = Len(a) + 1
      BY <2>1, <1>1 DEF n
    <3>4. a \in Seq(B \cup {e}) /\ e \in B \cup {e}
      BY <3>1
    <3>5. Append(a, e)[Len(a) + 1] = e
      BY <3>4, AppendProperties
    <3> QED
      BY <3>2, <3>3, <3>5 DEF e
  <2> QED
    BY <2>1, <2>3, <2>4
<1> QED
  BY <1>4, <1>5

LEMMA WiresDomain ==
    ASSUME NEW prog \in BooleanProgram, NEW draws, NEW A, NEW in \in Seq(A),
           NEW w, w = EvaluatedWires(prog, in, draws)
    PROVE  DOMAIN w = 1 .. Len(w)
<1>1. prog.gates \in Seq(Gate)
  BY DEF BooleanProgram
<1>2. Appends("wires", <<prog, draws>>)
  BY DEF FoldStep, Appends
<1>3. GrowsTo(Fold("wires", <<prog, draws>>, in, prog.gates), "wires", <<prog, draws>>, in, prog.gates)
  BY <1>1, <1>2, GrowingFold
<1>4. PICK C : w \in Seq(C)
  BY <1>3, WiresFold DEF GrowsTo
<1> QED
  BY <1>4, LenProperties

(* The garbler's masks after the gamma-check pass, in the same way.        *)
LEMMA MasksAre ==
    ASSUME NEW prog \in BooleanProgram, RecordCanonical(prog), NEW w,
           NEW m, m = GammaCheckMasks(prog, w)
    PROVE  /\ Len(m) = prog.num_inputs + Len(prog.gates)
           /\ \A j \in 1 .. prog.num_inputs : m[j] = w[j].lamA
           /\ \A k \in 1 .. Len(prog.gates) :
                m[prog.num_inputs + k] = CheckedMask(w, m, prog.gates[k])
<1> DEFINE in == [k \in 1 .. prog.num_inputs |-> w[k].lamA]
<1>1. prog.gates \in Seq(Gate) /\ prog.num_inputs \in Nat
  BY DEF BooleanProgram
<1>0. /\ in \in Seq({w[k].lamA : k \in 1 .. prog.num_inputs})
      /\ Len(in) = prog.num_inputs
      /\ \A j \in 1 .. prog.num_inputs : in[j] = w[j].lamA
  BY <1>1
<1>F. m = Fold("masks", w, in, prog.gates)
  BY MasksFold
<1> HIDE DEF in
<1>2. Appends("masks", w)
  BY DEF FoldStep, Appends
<1>3. GrowsTo(m, "masks", w, in, prog.gates)
  <2>1. GrowsTo(Fold("masks", w, in, prog.gates), "masks", w, in, prog.gates)
    BY <1>0, <1>1, <1>2, GrowingFold
  <2> QED
    BY <2>1, <1>F
<1>4. /\ Len(m) = Len(in) + Len(prog.gates)
      /\ \A j \in 1 .. Len(in) : m[j] = in[j]
      /\ \A k \in 1 .. Len(prog.gates) :
           \E a : /\ \E B : a \in Seq(B)
                  /\ Len(a) = Len(in) + (k - 1)
                  /\ \A j \in 1 .. (Len(in) + (k - 1)) : m[j] = a[j]
                  /\ m[Len(in) + k] = FoldStep("masks", w, a, prog.gates[k])[Len(in) + k]
  BY <1>3 DEF GrowsTo
<1>5. ASSUME NEW k \in 1 .. Len(prog.gates)
      PROVE  m[prog.num_inputs + k] = CheckedMask(w, m, prog.gates[k])
  <2> DEFINE n == prog.num_inputs
             g == prog.gates[k]
  <2>1. PICK a : /\ \E B : a \in Seq(B)
                 /\ Len(a) = n + (k - 1)
                 /\ \A j \in 1 .. (n + (k - 1)) : m[j] = a[j]
                 /\ m[n + k] = FoldStep("masks", w, a, g)[n + k]
    <3>1. Len(in) = prog.num_inputs
      BY <1>0
    <3>2. \E a : /\ \E B : a \in Seq(B)
                 /\ Len(a) = Len(in) + (k - 1)
                 /\ \A j \in 1 .. (Len(in) + (k - 1)) : m[j] = a[j]
                 /\ m[Len(in) + k] = FoldStep("masks", w, a, prog.gates[k])[Len(in) + k]
      BY <1>4
    <3> QED
      BY <3>1, <3>2
  <2>2. g \in Gate /\ \A v \in Reads(g) : v + 1 \in 1 .. (n + (k - 1))
    BY OperandsBelow
  <2>3. CheckedMask(w, a, g) = CheckedMask(w, m, g)
    <3>0. g.op \in {"And", "Xor", "Not", "Const0", "Const1"}
      BY <2>2, GateCases
    <3>1. CASE g.op \in {"And", "Xor"}
      <4>1. m[g.in0 + 1] = a[g.in0 + 1] /\ m[g.in1 + 1] = a[g.in1 + 1]
        BY <2>1, <2>2, <3>1, GateCases
      <4> HIDE DEF g, n
      <4> QED
        BY <4>1, <3>1 DEF CheckedMask, IsConst
    <3>2. CASE g.op = "Not"
      <4>1. m[g.in0 + 1] = a[g.in0 + 1]
        BY <2>1, <2>2, <3>2, GateCases
      <4> HIDE DEF g, n
      <4> QED
        BY <4>1, <3>2 DEF CheckedMask, IsConst
    <3>3. CASE g.op \in {"Const0", "Const1"}
      <4> HIDE DEF g, n
      <4> QED
        BY <3>3 DEF CheckedMask, IsConst
    <3> QED
      BY <3>0, <3>1, <3>2, <3>3
  <2>4. FoldStep("masks", w, a, g)[n + k] = CheckedMask(w, a, g)
    <3> DEFINE e == CheckedMask(w, a, g)
    <3>1. PICK B : a \in Seq(B)
      BY <2>1
    <3>2. FoldStep("masks", w, a, g) = Append(a, e)
      BY DEF FoldStep
    <3> HIDE DEF e, g, n
    <3>3. n + k = Len(a) + 1
      BY <2>1, <1>1 DEF n
    <3>4. a \in Seq(B \cup {e}) /\ e \in B \cup {e}
      BY <3>1
    <3>5. Append(a, e)[Len(a) + 1] = e
      BY <3>4, AppendProperties
    <3> QED
      BY <3>2, <3>3, <3>5 DEF e
  <2> QED
    BY <2>1, <2>3, <2>4
<1> QED
  BY <1>0, <1>4, <1>5

(* The clear values of the wires, in the same way.                         *)
LEMMA ClearAre ==
    ASSUME NEW prog \in BooleanProgram, RecordCanonical(prog),
           NEW A, NEW in \in Seq(A), Len(in) = prog.num_inputs,
           NEW v, v = ClearEval(prog, in)
    PROVE  /\ Len(v) = prog.num_inputs + Len(prog.gates)
           /\ \A j \in 1 .. prog.num_inputs : v[j] = in[j]
           /\ \A k \in 1 .. Len(prog.gates) :
                v[prog.num_inputs + k] = ClearBit(v, prog.gates[k])
<1>1. prog.gates \in Seq(Gate) /\ prog.num_inputs \in Nat
  BY DEF BooleanProgram
<1>2. Appends("clear", {})
  BY DEF FoldStep, Appends
<1>3. GrowsTo(v, "clear", {}, in, prog.gates)
  <2>1. GrowsTo(Fold("clear", {}, in, prog.gates), "clear", {}, in, prog.gates)
    BY <1>1, <1>2, GrowingFold
  <2> QED
    BY <2>1, ClearFold
<1>4. /\ Len(v) = Len(in) + Len(prog.gates)
      /\ \A j \in 1 .. Len(in) : v[j] = in[j]
      /\ \A k \in 1 .. Len(prog.gates) :
           \E a : /\ \E B : a \in Seq(B)
                  /\ Len(a) = Len(in) + (k - 1)
                  /\ \A j \in 1 .. (Len(in) + (k - 1)) : v[j] = a[j]
                  /\ v[Len(in) + k] = FoldStep("clear", {}, a, prog.gates[k])[Len(in) + k]
  BY <1>3 DEF GrowsTo
<1>5. ASSUME NEW k \in 1 .. Len(prog.gates)
      PROVE  v[prog.num_inputs + k] = ClearBit(v, prog.gates[k])
  <2> DEFINE n == prog.num_inputs
             g == prog.gates[k]
  <2>1. PICK a : /\ \E B : a \in Seq(B)
                 /\ Len(a) = n + (k - 1)
                 /\ \A j \in 1 .. (n + (k - 1)) : v[j] = a[j]
                 /\ v[n + k] = FoldStep("clear", {}, a, g)[n + k]
    <3>1. Len(in) = prog.num_inputs
      OBVIOUS
    <3>2. \E a : /\ \E B : a \in Seq(B)
                 /\ Len(a) = Len(in) + (k - 1)
                 /\ \A j \in 1 .. (Len(in) + (k - 1)) : v[j] = a[j]
                 /\ v[Len(in) + k] = FoldStep("clear", {}, a, prog.gates[k])[Len(in) + k]
      BY <1>4
    <3> QED
      BY <3>1, <3>2
  <2>2. g \in Gate /\ \A x \in Reads(g) : x + 1 \in 1 .. (n + (k - 1))
    BY OperandsBelow
  <2>3. ClearBit(a, g) = ClearBit(v, g)
    <3>0. g.op \in {"And", "Xor", "Not", "Const0", "Const1"}
      BY <2>2, GateCases
    <3>1. CASE g.op \in {"And", "Xor"}
      <4>1. v[g.in0 + 1] = a[g.in0 + 1] /\ v[g.in1 + 1] = a[g.in1 + 1]
        BY <2>1, <2>2, <3>1, GateCases
      <4> HIDE DEF g, n
      <4> QED
        BY <4>1, <3>1 DEF ClearBit, IsConst
    <3>2. CASE g.op = "Not"
      <4>1. v[g.in0 + 1] = a[g.in0 + 1]
        BY <2>1, <2>2, <3>2, GateCases
      <4> HIDE DEF g, n
      <4> QED
        BY <4>1, <3>2 DEF ClearBit, IsConst
    <3>3. CASE g.op \in {"Const0", "Const1"}
      <4> HIDE DEF g, n
      <4> QED
        BY <3>3 DEF ClearBit, IsConst
    <3> QED
      BY <3>0, <3>1, <3>2, <3>3
  <2>4. FoldStep("clear", {}, a, g)[n + k] = ClearBit(a, g)
    <3> DEFINE e == ClearBit(a, g)
    <3>1. PICK B : a \in Seq(B)
      BY <2>1
    <3>2. FoldStep("clear", {}, a, g) = Append(a, e)
      BY DEF FoldStep
    <3> HIDE DEF e, g, n
    <3>3. n + k = Len(a) + 1
      BY <2>1, <1>1 DEF n
    <3>4. a \in Seq(B \cup {e}) /\ e \in B \cup {e}
      BY <3>1
    <3>5. Append(a, e)[Len(a) + 1] = e
      BY <3>4, AppendProperties
    <3> QED
      BY <3>2, <3>3, <3>5 DEF e
  <2> QED
    BY <2>1, <2>3, <2>4
<1> QED
  BY <1>4, <1>5
-------------------------------------------------------------------------------
(* Induction over the wires of a canonical program: G holds the places of  *)
(* the wires for which something is true.                                  *)
LEMMA WireInduction ==
    ASSUME NEW prog \in BooleanProgram, RecordCanonical(prog), NEW G,
           \A j \in 1 .. prog.num_inputs : j \in G,
           \A k \in 1 .. Len(prog.gates) :
             (\A v \in Reads(prog.gates[k]) : v + 1 \in G) => prog.num_inputs + k \in G
    PROVE  \A j \in 1 .. (prog.num_inputs + Len(prog.gates)) : j \in G
<1> DEFINE n == prog.num_inputs
           S == {k \in Nat : k <= Len(prog.gates) => \A j \in 1 .. (n + k) : j \in G}
<1>1. n \in Nat /\ Len(prog.gates) \in Nat
  BY DEF BooleanProgram
<1>2. 0 \in S
  BY <1>1
<1>3. ASSUME NEW k \in Nat, k \in S PROVE k + 1 \in S
  <2>1. CASE ~(k + 1 <= Len(prog.gates))
    BY <2>1
  <2>2. CASE k + 1 <= Len(prog.gates)
    <3>1. k + 1 \in 1 .. Len(prog.gates) /\ (k + 1) - 1 = k
      BY <1>1, <2>2
    <3>2. \A j \in 1 .. (n + k) : j \in G
      BY <1>1, <1>3, <2>2
    <3>3. \A v \in Reads(prog.gates[k + 1]) : v + 1 \in 1 .. (n + k)
      BY <3>1, OperandsBelow
    <3>4. n + (k + 1) \in G
      BY <3>1, <3>2, <3>3
    <3>5. \A j \in 1 .. (n + (k + 1)) : j \in 1 .. (n + k) \/ j = n + (k + 1)
      BY <1>1
    <3> QED
      BY <3>2, <3>4, <3>5
  <2> QED
    BY <2>1, <2>2
<1> HIDE DEF S
<1>4. Nat \subseteq S
  BY <1>2, <1>3, SetInduction
<1> QED
  BY <1>1, <1>4 DEF S

(* The shape of a wire.                                                    *)
IsWire(x) == x = [share |-> x.share, lamA |-> x.lamA, lamB |-> x.lamB]

(* Every gate makes a wire.                                                *)
LEMMA GateWireShape ==
    ASSUME NEW prog, NEW draws, NEW w, NEW g \in Gate
    PROVE  IsWire(GateWire(prog, draws, w, g))
<1>1. g.op \in {"And", "Xor", "Not", "Const0", "Const1"}
  BY GateCases
<1> DEFINE x == GateWire(prog, draws, w, g)
<1>2. \E s, la, lb : x = [share |-> s, lamA |-> la, lamB |-> lb]
  <2>1. CASE g.op = "And"
    BY <2>1 DEF GateWire, IsConst, EvalAnd
  <2>2. CASE g.op = "Xor"
    BY <2>2 DEF GateWire, IsConst, EvalXor
  <2>3. CASE g.op = "Not"
    BY <2>3 DEF GateWire, IsConst, EvalNot
  <2>4. CASE g.op \in {"Const0", "Const1"}
    BY <2>4 DEF GateWire, IsConst, PublicWire
  <2> QED
    BY <1>1, <2>1, <2>2, <2>3, <2>4
<1> HIDE DEF x
<1>3. IsWire(x)
  BY <1>2 DEF IsWire
<1> QED
  BY <1>3 DEF x

(* The AND gates of a program can be counted.                              *)
LEMMA AndGatesFinite ==
    ASSUME NEW prog \in BooleanProgram
    PROVE  IsFiniteSet(AndGates(prog)) /\ Cardinality(AndGates(prog)) \in Nat
<1>1. Len(prog.gates) \in Nat /\ DOMAIN prog.gates = 1 .. Len(prog.gates)
  BY DEF BooleanProgram
<1>2. AndGates(prog) \subseteq 1 .. Len(prog.gates)
  BY <1>1 DEF AndGates
<1> DEFINE k == Len(prog.gates)
<1>3. IsFiniteSet(1 .. k)
  <2>1. k \in Int /\ 1 \in Int
    BY <1>1
  <2> HIDE DEF k
  <2> QED
    BY <2>1, FS_Interval
<1> QED
  BY <1>2, <1>3, FS_Subset, FS_CardinalityType

(* The draws of a program's ANDs lie behind those made before.             *)
LEMMA DrawRange ==
    ASSUME NEW prog \in BooleanProgram, NEW draws \in Nat, NEW i \in AndGates(prog)
    PROVE  /\ Cardinality(AndGates(prog)) \in Nat
           /\ DrawOf(prog, draws, prog.gates[i]) \in (draws + 1) .. (draws + Cardinality(AndGates(prog)))
<1> DEFINE S == {j \in AndGates(prog) : prog.gates[j].out <= prog.gates[i].out}
<1>1. prog.gates \in Seq(Gate) /\ i \in 1 .. Len(prog.gates) /\ Len(prog.gates) \in Nat
  BY DEF BooleanProgram, AndGates
<1>2. IsFiniteSet(AndGates(prog))
  BY AndGatesFinite
<1>3. S \subseteq AndGates(prog) /\ i \in S
  <2>0. prog.gates[i] \in Gate
    BY <1>1
  <2>1. prog.gates[i].out \in Nat
    BY <2>0, GateCases
  <2>2. prog.gates[i].out <= prog.gates[i].out
    BY <2>1
  <2> QED
    BY <2>2
<1> HIDE DEF S
<1>4. /\ IsFiniteSet(S) /\ Cardinality(S) \in Nat /\ Cardinality(AndGates(prog)) \in Nat
      /\ Cardinality(S) <= Cardinality(AndGates(prog))
  BY <1>2, <1>3, FS_Subset, FS_CardinalityType
<1>5. Cardinality(S) # 0
  BY <1>3, <1>4, FS_EmptySet
<1>6. DrawOf(prog, draws, prog.gates[i]) = draws + Cardinality(S)
  BY DEF DrawOf, S
<1> QED
  BY <1>4, <1>5, <1>6

(* Every share of a run is made of the shares of its inputs and of those   *)
(* drawn for its ANDs.                                                     *)
LEMMA SharesBounded ==
    ASSUME NEW prog \in BooleanProgram, RecordCanonical(prog), NEW draws \in Nat,
           NEW A, NEW in \in Seq(A), Len(in) = prog.num_inputs,
           \A k \in DOMAIN in : IsWire(in[k]) /\ in[k].share \subseteq 1 .. draws,
           NEW w, w = EvaluatedWires(prog, in, draws)
    PROVE  /\ Cardinality(AndGates(prog)) \in Nat
           /\ \A j \in 1 .. (prog.num_inputs + Len(prog.gates)) :
                /\ IsWire(w[j])
                /\ w[j].share \subseteq 1 .. (draws + Cardinality(AndGates(prog)))
<1> DEFINE n == prog.num_inputs
           a == Cardinality(AndGates(prog))
           G == {j \in Nat : IsWire(w[j]) /\ w[j].share \subseteq 1 .. (draws + a)}
<1>1. /\ n \in Nat /\ prog.gates \in Seq(Gate) /\ Len(prog.gates) \in Nat
      /\ DOMAIN prog.gates = 1 .. Len(prog.gates) /\ DOMAIN in = 1 .. n
  BY DEF BooleanProgram
<1>2. a \in Nat
  BY AndGatesFinite
<1>3. /\ \A j \in 1 .. n : w[j] = in[j]
      /\ \A k \in 1 .. Len(prog.gates) : w[n + k] = GateWire(prog, draws, w, prog.gates[k])
  BY WiresAre
<1>4. ASSUME NEW j \in 1 .. n PROVE j \in G
  <2>1. IsWire(w[j]) /\ w[j].share \subseteq 1 .. draws
    BY <1>1, <1>3
  <2>2. 1 .. draws \subseteq 1 .. (draws + a)
    BY <1>2
  <2> QED
    BY <2>1, <2>2
<1>5. ASSUME NEW k \in 1 .. Len(prog.gates), \A v \in Reads(prog.gates[k]) : v + 1 \in G
      PROVE  n + k \in G
  <2> DEFINE g == prog.gates[k]
             x == GateWire(prog, draws, w, g)
  <2>1. g \in Gate
    BY <1>1
  <2>2. IsWire(x)
    BY <2>1, GateWireShape
  <2>3. x.share \subseteq 1 .. (draws + a)
    <3>0. g.op \in {"And", "Xor", "Not", "Const0", "Const1"}
      BY <2>1, GateCases
    <3>1. CASE g.op = "And"
      <4>1. k \in AndGates(prog)
        BY <1>1, <3>1 DEF AndGates
      <4>2. DrawOf(prog, draws, g) \in 1 .. (draws + a)
        BY <1>2, <4>1, DrawRange, SMTT(20)
      <4>3. x.share = {DrawOf(prog, draws, g)}
        BY <3>1 DEF GateWire, IsConst, EvalAnd
      <4> QED
        BY <4>2, <4>3
    <3>2. CASE g.op = "Xor"
      <4>1. w[g.in0 + 1].share \subseteq 1 .. (draws + a) /\ w[g.in1 + 1].share \subseteq 1 .. (draws + a)
        BY <1>5, <2>1, <3>2, GateCases
      <4>2. x.share = XorShares(w[g.in0 + 1].share, w[g.in1 + 1].share)
        BY <3>2 DEF GateWire, IsConst, EvalXor
      <4> HIDE DEF a, x
      <4> QED
        BY <4>1, <4>2 DEF XorShares, SymDiff
    <3>3. CASE g.op = "Not"
      <4>1. w[g.in0 + 1].share \subseteq 1 .. (draws + a)
        BY <1>5, <2>1, <3>3, GateCases
      <4>2. x.share = w[g.in0 + 1].share
        BY <3>3 DEF GateWire, IsConst, EvalNot
      <4> QED
        BY <4>1, <4>2
    <3>4. CASE g.op \in {"Const0", "Const1"}
      <4>1. x.share = {}
        BY <3>4 DEF GateWire, IsConst, PublicWire
      <4> QED
        BY <4>1
    <3> QED
      BY <3>0, <3>1, <3>2, <3>3, <3>4
  <2>4. w[n + k] = x /\ n + k \in Nat
    BY <1>1, <1>3
  <2> HIDE DEF x
  <2> QED
    BY <2>2, <2>3, <2>4
<1> HIDE DEF G
<1>6. \A j \in 1 .. (n + Len(prog.gates)) : j \in G
  BY <1>4, <1>5, WireInduction
<1> QED
  BY <1>2, <1>6 DEF G
-------------------------------------------------------------------------------
(* XOR of bits and of shares.                                              *)
LEMMA LambdaOfXor ==
    ASSUME NEW s, NEW t
    PROVE  Lambda(XorShares(s, t)) = XorBit(Lambda(s), Lambda(t))
<1>1. \A r : \A x : x \in Lambda(r) <=> \E n \in r : x = {<<"mask", n>>}
  BY DEF Lambda, DrawnMask, Var
<1>2. \A x : x \in Lambda(XorShares(s, t)) <=> x \in XorBit(Lambda(s), Lambda(t))
  <2> SUFFICES ASSUME NEW x PROVE x \in Lambda(XorShares(s, t)) <=> x \in XorBit(Lambda(s), Lambda(t))
    OBVIOUS
  <2>1. \A n, k : {<<"mask", n>>} = {<<"mask", k>>} => n = k
    <3>1. \A a, b : {a} = {b} => a = b
      OBVIOUS
    <3>2. \A n, k : <<"mask", n>> = <<"mask", k>> => n = k
      OBVIOUS
    <3> QED
      BY <3>1, <3>2, Zenon
  <2>2. x \in Lambda(s) <=> \E n \in s : x = {<<"mask", n>>}
    BY <1>1
  <2>3. x \in Lambda(t) <=> \E n \in t : x = {<<"mask", n>>}
    BY <1>1
  <2>4. x \in Lambda(XorShares(s, t)) <=> \E n \in XorShares(s, t) : x = {<<"mask", n>>}
    BY <1>1
  <2>5. \A n : n \in XorShares(s, t) <=> (n \in s /\ n \notin t) \/ (n \in t /\ n \notin s)
    BY DEF XorShares, SymDiff
  <2>6. x \in XorBit(Lambda(s), Lambda(t)) <=>
          (x \in Lambda(s) /\ x \notin Lambda(t)) \/ (x \in Lambda(t) /\ x \notin Lambda(s))
    BY DEF XorBit, SymDiff
  <2> QED
    BY <2>1, <2>2, <2>3, <2>4, <2>5, <2>6
<1> QED
  BY <1>2

(* The laws of XOR the masks need.                                         *)
LEMMA XorLaws ==
    ASSUME NEW p, NEW q, NEW r, NEW s
    PROVE  /\ XorBit(XorBit(p, q), XorBit(r, s)) = XorBit(XorBit(p, r), XorBit(q, s))
           /\ XorBit(NotBit(p), q) = NotBit(XorBit(p, q))
           /\ XorBit(XorBit(p, q), p) = q
           /\ XorBit(p, {}) = p
BY DEF XorBit, NotBit, SymDiff

(* What the evaluator's masks and shares of a gate decode to, from what    *)
(* those of its operands decode to.                                        *)
LEMMA GateDecodes ==
    ASSUME NEW prog, NEW draws, NEW w, NEW g \in Gate, NEW val,
           g.op \in {"And", "Xor", "Not"} => val[g.in0 + 1] = ValueAtBob(w[g.in0 + 1]),
           g.op \in {"And", "Xor"} => val[g.in1 + 1] = ValueAtBob(w[g.in1 + 1])
    PROVE  ValueAtBob(GateWire(prog, draws, w, g)) = ClearBit(val, g)
<1> DEFINE x == GateWire(prog, draws, w, g)
           a == w[g.in0 + 1]
           b == w[g.in1 + 1]
<1>0. g.op \in {"And", "Xor", "Not", "Const0", "Const1"}
  BY GateCases
<1>1. CASE g.op = "And"
  <2> DEFINE n == DrawOf(prog, draws, g)
  <2>1. x.share = {n} /\ x.lamB = XorBit(DrawnMask(n), AndBit(ValueAtBob(a), ValueAtBob(b)))
    BY <1>1 DEF GateWire, IsConst, EvalAnd
  <2>2. Lambda({n}) = DrawnMask(n)
    BY DEF Lambda
  <2>3. ValueAtBob(x) = AndBit(ValueAtBob(a), ValueAtBob(b))
    BY <2>1, <2>2, XorLaws DEF ValueAtBob
  <2>4. ClearBit(val, g) = AndBit(val[g.in0 + 1], val[g.in1 + 1])
    BY <1>1 DEF ClearBit, IsConst
  <2> QED
    BY <1>1, <2>3, <2>4
<1>2. CASE g.op = "Xor"
  <2>1. x.share = XorShares(a.share, b.share) /\ x.lamB = XorBit(a.lamB, b.lamB)
    BY <1>2 DEF GateWire, IsConst, EvalXor
  <2>2. ValueAtBob(x) = XorBit(ValueAtBob(a), ValueAtBob(b))
    BY <2>1, LambdaOfXor, XorLaws DEF ValueAtBob
  <2>3. ClearBit(val, g) = XorBit(val[g.in0 + 1], val[g.in1 + 1])
    BY <1>2 DEF ClearBit, IsConst
  <2> QED
    BY <1>2, <2>2, <2>3
<1>3. CASE g.op = "Not"
  <2>1. x.share = a.share /\ x.lamB = NotBit(a.lamB)
    BY <1>3 DEF GateWire, IsConst, EvalNot
  <2>2. ValueAtBob(x) = NotBit(ValueAtBob(a))
    BY <2>1, XorLaws DEF ValueAtBob
  <2>3. ClearBit(val, g) = NotBit(val[g.in0 + 1])
    BY <1>3 DEF ClearBit, IsConst
  <2> QED
    BY <1>3, <2>2, <2>3
<1>4. CASE g.op \in {"Const0", "Const1"}
  <2>1. x.share = {} /\ x.lamB = ConstBit(g.op = "Const1")
    BY <1>4 DEF GateWire, IsConst, PublicWire
  <2>2. Lambda({}) = {}
    BY DEF Lambda
  <2>3. ValueAtBob(x) = ConstBit(g.op = "Const1")
    BY <2>1, <2>2, XorLaws DEF ValueAtBob
  <2>4. ClearBit(val, g) = ConstBit(g.op = "Const1")
    BY <1>4 DEF ClearBit, IsConst
  <2> QED
    BY <2>3, <2>4
<1> QED
  BY <1>0, <1>1, <1>2, <1>3, <1>4

(* Every wire of a run decodes at the evaluator to its clear value: the    *)
(* program run on shares and masks is the program run in the clear.        *)
LEMMA WiresDecode ==
    ASSUME NEW prog \in BooleanProgram, RecordCanonical(prog), NEW draws,
           NEW A, NEW in \in Seq(A), Len(in) = prog.num_inputs,
           NEW w, w = EvaluatedWires(prog, in, draws),
           NEW B, NEW clear \in Seq(B), Len(clear) = Len(in),
           \A k \in DOMAIN in : clear[k] = ValueAtBob(in[k]),
           NEW val, val = ClearEval(prog, clear)
    PROVE  \A j \in 1 .. (prog.num_inputs + Len(prog.gates)) : ValueAtBob(w[j]) = val[j]
<1> DEFINE n == prog.num_inputs
           G == {j \in Nat : ValueAtBob(w[j]) = val[j]}
<1>1. /\ n \in Nat /\ prog.gates \in Seq(Gate) /\ Len(prog.gates) \in Nat
      /\ DOMAIN in = 1 .. n
  BY DEF BooleanProgram
<1>2. /\ \A j \in 1 .. n : w[j] = in[j]
      /\ \A k \in 1 .. Len(prog.gates) : w[n + k] = GateWire(prog, draws, w, prog.gates[k])
  BY WiresAre, SMTT(20)
<1>3. /\ \A j \in 1 .. n : val[j] = clear[j]
      /\ \A k \in 1 .. Len(prog.gates) : val[n + k] = ClearBit(val, prog.gates[k])
  BY ClearAre, SMTT(20)
<1>4. ASSUME NEW j \in 1 .. n PROVE j \in G
  BY <1>1, <1>2, <1>3
<1>5. ASSUME NEW k \in 1 .. Len(prog.gates), \A v \in Reads(prog.gates[k]) : v + 1 \in G
      PROVE  n + k \in G
  <2> DEFINE g == prog.gates[k]
  <2>1. g \in Gate
    BY <1>1
  <2>2. /\ g.op \in {"And", "Xor", "Not"} => val[g.in0 + 1] = ValueAtBob(w[g.in0 + 1])
        /\ g.op \in {"And", "Xor"} => val[g.in1 + 1] = ValueAtBob(w[g.in1 + 1])
    BY <1>5, <2>1, GateCases
  <2> HIDE DEF g
  <2>3. ValueAtBob(GateWire(prog, draws, w, g)) = ClearBit(val, g)
    BY <2>1, <2>2, GateDecodes
  <2>4. n + k \in Nat
    BY <1>1
  <2> QED
    BY <1>2, <1>3, <2>3, <2>4 DEF g
<1> HIDE DEF G
<1>6. \A j \in 1 .. (n + Len(prog.gates)) : j \in G
  BY <1>4, <1>5, WireInduction
<1> QED
  BY <1>6 DEF G

(* If the parties agree on the Lambda of every input, the garbler's masks  *)
(* after the gamma-check pass are those of the evaluator on every wire.    *)
LEMMA MasksAgree ==
    ASSUME NEW prog \in BooleanProgram, RecordCanonical(prog), NEW draws,
           NEW A, NEW in \in Seq(A), Len(in) = prog.num_inputs,
           \A k \in DOMAIN in : in[k].lamA = in[k].lamB,
           NEW w, w = EvaluatedWires(prog, in, draws),
           NEW m, m = GammaCheckMasks(prog, w)
    PROVE  \A j \in 1 .. (prog.num_inputs + Len(prog.gates)) : m[j] = w[j].lamB
<1> DEFINE n == prog.num_inputs
           G == {j \in Nat : m[j] = w[j].lamB}
<1>1. /\ n \in Nat /\ prog.gates \in Seq(Gate) /\ Len(prog.gates) \in Nat
      /\ DOMAIN in = 1 .. n
  BY DEF BooleanProgram
<1>2. /\ \A j \in 1 .. n : w[j] = in[j]
      /\ \A k \in 1 .. Len(prog.gates) : w[n + k] = GateWire(prog, draws, w, prog.gates[k])
  BY WiresAre, SMTT(20)
<1>3. /\ \A j \in 1 .. n : m[j] = w[j].lamA
      /\ \A k \in 1 .. Len(prog.gates) : m[n + k] = CheckedMask(w, m, prog.gates[k])
  BY MasksAre, SMTT(20)
<1>4. ASSUME NEW j \in 1 .. n PROVE j \in G
  BY <1>1, <1>2, <1>3
<1>5. ASSUME NEW k \in 1 .. Len(prog.gates), \A v \in Reads(prog.gates[k]) : v + 1 \in G
      PROVE  n + k \in G
  <2> DEFINE g == prog.gates[k]
             x == GateWire(prog, draws, w, g)
  <2>1. g \in Gate /\ g.out = n + (k - 1)
    BY OperandsBelow
  <2>2. g.out + 1 = n + k /\ n + k \in Nat
    BY <1>1, <2>1
  <2>3. w[n + k] = x /\ m[n + k] = CheckedMask(w, m, g)
    BY <1>2, <1>3
  <2>4. g.op \in {"And", "Xor", "Not", "Const0", "Const1"}
    BY <2>1, GateCases
  <2>5. /\ g.op \in {"Xor", "Not"} => m[g.in0 + 1] = w[g.in0 + 1].lamB
        /\ g.op = "Xor" => m[g.in1 + 1] = w[g.in1 + 1].lamB
    BY <1>5, <2>1, GateCases
  <2>6. CheckedMask(w, m, g) = x.lamB
    <3> HIDE DEF n
    <3>1. CASE g.op = "And"
      <4>1. CheckedMask(w, m, g) = w[g.out + 1].lamB
        BY <3>1 DEF CheckedMask, IsConst
      <4> HIDE DEF g, x
      <4> QED
        BY <4>1, <2>2, <2>3
    <3>2. CASE g.op = "Xor"
      <4> HIDE DEF g
      <4> QED
        BY <2>5, <3>2 DEF CheckedMask, IsConst, GateWire, EvalXor
    <3>3. CASE g.op = "Not"
      <4> HIDE DEF g
      <4> QED
        BY <2>5, <3>3 DEF CheckedMask, IsConst, GateWire, EvalNot
    <3>4. CASE g.op \in {"Const0", "Const1"}
      <4>1. CheckedMask(w, m, g) = w[g.out + 1].lamA
        BY <3>4 DEF CheckedMask, IsConst
      <4>2. x.lamA = x.lamB
        BY <3>4 DEF GateWire, IsConst, PublicWire
      <4> HIDE DEF g, x
      <4> QED
        BY <4>1, <4>2, <2>2, <2>3
    <3> QED
      BY <2>4, <3>1, <3>2, <3>3, <3>4
  <2> HIDE DEF g, x
  <2> QED
    BY <2>2, <2>3, <2>6
<1> HIDE DEF G
<1>6. \A j \in 1 .. (n + Len(prog.gates)) : j \in G
  BY <1>4, <1>5, WireInduction
<1> QED
  BY <1>6 DEF G
-------------------------------------------------------------------------------
(* Well-formed wires over the first d shares, which decode at the          *)
(* evaluator to the outputs of the program run in the clear.               *)
Returns(out, prog, clear, d) ==
    /\ DOMAIN out = DOMAIN prog.outputs
    /\ \A k \in DOMAIN prog.outputs :
         /\ IsWire(out[k]) /\ out[k].share \subseteq 1 .. d
         /\ ValueAtBob(out[k]) = ClearEval(prog, clear)[prog.outputs[k] + 1]

(* A run of a canonical program returns such wires, over the shares drawn  *)
(* before it and by it.                                                    *)
THEOREM RunReturns ==
    ASSUME NEW prog \in BooleanProgram, RecordCanonical(prog), NEW draws \in Nat,
           NEW A, NEW in \in Seq(A), Len(in) = prog.num_inputs,
           \A k \in DOMAIN in : IsWire(in[k]) /\ in[k].share \subseteq 1 .. draws,
           NEW B, NEW clear \in Seq(B), Len(clear) = Len(in),
           \A k \in DOMAIN in : clear[k] = ValueAtBob(in[k])
    PROVE  Returns(run_source(prog, in, draws).out, prog, clear,
                   draws + Cardinality(AndGates(prog)))
<1> DEFINE out == run_source(prog, in, draws).out
           w == EvaluatedWires(prog, in, draws)
           m == GammaCheckMasks(prog, w)
           val == ClearEval(prog, clear)
           N == prog.num_inputs + Len(prog.gates)
           a == Cardinality(AndGates(prog))
<1>1. \A j \in 1 .. N : IsWire(w[j]) /\ w[j].share \subseteq 1 .. (draws + a)
  BY SharesBounded
<1>2. \A j \in 1 .. N : ValueAtBob(w[j]) = val[j]
  BY WiresDecode
<1>3. \A k \in DOMAIN prog.outputs : prog.outputs[k] \in 0 .. (N - 1)
  BY DEF RecordCanonical, validate_program
<1>4. N \in Nat
  BY DEF BooleanProgram
<1>5. out = [k \in DOMAIN prog.outputs |->
               LET o == prog.outputs[k] + 1
               IN IF AndGates(prog) = {} THEN w[o] ELSE [w[o] EXCEPT !.lamA = m[o]]]
  BY DEF run_source, CheckAndGather, Gather
<1> HIDE DEF out, w, m, val, N, a
<1>6. ASSUME NEW k \in DOMAIN prog.outputs
      PROVE  /\ IsWire(out[k]) /\ out[k].share \subseteq 1 .. (draws + a)
             /\ ValueAtBob(out[k]) = val[prog.outputs[k] + 1]
  <2> DEFINE o == prog.outputs[k] + 1
  <2>1. o \in 1 .. N
    BY <1>3, <1>4
  <2>2. out[k] = IF AndGates(prog) = {} THEN w[o] ELSE [w[o] EXCEPT !.lamA = m[o]]
    BY <1>5
  <2>3. IsWire(w[o]) /\ w[o].share \subseteq 1 .. (draws + a) /\ ValueAtBob(w[o]) = val[o]
    BY <1>1, <1>2, <2>1
  <2> HIDE DEF o
  <2>4. [w[o] EXCEPT !.lamA = m[o]] = [share |-> w[o].share, lamA |-> m[o], lamB |-> w[o].lamB]
    BY <2>3 DEF IsWire
  <2>5. IsWire(out[k]) /\ out[k].share = w[o].share /\ out[k].lamB = w[o].lamB
    <3>1. CASE AndGates(prog) = {}
      BY <2>2, <2>3, <3>1
    <3>2. CASE AndGates(prog) # {}
      <4>1. out[k] = [share |-> w[o].share, lamA |-> m[o], lamB |-> w[o].lamB]
        BY <2>2, <2>4, <3>2
      <4> QED
        BY <4>1 DEF IsWire
    <3> QED
      BY <3>1, <3>2
  <2>6. ValueAtBob(out[k]) = ValueAtBob(w[o])
    BY <2>5 DEF ValueAtBob
  <2> QED
    BY <2>3, <2>5, <2>6 DEF o
<1>7. DOMAIN out = DOMAIN prog.outputs
  BY <1>5
<1> QED
  BY <1>6, <1>7 DEF Returns, out, val, a

(* A bit that is the same at both parties makes no difference.             *)
LEMMA HoldsNothing == \A world : ~Holds({}, world)
<1> SUFFICES ASSUME NEW world PROVE ~Holds({}, world)
  OBVIOUS
<1>1. {x \in {} : x \subseteq world} = {}
  OBVIOUS
<1>2. Cardinality({}) = 0
  BY FS_EmptySet
<1> QED
  BY <1>1, <1>2 DEF Holds

(* c_gamma cannot fail, and passes, if the parties agree on every input.   *)
THEOREM AgreeingRunPasses ==
    ASSUME NEW prog \in BooleanProgram, RecordCanonical(prog), NEW draws,
           NEW A, NEW in \in Seq(A), Len(in) = prog.num_inputs,
           \A k \in DOMAIN in : in[k].lamA = in[k].lamB
    PROVE  ~run_source(prog, in, draws).mayFail
<1> DEFINE w == EvaluatedWires(prog, in, draws)
           m == GammaCheckMasks(prog, w)
           N == prog.num_inputs + Len(prog.gates)
<1>1. \A j \in 1 .. N : m[j] = w[j].lamB
  BY MasksAgree
<1>0. /\ prog.num_inputs \in Nat /\ Len(prog.gates) \in Nat /\ prog.gates \in Seq(Gate)
      /\ DOMAIN prog.gates = 1 .. Len(prog.gates)
  BY DEF BooleanProgram
<1>2. run_source(prog, in, draws).mayFail =
        \E world \in DisagreeingWorlds(w, m) : ~GammaPasses(prog, w, m, world)
  BY DEF run_source, CheckAndGather, Gather
<1> HIDE DEF w, m
<1>3. ASSUME NEW world, NEW i \in AndGates(prog)
      PROVE  ~WitnessDiffers(prog.gates[i], w, m, world)
  <2> DEFINE g == prog.gates[i]
  <2>1. i \in 1 .. Len(prog.gates) /\ g.op = "And"
    BY <1>0 DEF AndGates
  <2>2. g \in Gate /\ \A v \in Reads(g) : v + 1 \in 1 .. (prog.num_inputs + (i - 1))
    BY <2>1, OperandsBelow
  <2>3. g.in0 \in Reads(g) /\ g.in1 \in Reads(g) /\ g.in0 \in Nat /\ g.in1 \in Nat
    BY <2>1, <2>2, GateCases
  <2>4. g.in0 + 1 \in 1 .. N /\ g.in1 + 1 \in 1 .. N
    <3>1. \A v \in 1 .. (prog.num_inputs + (i - 1)) : v \in 1 .. N
      BY <1>0, <2>1
    <3> QED
      BY <2>2, <2>3, <3>1
  <2>5. m[g.in0 + 1] = w[g.in0 + 1].lamB /\ m[g.in1 + 1] = w[g.in1 + 1].lamB
    BY <1>1, <2>4
  <2>6. \A b : XorBit(b, b) = {}
    BY DEF XorBit, SymDiff
  <2> HIDE DEF g
  <2>7. ~Holds(XorBit(m[g.in0 + 1], w[g.in0 + 1].lamB), world)
    BY <2>5, <2>6, HoldsNothing
  <2>8. ~Holds(XorBit(m[g.in1 + 1], w[g.in1 + 1].lamB), world)
    BY <2>5, <2>6, HoldsNothing
  <2>9. ~WitnessDiffers(g, w, m, world)
    BY <2>7, <2>8 DEF WitnessDiffers
  <2> QED
    BY <2>9 DEF g
<1>4. \A world : GammaPasses(prog, w, m, world)
  BY <1>3 DEF GammaPasses
<1> QED
  BY <1>2, <1>4
-------------------------------------------------------------------------------
(* The lists plan_flush builds in a loop, as folds.                        *)
LEMMA PlanFolds ==
    ASSUME NEW s, NEW S
    PROVE  /\ Sublist(s, S) = Fold("sublist", S, <<>>, s)
           /\ InputIds(s, S) = Fold("inputs", S, <<>>, s)
           /\ OutputIds(s, S) = Fold("outputs", S, <<>>, s)
<1> USE DEF FoldStep, Fold, FoldLeft, MapThenFoldSet, Max
<1>1. Sublist(s, S) = Fold("sublist", S, <<>>, s)
  BY DEF Sublist
<1>2. InputIds(s, S) = Fold("inputs", S, <<>>, s)
  BY DEF InputIds
<1>3. OutputIds(s, S) = Fold("outputs", S, <<>>, s)
  BY DEF OutputIds
<1> QED
  BY <1>1, <1>2, <1>3

(* The wires the pending keep ids depend on, as a fold from the end.       *)
LEMMA ReachedFold ==
    ASSUME NEW chunk, NEW keep
    PROVE  Reached(chunk, keep) =
             BackFold("reached", {}, ToSet(keep) \cap ChunkLocal(chunk), chunk)
BY DEF Reached, FoldStep, BackFold, FoldRight, MapThenFoldSet, Min

(* A list with one element more.                                           *)
LEMMA AppendOne ==
    ASSUME NEW S, NEW a \in Seq(S), NEW v \in S, NEW b, b = Append(a, v)
    PROVE  /\ b \in Seq(S) /\ Len(b) = Len(a) + 1 /\ Len(a) \in Nat
           /\ \A j \in 1 .. Len(a) : b[j] = a[j]
           /\ b[Len(a) + 1] = v
           /\ \A j \in 1 .. Len(b) : j \in 1 .. Len(a) \/ j = Len(a) + 1
<1>1. Len(a) \in Nat /\ b \in Seq(S) /\ Len(b) = Len(a) + 1
  BY AppendProperties
<1>2. (\A j \in 1 .. Len(a) : b[j] = a[j]) /\ b[Len(a) + 1] = v
  BY AppendProperties
<1> QED
  BY <1>1, <1>2

(* The list b has what a has, and the ids of X that are in S.              *)
Notes(a, b, S, X) ==
    /\ b \in Seq(S)
    /\ \A x : Contains(a, x) => Contains(b, x)
    /\ \A v \in X : v \in S => Contains(b, v)
    /\ \A x : Contains(b, x) => Contains(a, x) \/ x \in X
    /\ (\A i, j \in 1 .. Len(a) : a[i] = a[j] => i = j) =>
         \A i, j \in 1 .. Len(b) : b[i] = b[j] => i = j

(* Noting an id.                                                           *)
LEMMA NoteIdNotes ==
    ASSUME NEW S, NEW a \in Seq(S), NEW v
    PROVE  Notes(a, NoteId(S, a, v), S, {v})
<1> DEFINE b == NoteId(S, a, v)
<1>1. CASE v \in S /\ ~Contains(a, v)
  <2>1. b = Append(a, v)
    BY <1>1 DEF NoteId
  <2> HIDE DEF b
  <2>2. /\ b \in Seq(S) /\ Len(b) = Len(a) + 1 /\ Len(a) \in Nat
        /\ \A j \in 1 .. Len(a) : b[j] = a[j]
        /\ b[Len(a) + 1] = v
        /\ \A j \in 1 .. Len(b) : j \in 1 .. Len(a) \/ j = Len(a) + 1
    BY <1>1, <2>1, AppendOne
  <2>3. \A j \in 1 .. Len(a) : j \in 1 .. Len(b)
    BY <2>2
  <2>4. Len(a) + 1 \in 1 .. Len(b)
    BY <2>2
  <2>5. \A x : Contains(a, x) => Contains(b, x)
    BY <2>2, <2>3 DEF Contains
  <2>6. Contains(b, v)
    BY <2>2, <2>4 DEF Contains
  <2>7. \A x : Contains(b, x) => Contains(a, x) \/ x = v
    BY <2>2 DEF Contains
  <2>8. \A j \in 1 .. Len(a) : a[j] # v
    BY <1>1 DEF Contains
  <2>9. (\A i, j \in 1 .. Len(a) : a[i] = a[j] => i = j) =>
           \A i, j \in 1 .. Len(b) : b[i] = b[j] => i = j
    BY <2>2, <2>8
  <2>10. Notes(a, b, S, {v})
    BY <2>2, <2>5, <2>6, <2>7, <2>9 DEF Notes
  <2> QED
    BY <2>10 DEF b
<1>2. CASE ~(v \in S /\ ~Contains(a, v))
  <2>1. b = a
    BY <1>2 DEF NoteId
  <2>2. Notes(a, a, S, {v})
    BY <1>2 DEF Notes
  <2> QED
    BY <2>1, <2>2
<1> QED
  BY <1>1, <1>2

(* Noting the operands of a gate.                                          *)
LEMMA NoteOperandsNotes ==
    ASSUME NEW S, NEW a \in Seq(S), NEW g
    PROVE  Notes(a, NoteOperands(S, a, g), S, Reads(g))
<1>1. CASE IsConst(g)
  <2>1. NoteOperands(S, a, g) = a /\ Reads(g) = {}
    BY <1>1 DEF NoteOperands, Reads
  <2>2. Notes(a, a, S, {})
    BY DEF Notes
  <2> QED
    BY <2>1, <2>2
<1>2. CASE ~IsConst(g) /\ IsNot(g)
  <2>1. NoteOperands(S, a, g) = NoteId(S, a, g.in0) /\ Reads(g) = {g.in0}
    BY <1>2 DEF NoteOperands, Reads
  <2>2. Notes(a, NoteId(S, a, g.in0), S, {g.in0})
    BY NoteIdNotes
  <2> QED
    BY <2>1, <2>2
<1>3. CASE ~IsConst(g) /\ ~IsNot(g)
  <2> DEFINE c == NoteId(S, a, g.in0)
             b == NoteId(S, c, g.in1)
  <2>1. NoteOperands(S, a, g) = b /\ Reads(g) = {g.in0, g.in1}
    BY <1>3 DEF NoteOperands, Reads
  <2>2. Notes(a, c, S, {g.in0})
    BY NoteIdNotes
  <2> HIDE DEF c
  <2>3. c \in Seq(S)
    BY <2>2 DEF Notes
  <2>4. Notes(c, b, S, {g.in1})
    BY <2>3, NoteIdNotes
  <2> HIDE DEF b
  <2>5. Notes(a, b, S, {g.in0, g.in1})
    <3>1. /\ b \in Seq(S)
          /\ \A x : Contains(a, x) => Contains(b, x)
          /\ \A v \in {g.in0, g.in1} : v \in S => Contains(b, v)
      BY <2>2, <2>4 DEF Notes
    <3>2. \A x : Contains(b, x) => Contains(a, x) \/ x \in {g.in0, g.in1}
      BY <2>2, <2>4 DEF Notes
    <3>3. (\A i, j \in 1 .. Len(a) : a[i] = a[j] => i = j) =>
            \A i, j \in 1 .. Len(b) : b[i] = b[j] => i = j
      BY <2>2, <2>4, Zenon DEF Notes
    <3> QED
      BY <3>1, <3>2, <3>3, Zenon DEF Notes
  <2> QED
    BY <2>1, <2>5
<1> QED
  BY <1>1, <1>2, <1>3

Injective(s) == \A i, j \in 1 .. Len(s) : s[i] = s[j] => i = j

(* The list o names exactly the ids of S that are in X, each once.         *)
Lists(o, S, X) ==
    /\ o \in Seq(S) /\ Injective(o)
    /\ \A x : Contains(o, x) <=> x \in S /\ x \in X

(* The outputs of a plan: exactly the kept ids of S, each once.            *)
LEMMA OutputIdsAre ==
    ASSUME NEW E, NEW keep \in Seq(E), NEW S
    PROVE  Lists(OutputIds(keep, S), S, ToSet(keep))
<1> DEFINE Good(k, a) ==
             /\ a \in Seq(S)
             /\ \A i \in 1 .. k : keep[i] \in S => Contains(a, keep[i])
             /\ \A x : Contains(a, x) => \E i \in 1 .. k : keep[i] = x
             /\ \A i, j \in 1 .. Len(a) : a[i] = a[j] => i = j
           P == {p \in Nat \X Seq(S) : Good(p[1], p[2])}
           o == OutputIds(keep, S)
<1>1. <<0, <<>> >> \in P
  <2>1. <<>> \in Seq(S) /\ Len(<<>>) = 0
    OBVIOUS
  <2>2. Good(0, <<>>)
    BY <2>1 DEF Contains
  <2> DEFINE e == <<>>
  <2>3. e \in Seq(S) /\ Good(0, e)
    BY <2>1, <2>2
  <2> HIDE DEF Good, e
  <2>4. <<0, e>> \in P
    BY <2>3
  <2> QED
    BY <2>4 DEF e
<1>2. ASSUME NEW k \in 1 .. Len(keep), NEW a, <<k - 1, a>> \in P
      PROVE  <<k, FoldStep("outputs", S, a, keep[k])>> \in P
  <2> DEFINE b == NoteId(S, a, keep[k])
  <2>1. a \in Seq(S) /\ Good(k - 1, a)
    BY <1>2
  <2>2. Notes(a, b, S, {keep[k]})
    BY <2>1, NoteIdNotes
  <2> HIDE DEF b
  <2>3. \A i \in 1 .. k : i \in 1 .. (k - 1) \/ i = k
    OBVIOUS
  <2>4. k \in 1 .. k /\ \A i \in 1 .. (k - 1) : i \in 1 .. k
    OBVIOUS
  <2>5. Good(k, b)
    BY <2>1, <2>2, <2>3, <2>4 DEF Notes
  <2>6. k \in Nat
    OBVIOUS
  <2> HIDE DEF Good
  <2>7. <<k, b>> \in P
    BY <2>2, <2>5, <2>6 DEF Notes
  <2> QED
    BY <2>7 DEF b, FoldStep
<1> HIDE DEF P
<1>3. <<Len(keep), Fold("outputs", S, <<>>, keep)>> \in P
  BY <1>1, <1>2, FoldInduction
<1>4. Good(Len(keep), o)
  BY <1>3, PlanFolds DEF P
<1>5. \A x : Contains(o, x) => x \in S
  BY <1>4 DEF Contains
<1> HIDE DEF o
<1>6. Lists(o, S, ToSet(keep))
  BY <1>4, <1>5 DEF Lists, Injective, ToSet
<1> QED
  BY <1>6 DEF o

(* The inputs of a plan: exactly the ids of S its gates read, each once.   *)
LEMMA InputIdsAre ==
    ASSUME NEW gates \in Seq(Gate), NEW S
    PROVE  Lists(InputIds(gates, S), S, UNION {Reads(gates[i]) : i \in 1 .. Len(gates)})
<1> DEFINE Good(k, a) ==
             /\ a \in Seq(S)
             /\ \A i \in 1 .. k : \A v \in Reads(gates[i]) : v \in S => Contains(a, v)
             /\ \A x : Contains(a, x) => \E i \in 1 .. k : x \in Reads(gates[i])
             /\ \A i, j \in 1 .. Len(a) : a[i] = a[j] => i = j
           P == {p \in Nat \X Seq(S) : Good(p[1], p[2])}
           o == InputIds(gates, S)
<1>1. <<0, <<>> >> \in P
  <2>1. <<>> \in Seq(S) /\ Len(<<>>) = 0
    OBVIOUS
  <2>2. Good(0, <<>>)
    BY <2>1 DEF Contains
  <2> DEFINE e == <<>>
  <2>3. e \in Seq(S) /\ Good(0, e)
    BY <2>1, <2>2
  <2> HIDE DEF Good, e
  <2>4. <<0, e>> \in P
    BY <2>3
  <2> QED
    BY <2>4 DEF e
<1>2. ASSUME NEW k \in 1 .. Len(gates), NEW a, <<k - 1, a>> \in P
      PROVE  <<k, FoldStep("inputs", S, a, gates[k])>> \in P
  <2> DEFINE g == gates[k]
             b == NoteOperands(S, a, g)
  <2>1. a \in Seq(S) /\ Good(k - 1, a)
    BY <1>2
  <2>2. Notes(a, b, S, Reads(g))
    BY <2>1, NoteOperandsNotes
  <2> HIDE DEF b
  <2>3. \A i \in 1 .. k : i \in 1 .. (k - 1) \/ i = k
    OBVIOUS
  <2>4. k \in 1 .. k /\ \A i \in 1 .. (k - 1) : i \in 1 .. k
    OBVIOUS
  <2>5. Good(k, b)
    BY <2>1, <2>2, <2>3, <2>4 DEF Notes
  <2>6. k \in Nat
    OBVIOUS
  <2> HIDE DEF Good
  <2>7. <<k, b>> \in P
    BY <2>2, <2>5, <2>6 DEF Notes
  <2> QED
    BY <2>7 DEF b, FoldStep
<1> HIDE DEF P
<1>3. <<Len(gates), Fold("inputs", S, <<>>, gates)>> \in P
  BY <1>1, <1>2, FoldInduction
<1>4. Good(Len(gates), o)
  BY <1>3, PlanFolds DEF P
<1>5. \A x : Contains(o, x) => x \in S
  BY <1>4 DEF Contains
<1> HIDE DEF o
<1>6. Lists(o, S, UNION {Reads(gates[i]) : i \in 1 .. Len(gates)})
  BY <1>4, <1>5 DEF Lists, Injective
<1> QED
  BY <1>6 DEF o

(* The elements of s that are in S: all of them, in their order.           *)
IsSublist(a, s, n, S) ==
    /\ \A i \in 1 .. Len(a) : a[i] \in S
    /\ \A j \in 1 .. n : s[j] \in S => \E i \in 1 .. Len(a) : a[i] = s[j]
    /\ \A i \in 1 .. Len(a) : \E j \in 1 .. n : a[i] = s[j]
    /\ \A i, k \in 1 .. Len(a) : i < k =>
         \E j, l \in 1 .. n : j < l /\ a[i] = s[j] /\ a[k] = s[l]

(* Sublist keeps exactly the elements of S, in their order.                *)
LEMMA SublistIs ==
    ASSUME NEW E, NEW s \in Seq(E), NEW S
    PROVE  Sublist(s, S) \in Seq(E) /\ IsSublist(Sublist(s, S), s, Len(s), S)
<1> DEFINE P == {p \in Nat \X Seq(E) : IsSublist(p[2], s, p[1], S)}
<1>1. <<0, <<>> >> \in P
  <2>1. <<>> \in Seq(E) /\ Len(<<>>) = 0
    OBVIOUS
  <2>2. IsSublist(<<>>, s, 0, S)
    BY <2>1 DEF IsSublist
  <2> DEFINE e == <<>>
  <2>3. e \in Seq(E) /\ IsSublist(e, s, 0, S)
    BY <2>1, <2>2
  <2> HIDE DEF e
  <2>4. <<0, e>> \in P
    BY <2>3
  <2> QED
    BY <2>4 DEF e
<1>2. ASSUME NEW k \in 1 .. Len(s), NEW a, <<k - 1, a>> \in P
      PROVE  <<k, FoldStep("sublist", S, a, s[k])>> \in P
  <2> DEFINE b == FoldStep("sublist", S, a, s[k])
  <2>1. a \in Seq(E) /\ IsSublist(a, s, k - 1, S) /\ s[k] \in E /\ k \in Nat
    BY <1>2, ElementOfSeq
  <2>2. \A i \in 1 .. k : i \in 1 .. (k - 1) \/ i = k
    OBVIOUS
  <2>3. k \in 1 .. k /\ \A i \in 1 .. (k - 1) : i \in 1 .. k /\ i < k
    OBVIOUS
  <2>4. CASE s[k] \in S
    <3>1. b = Append(a, s[k])
      BY <2>4 DEF FoldStep
    <3> HIDE DEF b
    <3>2. /\ b \in Seq(E) /\ Len(b) = Len(a) + 1 /\ Len(a) \in Nat
          /\ \A j \in 1 .. Len(a) : b[j] = a[j]
          /\ b[Len(a) + 1] = s[k]
          /\ \A j \in 1 .. Len(b) : j \in 1 .. Len(a) \/ j = Len(a) + 1
      BY <2>1, <3>1, AppendOne
    <3>3. Len(a) + 1 \in 1 .. Len(b) /\ \A j \in 1 .. Len(a) : j \in 1 .. Len(b)
      BY <3>2
    <3>4. \A i \in 1 .. Len(b) : b[i] \in S
      BY <2>1, <2>4, <3>2 DEF IsSublist
    <3>5. \A j \in 1 .. k : s[j] \in S => \E i \in 1 .. Len(b) : b[i] = s[j]
      BY <2>1, <2>2, <3>2, <3>3 DEF IsSublist
    <3>6. ASSUME NEW i \in 1 .. Len(b) PROVE \E j \in 1 .. k : b[i] = s[j]
      <4>1. CASE i \in 1 .. Len(a)
        BY <2>1, <2>3, <3>2, <4>1 DEF IsSublist
      <4>2. CASE i = Len(a) + 1
        BY <2>3, <3>2, <4>2
      <4> QED
        BY <3>2, <4>1, <4>2
    <3>7. ASSUME NEW i \in 1 .. Len(b), NEW m \in 1 .. Len(b), i < m
          PROVE  \E j, l \in 1 .. k : j < l /\ b[i] = s[j] /\ b[m] = s[l]
      <4>1. i \in 1 .. Len(a)
        BY <3>2, <3>7
      <4>2. CASE m \in 1 .. Len(a)
        <5>1. PICK j \in 1 .. (k - 1), l \in 1 .. (k - 1) : j < l /\ a[i] = s[j] /\ a[m] = s[l]
          BY <2>1, <3>7, <4>1, <4>2 DEF IsSublist
        <5> QED
          BY <2>3, <3>2, <4>1, <4>2, <5>1
      <4>3. CASE m = Len(a) + 1
        <5>1. PICK j \in 1 .. (k - 1) : a[i] = s[j]
          BY <2>1, <4>1 DEF IsSublist
        <5> QED
          BY <2>3, <3>2, <4>1, <4>3, <5>1
      <4> QED
        BY <3>2, <4>2, <4>3
    <3>8. IsSublist(b, s, k, S)
      BY <3>4, <3>5, <3>6, <3>7 DEF IsSublist
    <3>9. <<k, b>> \in P
      BY <2>1, <3>2, <3>8
    <3> QED
      BY <3>9 DEF b
  <2>5. CASE s[k] \notin S
    <3>1. b = a
      BY <2>5 DEF FoldStep
    <3>2. IsSublist(a, s, k, S)
      <4>1. \A j \in 1 .. k : s[j] \in S => \E i \in 1 .. Len(a) : a[i] = s[j]
        BY <2>1, <2>2, <2>5 DEF IsSublist
      <4>2. \A i \in 1 .. Len(a) : \E j \in 1 .. k : a[i] = s[j]
        BY <2>1, <2>3 DEF IsSublist
      <4>3. \A i, m \in 1 .. Len(a) : i < m =>
              \E j, l \in 1 .. k : j < l /\ a[i] = s[j] /\ a[m] = s[l]
        BY <2>1, <2>3 DEF IsSublist
      <4> QED
        BY <2>1, <4>1, <4>2, <4>3 DEF IsSublist
    <3> QED
      BY <2>1, <3>1, <3>2
  <2> QED
    BY <2>4, <2>5
<1> HIDE DEF P
<1>3. <<Len(s), Fold("sublist", S, <<>>, s)>> \in P
  BY <1>1, <1>2, FoldInduction
<1>4. <<Len(s), Sublist(s, S)>> \in P
  BY <1>3, PlanFolds
<1> QED
  BY <1>4 DEF P
-------------------------------------------------------------------------------
(* A chunk as the recorder leaves it (AG2PCCtx, ChunkOrdered): gates in    *)
(* emission order, each reading only wires before its own.                 *)
EmissionOrder(chunk) ==
    /\ chunk \in Seq(Gate)
    /\ \A i \in 1 .. Len(chunk) : \A v \in Reads(chunk[i]) : v < chunk[i].out
    /\ \A i, j \in 1 .. Len(chunk) : i < j => chunk[i].out < chunk[j].out

(* One walk from the end reaches every wire the kept ids depend on.        *)
LEMMA ReachedClosed ==
    ASSUME NEW chunk, EmissionOrder(chunk), NEW keep
    PROVE  /\ ToSet(keep) \cap ChunkLocal(chunk) \subseteq Reached(chunk, keep)
           /\ \A i \in 1 .. Len(chunk) :
                chunk[i].out \in Reached(chunk, keep) => Reads(chunk[i]) \subseteq Reached(chunk, keep)
<1> DEFINE base == ToSet(keep) \cap ChunkLocal(chunk)
           n == Len(chunk)
<1>1. n \in Nat /\ chunk \in Seq(Gate)
  BY DEF EmissionOrder
<1>2. PICK T : /\ IsBackTrace(T, "reached", {}, base, chunk)
               /\ BackFold("reached", {}, base, chunk) = T[0]
  BY <1>1, BackFoldTrace
<1>3. Reached(chunk, keep) = T[0]
  BY <1>2, ReachedFold
<1>4. T[n] = base
  BY <1>2 DEF IsBackTrace
<1>5. \A k \in 1 .. n : T[k - 1] = IF chunk[k].out \in T[k] THEN T[k] \cup Reads(chunk[k]) ELSE T[k]
  BY <1>2 DEF IsBackTrace, FoldStep
<1> HIDE DEF base, n
(* The wires added after gate i has been passed are before gate i's.       *)
<1>6. ASSUME NEW i \in 0 .. n
      PROVE  \A x \in T[0] \ T[i] : \E l \in 1 .. i : x \in Reads(chunk[l])
  <2> DEFINE S == {m \in Nat : m <= i => \A x \in T[i - m] \ T[i] : \E l \in 1 .. i : x \in Reads(chunk[l])}
  <2>1. 0 \in S
    OBVIOUS
  <2>2. ASSUME NEW m \in Nat, m \in S PROVE m + 1 \in S
    <3>1. CASE ~(m + 1 <= i)
      BY <3>1
    <3>2. CASE m + 1 <= i
      <4>1. i - m \in 1 .. n /\ (i - m) - 1 = i - (m + 1) /\ i - m \in 1 .. i /\ m <= i
        BY <1>1, <3>2
      <4>2. \A x \in T[i - (m + 1)] : x \in T[i - m] \/ x \in Reads(chunk[i - m])
        BY <1>5, <4>1
      <4> QED
        BY <2>2, <4>1, <4>2
    <3> QED
      BY <3>1, <3>2
  <2> HIDE DEF S
  <2>3. Nat \subseteq S
    BY <2>1, <2>2, SetInduction
  <2>4. i \in Nat /\ i - i = 0
    BY <1>1
  <2> QED
    BY <2>3, <2>4 DEF S
<1>7. ASSUME NEW i \in 0 .. n PROVE T[i] \subseteq T[0]
  <2> DEFINE S == {m \in Nat : m <= n => T[m] \subseteq T[0]}
  <2>1. 0 \in S
    OBVIOUS
  <2>2. ASSUME NEW m \in Nat, m \in S PROVE m + 1 \in S
    <3>1. CASE ~(m + 1 <= n)
      BY <3>1
    <3>2. CASE m + 1 <= n
      <4>1. m + 1 \in 1 .. n /\ (m + 1) - 1 = m /\ m <= n
        BY <1>1, <3>2
      <4>2. T[m + 1] \subseteq T[m]
        BY <1>5, <4>1
      <4> QED
        BY <2>2, <4>1, <4>2
    <3> QED
      BY <3>1, <3>2
  <2> HIDE DEF S
  <2>3. Nat \subseteq S
    BY <2>1, <2>2, SetInduction
  <2> QED
    BY <1>1, <2>3 DEF S
<1>8. ASSUME NEW i \in 1 .. n, chunk[i].out \in T[0] PROVE Reads(chunk[i]) \subseteq T[0]
  <2>1. i \in 0 .. n /\ i - 1 \in 0 .. n
    BY <1>1
  <2>2. chunk[i].out \in T[i]
    <3>1. SUFFICES ASSUME chunk[i].out \notin T[i] PROVE FALSE
      OBVIOUS
    <3>2. PICK l \in 1 .. i : chunk[i].out \in Reads(chunk[l])
      BY <1>6, <1>8, <2>1, <3>1
    <3>3. chunk[i] \in Gate /\ chunk[l] \in Gate /\ l \in 1 .. n
      BY <1>1, ElementOfSeq DEF n
    <3>4. chunk[i].out < chunk[l].out
      BY <3>2, <3>3 DEF EmissionOrder, n
    <3>5. chunk[l].out <= chunk[i].out
      <4>1. l = i \/ l < i
        BY <1>1
      <4>2. l < i => chunk[l].out < chunk[i].out
        BY <3>3 DEF EmissionOrder, n
      <4> QED
        BY <3>3, <4>1, <4>2, GateCases
    <3> QED
      BY <3>3, <3>4, <3>5, GateCases
  <2>3. Reads(chunk[i]) \subseteq T[i - 1]
    BY <1>5, <2>2
  <2> QED
    BY <1>7, <2>1, <2>3
<1>9. base \subseteq T[0]
  <2>1. n \in 0 .. n
    BY <1>1
  <2> QED
    BY <1>4, <1>7, <2>1
<1> QED
  BY <1>3, <1>8, <1>9 DEF base, n

(* They are in every set with the kept ids that is closed under operands.  *)
LEMMA ReachedLeast ==
    ASSUME NEW chunk, EmissionOrder(chunk), NEW keep, NEW C,
           ToSet(keep) \cap ChunkLocal(chunk) \subseteq C,
           \A i \in 1 .. Len(chunk) : chunk[i].out \in C => Reads(chunk[i]) \subseteq C
    PROVE  Reached(chunk, keep) \subseteq C
<1> DEFINE base == ToSet(keep) \cap ChunkLocal(chunk)
           n == Len(chunk)
<1>1. n \in Nat /\ chunk \in Seq(Gate)
  BY DEF EmissionOrder
<1>2. PICK T : /\ IsBackTrace(T, "reached", {}, base, chunk)
               /\ BackFold("reached", {}, base, chunk) = T[0]
  BY <1>1, BackFoldTrace
<1>3. Reached(chunk, keep) = T[0]
  BY <1>2, ReachedFold
<1>4. T[n] \subseteq C
  BY <1>2 DEF IsBackTrace
<1>5. \A k \in 1 .. n : T[k - 1] = IF chunk[k].out \in T[k] THEN T[k] \cup Reads(chunk[k]) ELSE T[k]
  BY <1>2 DEF IsBackTrace, FoldStep
<1> DEFINE S == {m \in Nat : m <= n => T[n - m] \subseteq C}
<1>6. 0 \in S
  BY <1>1, <1>4
<1>7. ASSUME NEW m \in Nat, m \in S PROVE m + 1 \in S
  <2>1. CASE ~(m + 1 <= n)
    BY <2>1
  <2>2. CASE m + 1 <= n
    <3>1. n - m \in 1 .. n /\ (n - m) - 1 = n - (m + 1) /\ m <= n
      BY <1>1, <2>2
    <3>2. T[n - m] \subseteq C
      BY <1>7, <3>1
    <3>3. T[n - (m + 1)] \subseteq C
      BY <1>5, <3>1, <3>2
    <3> QED
      BY <3>3
  <2> QED
    BY <2>1, <2>2
<1> HIDE DEF S
<1>8. Nat \subseteq S
  BY <1>6, <1>7, SetInduction
<1> QED
  BY <1>1, <1>3, <1>8 DEF S

(* The gates a flush runs: those of the chunk whose wires are reached, in  *)
(* emission order.                                                         *)
LEMMA NeededIs ==
    ASSUME NEW chunk, EmissionOrder(chunk), NEW reached,
           NEW gates, gates = NeededGates(chunk, reached)
    PROVE  /\ EmissionOrder(gates)
           /\ \A i \in 1 .. Len(gates) :
                gates[i].out \in reached /\ \E j \in 1 .. Len(chunk) : gates[i] = chunk[j]
           /\ \A j \in 1 .. Len(chunk) :
                chunk[j].out \in reached => \E i \in 1 .. Len(gates) : gates[i] = chunk[j]
<1> DEFINE S == {g \in ToSet(chunk) : g.out \in reached}
<1>1. chunk \in Seq(Gate) /\ DOMAIN chunk = 1 .. Len(chunk)
  BY DEF EmissionOrder
<1>2. gates \in Seq(Gate) /\ IsSublist(gates, chunk, Len(chunk), S)
  BY <1>1, SublistIs DEF NeededGates
<1>3. \A j \in 1 .. Len(chunk) : chunk[j] \in ToSet(chunk)
  BY <1>1 DEF ToSet
<1> HIDE DEF S
<1>4. /\ \A i \in 1 .. Len(gates) : gates[i] \in S
      /\ \A j \in 1 .. Len(chunk) : chunk[j] \in S => \E i \in 1 .. Len(gates) : gates[i] = chunk[j]
      /\ \A i \in 1 .. Len(gates) : \E j \in 1 .. Len(chunk) : gates[i] = chunk[j]
      /\ \A i, k \in 1 .. Len(gates) : i < k =>
           \E j, l \in 1 .. Len(chunk) : j < l /\ gates[i] = chunk[j] /\ gates[k] = chunk[l]
  BY <1>2 DEF IsSublist
<1>5. \A i \in 1 .. Len(gates) : \A v \in Reads(gates[i]) : v < gates[i].out
  BY <1>4 DEF EmissionOrder
<1>6. \A i, j \in 1 .. Len(gates) : i < j => gates[i].out < gates[j].out
  BY <1>4 DEF EmissionOrder
<1>7. EmissionOrder(gates)
  BY <1>2, <1>5, <1>6 DEF EmissionOrder
<1>8. \A j \in 1 .. Len(chunk) : chunk[j].out \in reached => chunk[j] \in S
  BY <1>3 DEF S
<1>9. \A i \in 1 .. Len(gates) : gates[i].out \in reached
  BY <1>4 DEF S
<1> QED
  BY <1>4, <1>7, <1>8, <1>9

(* Different gates of a chunk have different wires.                        *)
LEMMA OutsDiffer ==
    ASSUME NEW gates, EmissionOrder(gates), NEW i \in 1 .. Len(gates), NEW j \in 1 .. Len(gates),
           gates[i].out = gates[j].out
    PROVE  i = j
<1>1. gates[i] \in Gate /\ gates[j] \in Gate /\ gates \in Seq(Gate)
  BY ElementOfSeq DEF EmissionOrder
<1>2. gates[i].out \in Nat /\ gates[j].out \in Nat
  BY <1>1, GateCases
<1>3. ~(i < j) /\ ~(j < i)
  BY <1>2 DEF EmissionOrder
<1> QED
  BY <1>3

(* remap: the k-th gate defines wire num_inputs + k - 1, the j-th input is *)
(* wire j - 1.                                                             *)
LEMMA RemapIs ==
    ASSUME NEW gates, EmissionOrder(gates), NEW S, NEW ids \in Seq(S), Injective(ids)
    PROVE  /\ \A k \in 1 .. Len(gates) : Remap(gates, ids, gates[k].out) = Len(ids) + (k - 1)
           /\ \A j \in 1 .. Len(ids) :
                (\A k \in 1 .. Len(gates) : gates[k].out # ids[j]) => Remap(gates, ids, ids[j]) = j - 1
           /\ \A v : Remap(gates, ids, v) \in Nat
<1>1. /\ DOMAIN gates = 1 .. Len(gates) /\ Len(gates) \in Nat
      /\ DOMAIN ids = 1 .. Len(ids) /\ Len(ids) \in Nat
  BY DEF EmissionOrder
<1>2. ASSUME NEW v, \E k \in DOMAIN gates : gates[k].out = v
      PROVE  \E k \in 1 .. Len(gates) : gates[k].out = v /\ Remap(gates, ids, v) = Len(ids) + (k - 1)
  <2> DEFINE P(k) == k \in DOMAIN gates /\ gates[k].out = v
             c == CHOOSE k \in DOMAIN gates : gates[k].out = v
  <2>1. c \in DOMAIN gates /\ gates[c].out = v
    BY <1>2, Zenon
  <2>2. Remap(gates, ids, v) = Len(ids) + c - 1
    BY <1>2 DEF Remap
  <2> HIDE DEF c
  <2> QED
    BY <1>1, <2>1, <2>2
<1>3. ASSUME NEW v, ~\E k \in DOMAIN gates : gates[k].out = v, Contains(ids, v)
      PROVE  \E j \in 1 .. Len(ids) : ids[j] = v /\ Remap(gates, ids, v) = j - 1
  <2> DEFINE c == CHOOSE k \in DOMAIN ids : ids[k] = v
  <2>1. \E k \in DOMAIN ids : ids[k] = v
    BY <1>1, <1>3 DEF Contains
  <2>2. c \in DOMAIN ids /\ ids[c] = v
    BY <2>1, Zenon
  <2>3. Remap(gates, ids, v) = c - 1
    BY <1>3 DEF Remap, Position
  <2> HIDE DEF c
  <2> QED
    BY <1>1, <2>2, <2>3
<1>4. ASSUME NEW v, ~\E k \in DOMAIN gates : gates[k].out = v, ~Contains(ids, v)
      PROVE  Remap(gates, ids, v) = 0
  BY <1>4 DEF Remap
<1>5. ASSUME NEW k \in 1 .. Len(gates)
      PROVE  Remap(gates, ids, gates[k].out) = Len(ids) + (k - 1)
  <2>1. PICK i \in 1 .. Len(gates) :
             gates[i].out = gates[k].out /\ Remap(gates, ids, gates[k].out) = Len(ids) + (i - 1)
    BY <1>1, <1>2
  <2>2. i = k
    BY <2>1, OutsDiffer
  <2> QED
    BY <2>1, <2>2
<1>6. ASSUME NEW j \in 1 .. Len(ids), \A k \in 1 .. Len(gates) : gates[k].out # ids[j]
      PROVE  Remap(gates, ids, ids[j]) = j - 1
  <2>1. Contains(ids, ids[j])
    BY DEF Contains
  <2>2. PICK i \in 1 .. Len(ids) : ids[i] = ids[j] /\ Remap(gates, ids, ids[j]) = i - 1
    BY <1>1, <1>3, <1>6, <2>1
  <2> QED
    BY <2>2 DEF Injective
<1>7. ASSUME NEW v PROVE Remap(gates, ids, v) \in Nat
  <2>1. CASE \E k \in DOMAIN gates : gates[k].out = v
    BY <1>1, <1>2, <2>1
  <2>2. CASE (~\E k \in DOMAIN gates : gates[k].out = v) /\ Contains(ids, v)
    BY <1>1, <1>3, <2>2
  <2>3. CASE (~\E k \in DOMAIN gates : gates[k].out = v) /\ ~Contains(ids, v)
    BY <1>4, <2>3
  <2> QED
    BY <2>1, <2>2, <2>3
<1> QED
  BY <1>5, <1>6, <1>7

(* Compaction keeps a gate's operation and remaps the wires it reads.      *)
LEMMA CompactIs ==
    ASSUME NEW gates, EmissionOrder(gates), NEW S, NEW ids \in Seq(S), Injective(ids),
           NEW g \in Gate, NEW c, c = Compact(gates, ids, g)
    PROVE  /\ c \in Gate /\ c.op = g.op
           /\ c.out = Remap(gates, ids, g.out)
           /\ g.op \in {"And", "Xor", "Not"} => c.in0 = Remap(gates, ids, g.in0)
           /\ g.op \in {"And", "Xor"} => c.in1 = Remap(gates, ids, g.in1)
           /\ Reads(c) = {Remap(gates, ids, v) : v \in Reads(g)}
<1>1. \A v : Remap(gates, ids, v) \in Nat
  BY RemapIs
<1>2. g.op \in Op
  BY DEF Gate
<1>3. /\ c.op = g.op /\ c.out = Remap(gates, ids, g.out)
      /\ c.in0 = IF IsConst(g) THEN 0 ELSE Remap(gates, ids, g.in0)
      /\ c.in1 = IF IsConst(g) \/ IsNot(g) THEN 0 ELSE Remap(gates, ids, g.in1)
      /\ c = [in0 |-> c.in0, in1 |-> c.in1, out |-> c.out, op |-> c.op]
  BY DEF Compact
<1>4. c \in Gate
  BY <1>1, <1>2, <1>3 DEF Gate
<1>5. Reads(c) = {Remap(gates, ids, v) : v \in Reads(g)}
  BY <1>3 DEF Reads, IsConst, IsNot
<1> QED
  BY <1>3, <1>4, <1>5 DEF IsConst, IsNot
-------------------------------------------------------------------------------
(* At most one gate for each constant (AG2PCCtx, ConstCached).             *)
OneOfEachConst(chunk) ==
    \A c \in {"Const0", "Const1"} :
      \A i, j \in 1 .. Len(chunk) : chunk[i].op = c /\ chunk[j].op = c => i = j

(* What a plan consists of, for the needed gates.                          *)
IsPlan(plan, gates, local, keep, M) ==
    /\ EmissionOrder(gates)
    /\ plan.ok <=> \A k \in 1 .. Len(gates) : Reads(gates[k]) \subseteq local \cup M
    /\ Lists(plan.input_ids, M \ local, UNION {Reads(gates[i]) : i \in 1 .. Len(gates)})
    /\ Lists(plan.output_ids, local, ToSet(keep))
    /\ plan.prog = [num_inputs |-> Len(plan.input_ids),
                    num_wires  |-> Len(plan.input_ids) + Len(gates),
                    gates      |-> [k \in 1 .. Len(gates) |->
                                      Compact(gates, plan.input_ids, gates[k])],
                    outputs    |-> [k \in 1 .. Len(plan.output_ids) |->
                                      Remap(gates, plan.input_ids, plan.output_ids[k])]]

(* plan_flush returns such a plan.                                         *)
LEMMA PlanIs ==
    ASSUME NEW chunk, EmissionOrder(chunk), NEW E, NEW keep \in Seq(E), NEW M
    PROVE  IsPlan(plan_flush(chunk, keep, M), NeededGates(chunk, Reached(chunk, keep)),
                  ChunkLocal(chunk), keep, M)
<1> DEFINE gates == NeededGates(chunk, Reached(chunk, keep))
           local == ChunkLocal(chunk)
           plan == plan_flush(chunk, keep, M)
           ids == InputIds(gates, M \ local)
           outs == OutputIds(keep, local)
           ok == \A k \in DOMAIN gates : Reads(gates[k]) \subseteq local \cup M
<1>1. plan = PlanFor(gates, ok, ids, outs)
  BY DEF plan_flush, PlanNeeded
<1>2. EmissionOrder(gates)
  BY NeededIs
<1> HIDE DEF gates, local, plan
<1>3. gates \in Seq(Gate) /\ DOMAIN gates = 1 .. Len(gates)
  BY <1>2 DEF EmissionOrder
<1>4. Lists(ids, M \ local, UNION {Reads(gates[i]) : i \in 1 .. Len(gates)})
  BY <1>3, InputIdsAre
<1>5. Lists(outs, local, ToSet(keep))
  BY OutputIdsAre
<1> HIDE DEF ids, outs
<1>6. DOMAIN outs = 1 .. Len(outs)
  BY <1>5 DEF Lists
<1>7. plan.ok <=> \A k \in 1 .. Len(gates) : Reads(gates[k]) \subseteq local \cup M
  <2>1. plan.ok = ok
    BY <1>1 DEF PlanFor
  <2> QED
    BY <1>3, <2>1
<1> HIDE DEF ok
<1>8. /\ plan.input_ids = ids /\ plan.output_ids = outs
      /\ plan.prog = [num_inputs |-> Len(ids), num_wires |-> Len(ids) + Len(gates),
                      gates   |-> [k \in 1 .. Len(gates) |-> Compact(gates, ids, gates[k])],
                      outputs |-> [k \in 1 .. Len(outs) |-> Remap(gates, ids, outs[k])]]
  BY <1>1, <1>3, <1>6 DEF PlanFor
<1>9. IsPlan(plan, gates, local, keep, M)
  BY <1>2, <1>4, <1>5, <1>7, <1>8 DEF IsPlan
<1> QED
  BY <1>9 DEF plan, gates, local

(* Wire v of a gate k comes from a gate before it, or else is an input.    *)
FromBefore(ids, gates, k, v) ==
    \/ \E j \in 1 .. (k - 1) : gates[j].out = v
    \/ /\ \E j \in 1 .. Len(ids) : ids[j] = v
       /\ \A j \in 1 .. Len(gates) : gates[j].out # v

(* In a plan that is ok every wire that is read does.                      *)
LEMMA PlanReads ==
    ASSUME NEW chunk, EmissionOrder(chunk), NEW E, NEW keep \in Seq(E), NEW M,
           NEW plan, plan = plan_flush(chunk, keep, M), plan.ok,
           NEW gates, gates = NeededGates(chunk, Reached(chunk, keep)),
           NEW k \in 1 .. Len(gates), NEW v \in Reads(gates[k])
    PROVE  FromBefore(plan.input_ids, gates, k, v)
<1> DEFINE local == ChunkLocal(chunk)
           R == Reached(chunk, keep)
<1>0. IsPlan(plan, gates, local, keep, M)
  BY PlanIs
<1>1. EmissionOrder(gates) /\ gates \in Seq(Gate) /\ Len(gates) \in Nat
  BY <1>0 DEF EmissionOrder, IsPlan
<1>2. /\ Reads(gates[k]) \subseteq local \cup M
      /\ v \in M \ local => Contains(plan.input_ids, v)
  BY <1>0 DEF IsPlan, Lists
<1>3. /\ \A i \in 1 .. Len(gates) :
           gates[i].out \in R /\ \E j \in 1 .. Len(chunk) : gates[i] = chunk[j]
      /\ \A j \in 1 .. Len(chunk) : chunk[j].out \in R => \E i \in 1 .. Len(gates) : gates[i] = chunk[j]
  BY NeededIs
<1>4. \A i \in 1 .. Len(chunk) : chunk[i].out \in R => Reads(chunk[i]) \subseteq R
  BY ReachedClosed
<1>5. local = {chunk[i].out : i \in 1 .. Len(chunk)}
  BY DEF ChunkLocal, EmissionOrder
<1> HIDE DEF local, R
<1>6. CASE v \in local
  <2>1. v \in R
    BY <1>3, <1>4
  <2>2. PICK i \in 1 .. Len(chunk) : chunk[i].out = v
    BY <1>5, <1>6
  <2>3. PICK j \in 1 .. Len(gates) : gates[j] = chunk[i]
    BY <1>3, <2>1, <2>2
  <2>4. gates[j].out < gates[k].out /\ gates[j] \in Gate /\ gates[k] \in Gate
    BY <1>1, <2>2, <2>3, ElementOfSeq DEF EmissionOrder
  <2>5. gates[j].out \in Nat /\ gates[k].out \in Nat
    BY <2>4, GateCases
  <2>6. j < k
    <3>1. ~(k < j) /\ j # k
      BY <1>1, <2>4, <2>5 DEF EmissionOrder
    <3> QED
      BY <1>1, <3>1
  <2> QED
    BY <1>1, <2>2, <2>3, <2>6 DEF FromBefore
<1>7. CASE v \notin local
  <2>1. Contains(plan.input_ids, v)
    BY <1>2, <1>7
  <2>2. \A j \in 1 .. Len(gates) : gates[j].out \in local
    BY <1>3, <1>5, SMTT(20)
  <2> QED
    BY <1>7, <2>1, <2>2 DEF Contains, FromBefore
<1> QED
  BY <1>6, <1>7

(* A plan that is ok is a program run_program accepts.                     *)
LEMMA PlanCanonical ==
    ASSUME NEW chunk, EmissionOrder(chunk), OneOfEachConst(chunk),
           NEW E, NEW keep \in Seq(E), NEW M,
           NEW plan, plan = plan_flush(chunk, keep, M), plan.ok
    PROVE  plan.prog \in BooleanProgram /\ RecordCanonical(plan.prog)
<1> DEFINE gates == NeededGates(chunk, Reached(chunk, keep))
           local == ChunkLocal(chunk)
           ids == plan.input_ids
           outs == plan.output_ids
           n == Len(ids)
           p == plan.prog
<1>0. IsPlan(plan, gates, local, keep, M)
  BY PlanIs
<1>1. /\ EmissionOrder(gates)
      /\ ids \in Seq(M \ local) /\ Injective(ids)
      /\ outs \in Seq(local)
      /\ \A x : Contains(outs, x) => x \in ToSet(keep)
      /\ p = [num_inputs |-> Len(ids), num_wires |-> Len(ids) + Len(gates),
              gates   |-> [k \in 1 .. Len(gates) |-> Compact(gates, ids, gates[k])],
              outputs |-> [k \in 1 .. Len(outs) |-> Remap(gates, ids, outs[k])]]
  <2> HIDE DEF gates, local
  <2> QED
    BY <1>0 DEF IsPlan, Lists
<1>2. ASSUME NEW k \in 1 .. Len(gates), NEW v \in Reads(gates[k])
      PROVE  FromBefore(ids, gates, k, v)
  BY PlanReads
<1>3. \A i \in 1 .. Len(gates) : \E j \in 1 .. Len(chunk) : gates[i] = chunk[j]
  BY NeededIs
<1>4. \A k \in 1 .. Len(outs) : \E i \in 1 .. Len(gates) : gates[i].out = outs[k]
  <2>1. ASSUME NEW k \in 1 .. Len(outs)
        PROVE  \E i \in 1 .. Len(gates) : gates[i].out = outs[k]
    <3>1. Contains(outs, outs[k]) /\ outs[k] \in local
      BY <1>1, ElementOfSeq DEF Contains
    <3>2. outs[k] \in ToSet(keep)
      BY <1>1, <3>1
    <3>3. outs[k] \in Reached(chunk, keep)
      BY <3>1, <3>2, ReachedClosed
    <3>4. PICK i \in 1 .. Len(chunk) : chunk[i].out = outs[k]
      BY <3>1 DEF ChunkLocal, EmissionOrder
    <3>5. \A j \in 1 .. Len(chunk) :
            chunk[j].out \in Reached(chunk, keep) => \E l \in 1 .. Len(gates) : gates[l] = chunk[j]
      BY NeededIs
    <3> HIDE DEF gates
    <3> QED
      BY <3>3, <3>4, <3>5
  <2> QED
    BY <2>1
<1>5. /\ gates \in Seq(Gate) /\ Len(gates) \in Nat /\ n \in Nat /\ Len(outs) \in Nat
      /\ \A k \in 1 .. Len(gates) : gates[k] \in Gate
  BY <1>1 DEF EmissionOrder
<1> HIDE DEF gates, local, ids, outs, p
<1>6. /\ \A k \in 1 .. Len(gates) : Remap(gates, ids, gates[k].out) = n + (k - 1)
      /\ \A j \in 1 .. n :
           (\A k \in 1 .. Len(gates) : gates[k].out # ids[j]) => Remap(gates, ids, ids[j]) = j - 1
      /\ \A v : Remap(gates, ids, v) \in Nat
  BY <1>1, RemapIs
<1> HIDE DEF n
<1>7. /\ p.num_inputs = n /\ p.num_wires = n + Len(gates)
      /\ p.gates = [k \in 1 .. Len(gates) |-> Compact(gates, ids, gates[k])]
      /\ p.outputs = [k \in 1 .. Len(outs) |-> Remap(gates, ids, outs[k])]
  BY <1>1 DEF n
<1>8. \A k \in 1 .. Len(gates) :
        /\ p.gates[k] \in Gate /\ p.gates[k].op = gates[k].op
        /\ p.gates[k].out = n + (k - 1)
        /\ Reads(p.gates[k]) = {Remap(gates, ids, v) : v \in Reads(gates[k])}
  <2>1. ASSUME NEW k \in 1 .. Len(gates)
        PROVE  /\ p.gates[k] \in Gate /\ p.gates[k].op = gates[k].op
               /\ p.gates[k].out = n + (k - 1)
               /\ Reads(p.gates[k]) = {Remap(gates, ids, v) : v \in Reads(gates[k])}
    <3>1. p.gates[k] = Compact(gates, ids, gates[k])
      BY <1>7
    <3>2. /\ p.gates[k] \in Gate /\ p.gates[k].op = gates[k].op
          /\ p.gates[k].out = Remap(gates, ids, gates[k].out)
          /\ Reads(p.gates[k]) = {Remap(gates, ids, v) : v \in Reads(gates[k])}
      BY <1>1, <1>5, <3>1, CompactIs
    <3> QED
      BY <1>6, <3>2
  <2> QED
    BY <2>1
<1>9. DOMAIN p.gates = 1 .. Len(gates) /\ Len(p.gates) = Len(gates) /\ p.gates \in Seq(Gate)
  BY <1>5, <1>7, <1>8
<1>10. DOMAIN p.outputs = 1 .. Len(outs) /\ p.outputs \in Seq(Nat)
  BY <1>5, <1>6, <1>7
<1>11. p \in BooleanProgram
  <2>1. p = [num_inputs |-> p.num_inputs, num_wires |-> p.num_wires, gates |-> p.gates,
             outputs |-> p.outputs]
    BY <1>1
  <2>2. p.num_inputs \in Nat /\ p.num_wires \in Nat
    BY <1>5, <1>7
  <2> QED
    BY <1>9, <1>10, <2>1, <2>2 DEF BooleanProgram
<1>12. ASSUME NEW k \in 1 .. Len(gates), NEW x \in Reads(p.gates[k])
       PROVE  x \in 0 .. (n - 1) \/ \E j \in 1 .. (k - 1) : p.gates[j].out = x
  <2>1. PICK v \in Reads(gates[k]) : x = Remap(gates, ids, v)
    BY <1>8
  <2>2. CASE \E j \in 1 .. (k - 1) : gates[j].out = v
    <3>1. PICK j \in 1 .. (k - 1) : gates[j].out = v
      BY <2>2
    <3>2. j \in 1 .. Len(gates)
      BY <1>5
    <3> QED
      BY <1>6, <1>8, <2>1, <3>1, <3>2
  <2>3. CASE /\ \E j \in 1 .. n : ids[j] = v
             /\ \A j \in 1 .. Len(gates) : gates[j].out # v
    <3>1. PICK j \in 1 .. n : ids[j] = v
      BY <2>3
    <3>2. x = j - 1
      BY <1>6, <2>1, <2>3, <3>1
    <3> QED
      BY <1>5, <3>2
  <2> QED
    BY <1>2, <2>2, <2>3 DEF FromBefore, n
<1>13. ASSUME NEW k \in 1 .. Len(outs) PROVE p.outputs[k] \in 0 .. (p.num_wires - 1)
  <2>1. PICK i \in 1 .. Len(gates) : gates[i].out = outs[k]
    BY <1>4
  <2>2. p.outputs[k] = n + (i - 1)
    BY <1>6, <1>7, <2>1
  <2> QED
    BY <1>5, <1>7, <2>2
<1>14. validate_program(p)
  <2>1. p.num_wires = p.num_inputs + Len(p.gates)
    BY <1>7, <1>9
  <2>2. \A i \in DOMAIN p.gates : p.gates[i].out \in p.num_inputs .. (p.num_wires - 1)
    BY <1>5, <1>7, <1>8, <1>9
  <2>3. \A i, j \in DOMAIN p.gates : p.gates[i].out = p.gates[j].out => i = j
    BY <1>5, <1>8, <1>9
  <2>4. \A i \in DOMAIN p.gates : \A w \in Reads(p.gates[i]) :
            \/ w \in 0 .. (p.num_inputs - 1)
            \/ \E j \in 1 .. (i - 1) : p.gates[j].out = w
    BY <1>7, <1>9, <1>12
  <2>5. \A k \in DOMAIN p.outputs : p.outputs[k] \in 0 .. (p.num_wires - 1)
    BY <1>10, <1>13
  <2> QED
    BY <2>1, <2>2, <2>3, <2>4, <2>5 DEF validate_program
<1>15. ASSUME NEW c \in {"Const0", "Const1"}, NEW i \in 1 .. Len(gates), NEW j \in 1 .. Len(gates),
              gates[i].op = c, gates[j].op = c
       PROVE  i = j
  <2>1. PICK k \in 1 .. Len(chunk), l \in 1 .. Len(chunk) : gates[i] = chunk[k] /\ gates[j] = chunk[l]
    BY <1>3
  <2>2. k = l
    BY <1>15, <2>1 DEF OneOfEachConst
  <2> QED
    BY <1>1, <2>1, <2>2, OutsDiffer
<1>16. RecordCanonical(p)
  <2>1. \A i \in DOMAIN p.gates : p.gates[i].out = p.num_inputs + (i - 1)
    BY <1>7, <1>8, <1>9
  <2>2. \A c \in {"Const0", "Const1"} :
          \A i, j \in DOMAIN p.gates : p.gates[i].op = c /\ p.gates[j].op = c => i = j
    BY <1>8, <1>9, <1>15
  <2> QED
    BY <1>14, <2>1, <2>2 DEF RecordCanonical
<1> QED
  BY <1>11, <1>16 DEF p

(* The value t gives to id k - 1, at position k.                           *)
ById(t) == [k \in Nat |-> t[k - 1]]

(* t gives every wire of the chunk the value its gate computes.            *)
Means(t, chunk) == \A i \in 1 .. Len(chunk) : t[chunk[i].out] = ClearBit(ById(t), chunk[i])

(* A gate computes the same from its operands wherever they are kept.      *)
LEMMA ClearBitMoves ==
    ASSUME NEW g \in Gate, NEW c, c.op = g.op, NEW val, NEW t,
           g.op \in {"And", "Xor", "Not"} => val[c.in0 + 1] = t[g.in0],
           g.op \in {"And", "Xor"} => val[c.in1 + 1] = t[g.in1]
    PROVE  ClearBit(val, c) = ClearBit(ById(t), g)
<1>1. \A v \in Nat : ById(t)[v + 1] = t[v]
  BY DEF ById
<1>2. g.in0 \in Nat /\ g.in1 \in Nat /\ g.op \in {"And", "Xor", "Not", "Const0", "Const1"}
  BY GateCases
<1>3. ById(t)[g.in0 + 1] = t[g.in0] /\ ById(t)[g.in1 + 1] = t[g.in1]
  BY <1>1, <1>2
<1>4. CASE g.op = "And"
  BY <1>3, <1>4 DEF ClearBit, IsConst
<1>5. CASE g.op = "Xor"
  BY <1>3, <1>5 DEF ClearBit, IsConst
<1>6. CASE g.op = "Not"
  BY <1>3, <1>6 DEF ClearBit, IsConst
<1>7. CASE g.op \in {"Const0", "Const1"}
  BY <1>7 DEF ClearBit, IsConst
<1> QED
  BY <1>2, <1>4, <1>5, <1>6, <1>7

(* The compacted program computes what the recorded gates do.              *)
LEMMA PlanMeans ==
    ASSUME NEW chunk, EmissionOrder(chunk), OneOfEachConst(chunk),
           NEW E, NEW keep \in Seq(E), NEW M,
           NEW plan, plan = plan_flush(chunk, keep, M), plan.ok,
           NEW t, Means(t, chunk),
           NEW B, NEW clear \in Seq(B), Len(clear) = Len(plan.input_ids),
           \A k \in 1 .. Len(clear) : clear[k] = t[plan.input_ids[k]]
    PROVE  \A k \in 1 .. Len(plan.output_ids) :
             ClearEval(plan.prog, clear)[plan.prog.outputs[k] + 1] = t[plan.output_ids[k]]
<1> DEFINE gates == NeededGates(chunk, Reached(chunk, keep))
           local == ChunkLocal(chunk)
           ids == plan.input_ids
           outs == plan.output_ids
           n == Len(ids)
           p == plan.prog
           val == ClearEval(p, clear)
           src(j) == IF j <= n THEN ids[j] ELSE gates[j - n].out
           G == {j \in Nat : val[j] = t[src(j)]}
<1>0. IsPlan(plan, gates, local, keep, M)
  BY PlanIs
<1>1. p \in BooleanProgram /\ RecordCanonical(p)
  BY PlanCanonical
<1>2. ASSUME NEW k \in 1 .. Len(gates), NEW v \in Reads(gates[k])
      PROVE  FromBefore(ids, gates, k, v)
  BY PlanReads
<1>3. \A i \in 1 .. Len(gates) : \E j \in 1 .. Len(chunk) : gates[i] = chunk[j]
  BY NeededIs
<1> HIDE DEF gates, local
<1>4. /\ EmissionOrder(gates)
      /\ ids \in Seq(M \ local) /\ Injective(ids)
      /\ p.num_inputs = n
      /\ p.gates = [k \in 1 .. Len(gates) |-> Compact(gates, ids, gates[k])]
      /\ p.outputs = [k \in 1 .. Len(outs) |-> Remap(gates, ids, outs[k])]
  BY <1>0 DEF IsPlan, Lists
<1> HIDE DEF ids, outs, p
<1>5. /\ gates \in Seq(Gate) /\ Len(gates) \in Nat /\ n \in Nat
      /\ \A k \in 1 .. Len(gates) : gates[k] \in Gate
      /\ Len(p.gates) = Len(gates)
  BY <1>4 DEF EmissionOrder
<1>6. /\ \A k \in 1 .. Len(gates) : Remap(gates, ids, gates[k].out) = n + (k - 1)
      /\ \A j \in 1 .. n :
           (\A k \in 1 .. Len(gates) : gates[k].out # ids[j]) => Remap(gates, ids, ids[j]) = j - 1
      /\ \A v : Remap(gates, ids, v) \in Nat
  BY <1>4, RemapIs
<1>c. Len(clear) = n
  BY DEF ids
<1> HIDE DEF n
<1>7. /\ \A j \in 1 .. n : val[j] = clear[j]
      /\ \A k \in 1 .. Len(gates) : val[n + k] = ClearBit(val, p.gates[k])
  <2>1. p.num_inputs = n /\ Len(p.gates) = Len(gates)
    BY <1>4, <1>5
  <2>2. Len(clear) = p.num_inputs
    BY <1>c, <2>1
  <2>3. /\ \A j \in 1 .. p.num_inputs : val[j] = clear[j]
        /\ \A k \in 1 .. Len(p.gates) : val[p.num_inputs + k] = ClearBit(val, p.gates[k])
    BY <1>1, <2>2, ClearAre
  <2> QED
    BY <2>1, <2>3
<1> HIDE DEF val
<1>8. ASSUME NEW j \in 1 .. n PROVE j \in G
  <2>1. val[j] = t[ids[j]]
    BY <1>7, <1>c DEF ids, n
  <2> QED
    BY <1>5, <2>1
<1>9. ASSUME NEW k \in 1 .. Len(gates), NEW v \in Reads(gates[k]), Remap(gates, ids, v) + 1 \in G
      PROVE  val[Remap(gates, ids, v) + 1] = t[v]
  <2> DEFINE r == Remap(gates, ids, v) + 1
  <2>0. val[r] = t[src(r)]
    BY <1>9
  <2>1. CASE \E j \in 1 .. (k - 1) : gates[j].out = v
    <3>1. PICK j \in 1 .. (k - 1) : gates[j].out = v
      BY <2>1
    <3>2. j \in 1 .. Len(gates)
      BY <1>5
    <3>3. r = n + j
      BY <1>5, <1>6, <3>1, <3>2
    <3> HIDE DEF r
    <3>4. ~(r <= n) /\ r - n = j
      BY <1>5, <3>2, <3>3
    <3> QED
      BY <2>0, <3>1, <3>4 DEF r
  <2>2. CASE /\ \E j \in 1 .. n : ids[j] = v
             /\ \A j \in 1 .. Len(gates) : gates[j].out # v
    <3>1. PICK j \in 1 .. n : ids[j] = v
      BY <2>2
    <3>p. Remap(gates, ids, v) = j - 1
      BY <1>6, <2>2, <3>1
    <3>2. r = j
      BY <1>5, <3>p
    <3> HIDE DEF r
    <3>3. src(r) = v
      BY <1>5, <3>1, <3>2
    <3> QED
      BY <2>0, <3>3 DEF r
  <2> QED
    BY <1>2, <2>1, <2>2 DEF FromBefore, n
<1>10. ASSUME NEW k \in 1 .. Len(gates), \A x \in Reads(p.gates[k]) : x + 1 \in G
       PROVE  n + k \in G
  <2> DEFINE g == gates[k]
             c == p.gates[k]
  <2>1. c = Compact(gates, ids, g) /\ g \in Gate
    BY <1>4, <1>5
  <2>2. /\ c.op = g.op
        /\ g.op \in {"And", "Xor", "Not"} => c.in0 = Remap(gates, ids, g.in0)
        /\ g.op \in {"And", "Xor"} => c.in1 = Remap(gates, ids, g.in1)
        /\ Reads(c) = {Remap(gates, ids, v) : v \in Reads(g)}
    BY <1>4, <2>1, CompactIs
  <2>3. \A v \in Reads(g) : val[Remap(gates, ids, v) + 1] = t[v]
    BY <1>9, <1>10, <2>2
  <2>5. t[g.out] = ClearBit(ById(t), g)
    BY <1>3 DEF Means
  <2>6. val[n + k] = ClearBit(val, c)
    BY <1>7
  <2> HIDE DEF g, c
  <2>4. /\ g.op \in {"And", "Xor", "Not"} => val[c.in0 + 1] = t[g.in0]
        /\ g.op \in {"And", "Xor"} => val[c.in1 + 1] = t[g.in1]
    <3>1. /\ g.op \in {"And", "Xor"} => Reads(g) = {g.in0, g.in1}
          /\ g.op = "Not" => Reads(g) = {g.in0}
      BY <2>1, GateCases
    <3> QED
      BY <2>2, <2>3, <3>1
  <2>7. val[n + k] = t[g.out]
    BY <2>1, <2>2, <2>4, <2>5, <2>6, ClearBitMoves
  <2>8. n + k \in Nat /\ ~(n + k <= n) /\ (n + k) - n = k
    BY <1>5
  <2>9. src(n + k) = g.out
    BY <2>8 DEF g
  <2> QED
    BY <2>7, <2>8, <2>9
<1> HIDE DEF G
<1>11. \A j \in 1 .. (n + Len(gates)) : j \in G
  <2>1. p.num_inputs = n /\ Len(p.gates) = Len(gates)
    BY <1>4, <1>5
  <2> QED
    BY <1>1, <1>8, <1>10, <2>1, WireInduction
<1>12. ASSUME NEW k \in 1 .. Len(outs) PROVE val[p.outputs[k] + 1] = t[outs[k]]
  <2>1. PICK i \in 1 .. Len(gates) : gates[i].out = outs[k]
    <3>1. Contains(outs, outs[k]) /\ outs \in Seq(local)
      BY <1>0 DEF IsPlan, Lists, Contains, outs
    <3>2. outs[k] \in ToSet(keep) /\ outs[k] \in local
      BY <1>0, <3>1 DEF IsPlan, Lists, outs
    <3>3. outs[k] \in Reached(chunk, keep)
      BY <3>2, ReachedClosed DEF local
    <3>d. local = {chunk[i].out : i \in 1 .. Len(chunk)}
      BY SMTT(20) DEF local, ChunkLocal, EmissionOrder
    <3>4. PICK i \in 1 .. Len(chunk) : chunk[i].out = outs[k]
      BY <3>2, <3>d
    <3>5. \A j \in 1 .. Len(chunk) :
            chunk[j].out \in Reached(chunk, keep) => \E l \in 1 .. Len(gates) : gates[l] = chunk[j]
      BY NeededIs DEF gates
    <3> QED
      BY <3>3, <3>4, <3>5
  <2>2. p.outputs[k] + 1 = n + i
    BY <1>4, <1>5, <1>6, <2>1, SMTT(20)
  <2>3. n + i \in G
    BY <1>5, <1>11
  <2>4. ~(n + i <= n) /\ (n + i) - n = i
    BY <1>5
  <2> QED
    BY <2>1, <2>2, <2>3, <2>4 DEF G
<1> QED
  BY <1>12 DEF val, p, outs

(* The list clear holds the values t of the ids.                           *)
ReadOff(clear, t, ids) ==
    /\ \E B : clear \in Seq(B)
    /\ Len(clear) = Len(ids)
    /\ \A k \in 1 .. Len(clear) : clear[k] = t[ids[k]]

(* From the inputs clear a plan computes the values t of its output ids.   *)
Computes(plan, clear, t) ==
    \A k \in 1 .. Len(plan.output_ids) :
      ClearEval(plan.prog, clear)[plan.prog.outputs[k] + 1] = t[plan.output_ids[k]]

(* PlanMeans with its lists of values named.                               *)
LEMMA PlanComputes ==
    ASSUME NEW chunk, EmissionOrder(chunk), OneOfEachConst(chunk),
           NEW E, NEW keep \in Seq(E), NEW M,
           NEW plan, plan = plan_flush(chunk, keep, M), plan.ok,
           NEW t, Means(t, chunk), NEW clear, ReadOff(clear, t, plan.input_ids)
    PROVE  Computes(plan, clear, t)
<1>1. PICK B : clear \in Seq(B)
  BY DEF ReadOff
<1>2. Len(clear) = Len(plan.input_ids) /\ \A k \in 1 .. Len(clear) : clear[k] = t[plan.input_ids[k]]
  BY DEF ReadOff
<1>3. \A k \in 1 .. Len(plan.output_ids) :
        ClearEval(plan.prog, clear)[plan.prog.outputs[k] + 1] = t[plan.output_ids[k]]
  BY <1>1, <1>2, PlanMeans
<1> QED
  BY <1>3 DEF Computes
===============================================================================
