----------------------------- MODULE Blocks_proofs -----------------------------
(***************************************************************************)
(* The algebra of module Blocks, for polynomials of any size: XOR and AND  *)
(* form a commutative ring, the pinned bits of a block are linear, a hash  *)
(* opens under either label, and the shares of a wire are authentic.       *)
(***************************************************************************)
EXTENDS Blocks, FiniteSetTheorems, NaturalsInduction, WellFoundedInduction,
        TLAPS

IsOdd(S) == Cardinality(S) % 2 = 1

(* The pairs of monomials of p and q whose product is m.                   *)
Pairs(p, q, m) == {ab \in p \X q : ab[1] \cup ab[2] = m}
-------------------------------------------------------------------------------
LEMMA Halves ==
    ASSUME NEW s \in Nat, NEW t \in Nat, NEW i \in Nat, NEW u, NEW a, NEW d,
           a = s - i, d = t - i, u = a + d - 0
    PROVE  (u % 2 = 1) <=> ~((s % 2 = 1) <=> (t % 2 = 1))
<1>1. u = s + t - 2 * i
  OBVIOUS
<1> QED
  BY <1>1

(* A symmetric difference is odd iff exactly one of the sets is.           *)
LEMMA OddSymDiff ==
    ASSUME NEW S, NEW T, IsFiniteSet(S), IsFiniteSet(T)
    PROVE  /\ IsFiniteSet(SymDiff(S, T))
           /\ IsOdd(SymDiff(S, T)) <=> ~(IsOdd(S) <=> IsOdd(T))
<1> DEFINE A == S \ T
           D == T \ S
           I == S \cap T
<1>1. /\ IsFiniteSet(A) /\ Cardinality(A) = Cardinality(S) - Cardinality(I)
      /\ IsFiniteSet(D) /\ Cardinality(D) = Cardinality(T) - Cardinality(T \cap S)
      /\ T \cap S = I
  BY FS_Difference
<1>2. IsFiniteSet(I) /\ Cardinality(I) <= Cardinality(S) /\ Cardinality(I) <= Cardinality(T)
  BY FS_Intersection
<1>3. /\ IsFiniteSet(A \cup D)
      /\ Cardinality(A \cup D) = Cardinality(A) + Cardinality(D) - Cardinality(A \cap D)
      /\ A \cap D = {} /\ SymDiff(S, T) = A \cup D
  <2>1. A \cap D = {} /\ SymDiff(S, T) = A \cup D
    BY DEF SymDiff
  <2> HIDE DEF A, D
  <2> QED
    BY <1>1, <2>1, FS_Union
<1>4. Cardinality(S) \in Nat /\ Cardinality(T) \in Nat /\ Cardinality(I) \in Nat
  BY <1>2, FS_CardinalityType
<1>5. Cardinality({}) = 0
  BY FS_EmptySet
<1> HIDE DEF A, D, I
<1>6. Cardinality(A \cup D) = Cardinality(A) + Cardinality(D) - 0
  BY <1>3, <1>5, Zenon
<1>7. Cardinality(A) = Cardinality(S) - Cardinality(I)
      /\ Cardinality(D) = Cardinality(T) - Cardinality(I)
  BY <1>1, Zenon
<1>8. IsOdd(A \cup D) <=> ~(IsOdd(S) <=> IsOdd(T))
  <2> DEFINE s == Cardinality(S)
             t == Cardinality(T)
             i == Cardinality(I)
             a == Cardinality(A)
             d == Cardinality(D)
             u == Cardinality(A \cup D)
  <2>1. s \in Nat /\ t \in Nat /\ i \in Nat /\ a = s - i /\ d = t - i /\ u = a + d - 0
    BY <1>4, <1>6, <1>7, Zenon
  <2> HIDE DEF s, t, i, a, d, u
  <2>2. (u % 2 = 1) <=> ~((s % 2 = 1) <=> (t % 2 = 1))
    BY <2>1, Halves
  <2> QED
    BY <2>2, Zenon DEF IsOdd, s, t, u
<1> QED
  BY <1>3, <1>8, Zenon

LEMMA OddSets ==
    /\ ~IsOdd({})
    /\ \A x : IsOdd({x})
    /\ \A S : IsFiniteSet(S) /\ IsOdd(S) => S # {}
<1>1. Cardinality({}) = 0 /\ \A x : Cardinality({x}) = 1
  BY FS_EmptySet, FS_Singleton
<1>2. 0 % 2 = 0 /\ 1 % 2 = 1
  OBVIOUS
<1>3. ~IsOdd({}) /\ \A x : IsOdd({x})
  BY <1>1, <1>2 DEF IsOdd
<1> QED
  BY <1>3

(* Sets in a bijection are odd together.                                   *)
LEMMA OddBijection ==
    ASSUME NEW S, NEW T, IsFiniteSet(S), NEW f \in [S -> T],
           \A x, y \in S : f[x] = f[y] => x = y, \A t \in T : \E s \in S : f[s] = t
    PROVE  IsFiniteSet(T) /\ (IsOdd(S) <=> IsOdd(T))
<1>1. f \in Bijection(S, T)
  BY DEF Bijection, Injection, Surjection, IsInjective
<1>2. ExistsBijection(S, T)
  BY <1>1 DEF ExistsBijection
<1> QED
  BY <1>2, FS_Bijection DEF IsOdd

(* The image of a finite set is finite.                                    *)
LEMMA FiniteImage ==
    ASSUME NEW S, NEW f, IsFiniteSet(S)
    PROVE  IsFiniteSet({f[x] : x \in S})
<1> DEFINE T == {f[x] : x \in S}
           g == [x \in S |-> f[x]]
<1>1. g \in Surjection(S, T)
  BY DEF Surjection
<1> HIDE DEF T, g
<1>2. IsFiniteSet(T)
  BY <1>1, FS_Surjection
<1> QED
  BY <1>2 DEF T

(* A set of natural numbers, if not empty, has a least element.            *)
LEMMA LeastCount ==
    ASSUME NEW T \in SUBSET Nat, T # {}
    PROVE  \E n \in T : \A k \in T : ~(k < n)
<1> DEFINE R == OpToRel(<, Nat)
<1>1. IsWellFoundedOn(R, Nat)
  BY NatLessThanWellFounded
<1>2. \A m, n \in Nat : m < n => <<m, n>> \in R
  BY DEF OpToRel
<1> HIDE DEF R
<1>3. \E x \in T : \A y \in T : ~ (<<y, x>> \in R)
  BY <1>1, WFMin
<1> QED
  BY <1>2, <1>3

(* Finite sets are built by adding one element at a time.                  *)
LEMMA FiniteInduction ==
    ASSUME NEW F, {} \in F, NEW S, IsFiniteSet(S),
           \A T \in SUBSET S : \A x \in S : T \in F /\ x \notin T => T \cup {x} \in F
    PROVE  S \in F
<1> SUFFICES ASSUME S \notin F PROVE FALSE
  OBVIOUS
<1> DEFINE Sizes == {Cardinality(T) : T \in (SUBSET S) \ F}
<1>1. ASSUME NEW T \in SUBSET S PROVE IsFiniteSet(T) /\ Cardinality(T) \in Nat
  BY FS_Subset, FS_CardinalityType
<1>2. Sizes \in SUBSET Nat /\ Sizes # {}
  <2>1. S \in (SUBSET S) \ F
    OBVIOUS
  <2> QED
    BY <1>1, <2>1
<1>3. PICK n \in Sizes : \A k \in Sizes : ~(k < n)
  <2> HIDE DEF Sizes
  <2> QED
    BY <1>2, LeastCount
<1>4. PICK T \in (SUBSET S) \ F : Cardinality(T) = n
  OBVIOUS
<1>5. PICK x \in T : TRUE
  OBVIOUS
<1> DEFINE R == T \ {x}
<1>6. R \in SUBSET S /\ x \in S /\ x \notin R /\ T = R \cup {x}
  OBVIOUS
<1>7. Cardinality(R) = n - 1 /\ n \in Nat
  BY <1>1, <1>4, FS_RemoveElement
<1> HIDE DEF R
<1>8. n - 1 \notin Sizes
  BY <1>1, <1>3, <1>6, <1>7
<1>9. R \in F
  BY <1>6, <1>7, <1>8
<1> QED
  BY <1>4, <1>6, <1>9
-------------------------------------------------------------------------------
(* XOR: associative, commutative, self-inverse, with unit Zero.            *)
LEMMA XorIs ==
    /\ \A p, q, x : x \in p ++ q <=> ~(x \in p <=> x \in q)
    /\ \A p, q : p ++ q = q ++ p
    /\ \A p, q, r : (p ++ q) ++ r = p ++ (q ++ r)
    /\ \A p : p ++ p = Zero /\ p ++ Zero = p /\ Zero ++ p = p
<1>1. \A p, q, x : x \in p ++ q <=> ~(x \in p <=> x \in q)
  BY Zenon DEF ++, XorBit, SymDiff
<1>2. \A p, q : p ++ q = q ++ p
  BY <1>1
<1>3. ASSUME NEW p, NEW q, NEW r PROVE (p ++ q) ++ r = p ++ (q ++ r)
  <2>1. ASSUME NEW x PROVE x \in (p ++ q) ++ r <=> x \in p ++ (q ++ r)
    <3>1. /\ x \in (p ++ q) ++ r <=> ~(x \in p ++ q <=> x \in r)
          /\ x \in p ++ (q ++ r) <=> ~(x \in p <=> x \in q ++ r)
          /\ x \in p ++ q <=> ~(x \in p <=> x \in q)
          /\ x \in q ++ r <=> ~(x \in q <=> x \in r)
      BY <1>1, ZenonT(60)
    <3> QED
      BY <3>1
  <2> QED
    BY <2>1
<1>4. \A p : p ++ p = Zero /\ p ++ Zero = p /\ Zero ++ p = p
  BY <1>1 DEF Zero
<1> QED
  BY <1>1, <1>2, <1>3, <1>4

LEMMA XorFinite ==
    ASSUME NEW p, NEW q, IsFiniteSet(p), IsFiniteSet(q)
    PROVE  IsFiniteSet(p ++ q)
BY OddSymDiff DEF ++, XorBit

LEMMA PairsFinite ==
    ASSUME NEW p, NEW q, NEW m, IsFiniteSet(p), IsFiniteSet(q)
    PROVE  IsFiniteSet(Pairs(p, q, m))
<1>1. IsFiniteSet(p \X q)
  BY FS_Product
<1>2. Pairs(p, q, m) \in SUBSET (p \X q)
  BY DEF Pairs
<1> QED
  BY <1>1, <1>2, FS_Subset

(* AND: the monomials that are a product of an odd number of pairs.        *)
LEMMA AndIs ==
    ASSUME NEW p, NEW q, IsFiniteSet(p), IsFiniteSet(q)
    PROVE  /\ \A m : m \in p ** q <=> IsOdd(Pairs(p, q, m))
           /\ IsFiniteSet(p ** q)
<1>1. ASSUME NEW m PROVE m \in p ** q <=> IsOdd(Pairs(p, q, m))
  <2>1. m \in p ** q <=> m \in {a \cup b : a \in p, b \in q} /\ IsOdd(Pairs(p, q, m))
    BY DEF **, AndBit, Pairs, IsOdd
  <2>2. IsOdd(Pairs(p, q, m)) => Pairs(p, q, m) # {}
    BY OddSets
  <2>3. Pairs(p, q, m) # {} => m \in {a \cup b : a \in p, b \in q}
    BY DEF Pairs
  <2> QED
    BY <2>1, <2>2, <2>3
<1>2. IsFiniteSet(p ** q)
  <2> DEFINE f == [ab \in p \X q |-> ab[1] \cup ab[2]]
             T == {f[ab] : ab \in p \X q}
  <2>1. IsFiniteSet(T)
    <3>1. IsFiniteSet(p \X q)
      BY FS_Product
    <3> HIDE DEF f
    <3> QED
      BY <3>1, FiniteImage, Zenon
  <2>2. p ** q \in SUBSET T
    <3>1. ASSUME NEW a \in p, NEW b \in q PROVE a \cup b \in T
      <4>1. <<a, b>> \in p \X q /\ f[<<a, b>>] = a \cup b
        OBVIOUS
      <4> QED
        BY <4>1
    <3> HIDE DEF T, f
    <3>2. ASSUME NEW m \in p ** q PROVE m \in T
      <4>1. PICK a \in p, b \in q : m = a \cup b
        BY DEF **, AndBit
      <4> QED
        BY <3>1, <4>1
    <3> QED
      BY <3>2
  <2> HIDE DEF T
  <2> QED
    BY <2>1, <2>2, FS_Subset
<1> QED
  BY <1>1, <1>2

(* AND distributes over XOR.                                               *)
LEMMA AndOverXor ==
    ASSUME NEW p, NEW q, NEW r, IsFiniteSet(p), IsFiniteSet(q), IsFiniteSet(r)
    PROVE  (p ++ q) ** r = (p ** r) ++ (q ** r)
<1>1. ASSUME NEW m PROVE m \in (p ++ q) ** r <=> m \in (p ** r) ++ (q ** r)
  <2>1. Pairs(p ++ q, r, m) = SymDiff(Pairs(p, r, m), Pairs(q, r, m))
    BY XorIs DEF Pairs, SymDiff
  <2>2. IsOdd(Pairs(p ++ q, r, m)) <=> ~(IsOdd(Pairs(p, r, m)) <=> IsOdd(Pairs(q, r, m)))
    BY <2>1, PairsFinite, OddSymDiff
  <2>3. /\ m \in (p ++ q) ** r <=> IsOdd(Pairs(p ++ q, r, m))
        /\ m \in p ** r <=> IsOdd(Pairs(p, r, m))
        /\ m \in q ** r <=> IsOdd(Pairs(q, r, m))
    BY AndIs, XorFinite
  <2>4. m \in (p ** r) ++ (q ** r) <=> ~(m \in p ** r <=> m \in q ** r)
    BY XorIs, Zenon
  <2> QED
    BY <2>2, <2>3, <2>4
<1> QED
  BY <1>1

(* AND is commutative.                                                     *)
LEMMA AndCommutes ==
    ASSUME NEW p, NEW q, IsFiniteSet(p), IsFiniteSet(q)
    PROVE  p ** q = q ** p
<1>1. ASSUME NEW m PROVE m \in p ** q <=> m \in q ** p
  <2> DEFINE S == Pairs(p, q, m)
             T == Pairs(q, p, m)
             f == [ab \in S |-> <<ab[2], ab[1]>>]
  <2>1. /\ f \in [S -> T]
        /\ \A x, y \in S : f[x] = f[y] => x = y
        /\ \A t \in T : \E s \in S : f[s] = t
    <3>1. f \in [S -> T]
      BY DEF Pairs
    <3>2. \A x, y \in S : f[x] = f[y] => x = y
      BY DEF Pairs
    <3>3. ASSUME NEW t \in T PROVE \E s \in S : f[s] = t
      <4>1. <<t[2], t[1]>> \in S /\ t = <<t[1], t[2]>>
        BY DEF Pairs
      <4> QED
        BY <4>1
    <3> QED
      BY <3>1, <3>2, <3>3
  <2> HIDE DEF f
  <2>2. IsOdd(S) <=> IsOdd(T)
    BY <2>1, PairsFinite, OddBijection
  <2> QED
    BY <2>2, AndIs
<1> QED
  BY <1>1

(* Units, and the product of two monomials.                                *)
LEMMA AndUnits ==
    /\ \A p : IsFiniteSet(p) => Zero ** p = Zero /\ p ** Zero = Zero
    /\ \A p : IsFiniteSet(p) => One ** p = p /\ p ** One = p
    /\ \A a, b : {a} ** {b} = {a \cup b}
<1>1. ASSUME NEW p, IsFiniteSet(p) PROVE Zero ** p = Zero /\ p ** Zero = Zero
  BY DEF **, AndBit, Zero
<1>2. ASSUME NEW a, NEW p, IsFiniteSet(p), \A x, y \in p : a \cup x = a \cup y => x = y
      PROVE  {a} ** p = {a \cup x : x \in p}
  <2>1. ASSUME NEW m PROVE m \in {a} ** p <=> m \in {a \cup x : x \in p}
    <3>0. IsFiniteSet({a})
      BY FS_Singleton
    <3>1. m \in {a} ** p <=> IsOdd(Pairs({a}, p, m))
      BY <1>2, <3>0, AndIs
    <3>2. ASSUME NEW x \in p, m = a \cup x PROVE Pairs({a}, p, m) = {<<a, x>>}
      BY <1>2, <3>2 DEF Pairs
    <3>3. m \notin {a \cup x : x \in p} => Pairs({a}, p, m) = {}
      BY DEF Pairs
    <3> QED
      BY <3>1, <3>2, <3>3, OddSets
  <2> QED
    BY <2>1
<1>3. ASSUME NEW p, IsFiniteSet(p) PROVE One ** p = p /\ p ** One = p
  <2> DEFINE e == {}
  <2>1. One = {e} /\ \A x : e \cup x = x
    BY DEF One
  <2> HIDE DEF e
  <2>2. {e} ** p = {e \cup x : x \in p}
    <3>1. ASSUME NEW x, NEW y, e \cup x = e \cup y PROVE x = y
      <4>1. x = e \cup x /\ e \cup y = y
        BY <2>1, Zenon
      <4> QED
        BY <3>1, <4>1, Zenon
    <3>2. \A x, y \in p : e \cup x = e \cup y => x = y
      BY <3>1, Zenon
    <3> QED
      BY <1>2, <1>3, <3>2
  <2>3. One ** p = p
    <3>1. ASSUME NEW m PROVE m \in {e \cup x : x \in p} <=> m \in p
      <4>1. m \in {e \cup x : x \in p} <=> \E x \in p : m = e \cup x
        OBVIOUS
      <4>2. (\E x \in p : m = e \cup x) <=> \E x \in p : m = x
        BY <2>1, Zenon
      <4> QED
        BY <4>1, <4>2
    <3>2. {e \cup x : x \in p} = p
      BY <3>1
    <3> QED
      BY <2>1, <2>2, <3>2, Zenon
  <2>4. IsFiniteSet(One)
    BY FS_Singleton DEF One
  <2> QED
    BY <1>3, <2>3, <2>4, AndCommutes
<1>4. ASSUME NEW a, NEW b PROVE {a} ** {b} = {a \cup b}
  <2>1. IsFiniteSet({b})
    BY FS_Singleton
  <2>2. {a} ** {b} = {a \cup x : x \in {b}}
    <3>1. \A x, y \in {b} : a \cup x = a \cup y => x = y
      OBVIOUS
    <3> QED
      BY <1>2, <2>1, <3>1
  <2> QED
    BY <2>2
<1> QED
  BY <1>1, <1>3, <1>4

(* XOR with a fixed factor commutes with building a polynomial up: a       *)
(* property of two finite polynomials that is linear in the first holds    *)
(* for all of it if it holds for its monomials.                            *)
LEMMA AddMonomial ==
    ASSUME NEW T, NEW m, m \notin T
    PROVE  T \cup {m} = T ++ {m}
BY DEF ++, XorBit, SymDiff

(* Associativity of AND: for monomials, then by linearity in each factor.  *)
IsMonomial(p) == \E a : p = {a}

LEMMA AndAssoc1 ==
    ASSUME NEW p, NEW q, NEW r, IsMonomial(p), IsMonomial(q), IsFiniteSet(r)
    PROVE  (p ** q) ** r = p ** (q ** r)
<1>a. PICK a : p = {a}
  BY DEF IsMonomial
<1>b. PICK b : q = {b}
  BY DEF IsMonomial
<1> DEFINE F == {x \in SUBSET r : IsFiniteSet(x) /\ ({a} ** {b}) ** x = {a} ** ({b} ** x)}
<1>0. IsFiniteSet({a}) /\ IsFiniteSet({b}) /\ IsFiniteSet({a} ** {b})
  BY FS_Singleton, AndIs
<1>1. {} \in F
  BY <1>0, AndUnits, FS_EmptySet DEF Zero
<1>2. ASSUME NEW T \in SUBSET r, NEW m \in r, T \in F, m \notin T PROVE T \cup {m} \in F
  <2>1. T \cup {m} = T ++ {m} /\ IsFiniteSet({m}) /\ IsFiniteSet(T) /\ IsFiniteSet(T ++ {m})
    BY <1>2, AddMonomial, FS_Singleton, XorFinite
  <2>2. ({a} ** {b}) ** (T ++ {m}) = (({a} ** {b}) ** T) ++ (({a} ** {b}) ** {m})
    BY <1>0, <2>1, AndOverXor, AndCommutes
  <2>3. {b} ** (T ++ {m}) = ({b} ** T) ++ ({b} ** {m})
    BY <1>0, <2>1, AndOverXor, AndCommutes
  <2>4. IsFiniteSet({b} ** T) /\ IsFiniteSet({b} ** {m})
    BY <1>0, <2>1, AndIs
  <2>5. {a} ** (({b} ** T) ++ ({b} ** {m})) = ({a} ** ({b} ** T)) ++ ({a} ** ({b} ** {m}))
    BY <1>0, <2>4, XorFinite, AndOverXor, AndCommutes
  <2>6. ({a} ** {b}) ** {m} = {a} ** ({b} ** {m})
    <3>1. (a \cup b) \cup m = a \cup (b \cup m)
      OBVIOUS
    <3> QED
      <4>1. {a} ** {b} = {a \cup b} /\ {b} ** {m} = {b \cup m}
        BY AndUnits
      <4>2. {a \cup b} ** {m} = {(a \cup b) \cup m} /\ {a} ** {b \cup m} = {a \cup (b \cup m)}
        BY AndUnits
      <4> QED
        BY <3>1, <4>1, <4>2
  <2>7. ({a} ** {b}) ** T = {a} ** ({b} ** T)
    BY <1>2
  <2> QED
    BY <2>1, <2>2, <2>3, <2>5, <2>6, <2>7
<1> HIDE DEF F
<1>3. r \in F
  BY <1>1, <1>2, FiniteInduction
<1> QED
  BY <1>3, <1>a, <1>b DEF F

LEMMA AndAssoc2 ==
    ASSUME NEW a, NEW q, NEW r, IsFiniteSet(q), IsFiniteSet(r)
    PROVE  ({a} ** q) ** r = {a} ** (q ** r)
<1> DEFINE F == {x \in SUBSET q : IsFiniteSet(x) /\ ({a} ** x) ** r = {a} ** (x ** r)}
<1>0. IsFiniteSet({a})
  BY FS_Singleton
<1>1. {} \in F
  BY <1>0, AndUnits, FS_EmptySet DEF Zero
<1>2. ASSUME NEW T \in SUBSET q, NEW m \in q, T \in F, m \notin T PROVE T \cup {m} \in F
  <2>1. T \cup {m} = T ++ {m} /\ IsFiniteSet({m}) /\ IsFiniteSet(T) /\ IsFiniteSet(T ++ {m})
    BY <1>2, AddMonomial, FS_Singleton, XorFinite
  <2>2. {a} ** (T ++ {m}) = ({a} ** T) ++ ({a} ** {m})
    BY <1>0, <2>1, AndOverXor, AndCommutes
  <2>3. (T ++ {m}) ** r = (T ** r) ++ ({m} ** r)
    BY <2>1, AndOverXor
  <2>4. IsFiniteSet({a} ** T) /\ IsFiniteSet({a} ** {m}) /\ IsFiniteSet(T ** r)
        /\ IsFiniteSet({m} ** r)
    BY <1>0, <2>1, AndIs
  <2>5. (({a} ** T) ++ ({a} ** {m})) ** r = (({a} ** T) ** r) ++ (({a} ** {m}) ** r)
    BY <2>4, AndOverXor
  <2>6. {a} ** ((T ** r) ++ ({m} ** r)) = ({a} ** (T ** r)) ++ ({a} ** ({m} ** r))
    BY <1>0, <2>4, XorFinite, AndOverXor, AndCommutes
  <2>7. ({a} ** {m}) ** r = {a} ** ({m} ** r)
    <3> DEFINE x == {a}
               y == {m}
    <3>1. IsMonomial(x) /\ IsMonomial(y)
      BY DEF IsMonomial
    <3> HIDE DEF x, y
    <3>2. (x ** y) ** r = x ** (y ** r)
      BY <3>1, AndAssoc1
    <3> QED
      BY <3>2 DEF x, y
  <2>8. ({a} ** T) ** r = {a} ** (T ** r)
    BY <1>2
  <2> QED
    BY <2>1, <2>2, <2>3, <2>5, <2>6, <2>7, <2>8
<1> HIDE DEF F
<1>3. q \in F
  BY <1>1, <1>2, FiniteInduction
<1> QED
  BY <1>3 DEF F

LEMMA AndAssoc ==
    ASSUME NEW p, NEW q, NEW r, IsFiniteSet(p), IsFiniteSet(q), IsFiniteSet(r)
    PROVE  (p ** q) ** r = p ** (q ** r)
<1> DEFINE F == {x \in SUBSET p : IsFiniteSet(x) /\ (x ** q) ** r = x ** (q ** r)}
<1>0. IsFiniteSet(q ** r)
  BY AndIs
<1>1. {} \in F
  BY <1>0, AndUnits, FS_EmptySet DEF Zero
<1>2. ASSUME NEW T \in SUBSET p, NEW m \in p, T \in F, m \notin T PROVE T \cup {m} \in F
  <2>1. T \cup {m} = T ++ {m} /\ IsFiniteSet({m}) /\ IsFiniteSet(T) /\ IsFiniteSet(T ++ {m})
    BY <1>2, AddMonomial, FS_Singleton, XorFinite
  <2>2. (T ++ {m}) ** q = (T ** q) ++ ({m} ** q)
    BY <2>1, AndOverXor
  <2>3. (T ++ {m}) ** (q ** r) = (T ** (q ** r)) ++ ({m} ** (q ** r))
    BY <1>0, <2>1, AndOverXor
  <2>4. IsFiniteSet(T ** q) /\ IsFiniteSet({m} ** q)
    BY <2>1, AndIs
  <2>5. ((T ** q) ++ ({m} ** q)) ** r = ((T ** q) ** r) ++ (({m} ** q) ** r)
    BY <2>4, AndOverXor
  <2>6. ({m} ** q) ** r = {m} ** (q ** r)
    BY AndAssoc2
  <2>7. (T ** q) ** r = T ** (q ** r)
    BY <1>2
  <2> QED
    BY <2>1, <2>2, <2>3, <2>5, <2>6, <2>7
<1> HIDE DEF F
<1>3. p \in F
  BY <1>1, <1>2, FiniteInduction
<1> QED
  BY <1>3 DEF F
-------------------------------------------------------------------------------
(* The ring laws, for polynomials.                                         *)
IsPoly(p) == IsFiniteSet(p)

LEMMA PolyClosed ==
    /\ IsPoly(Zero) /\ IsPoly(One)
    /\ \A v : IsPoly(Var(v))
    /\ \A p, q : IsPoly(p) /\ IsPoly(q) => IsPoly(p ++ q) /\ IsPoly(p ** q)
BY FS_EmptySet, FS_Singleton, XorFinite, AndIs DEF IsPoly, Zero, One, Var

LEMMA Distribute ==
    ASSUME NEW p, NEW q, NEW r, IsPoly(p), IsPoly(q), IsPoly(r)
    PROVE  /\ (p ++ q) ** r = (p ** r) ++ (q ** r)
           /\ p ** (q ++ r) = (p ** q) ++ (p ** r)
<1>1. IsFiniteSet(p) /\ IsFiniteSet(q) /\ IsFiniteSet(r) /\ IsFiniteSet(q ++ r)
  BY PolyClosed DEF IsPoly
<1>2. (p ++ q) ** r = (p ** r) ++ (q ** r)
  BY <1>1, AndOverXor
<1>3. (q ++ r) ** p = (q ** p) ++ (r ** p)
  BY <1>1, AndOverXor
<1>4. (q ++ r) ** p = p ** (q ++ r) /\ q ** p = p ** q /\ r ** p = p ** r
  BY <1>1, AndCommutes
<1> QED
  BY <1>2, <1>3, <1>4

LEMMA AndLaws ==
    /\ \A p, q : IsPoly(p) /\ IsPoly(q) => p ** q = q ** p
    /\ \A p, q, r : IsPoly(p) /\ IsPoly(q) /\ IsPoly(r) => (p ** q) ** r = p ** (q ** r)
    /\ \A p : IsPoly(p) => Zero ** p = Zero /\ p ** Zero = Zero /\ One ** p = p /\ p ** One = p
<1>1. \A p, q : IsPoly(p) /\ IsPoly(q) => p ** q = q ** p
  BY AndCommutes DEF IsPoly
<1>2. ASSUME NEW p, NEW q, NEW r, IsPoly(p), IsPoly(q), IsPoly(r)
      PROVE  (p ** q) ** r = p ** (q ** r)
  <2>1. IsFiniteSet(p) /\ IsFiniteSet(q) /\ IsFiniteSet(r)
    BY <1>2 DEF IsPoly
  <2> QED
    BY <2>1, AndAssoc
<1>3. \A p : IsPoly(p) => Zero ** p = Zero /\ p ** Zero = Zero /\ One ** p = p /\ p ** One = p
  BY AndUnits DEF IsPoly
<1> QED
  BY <1>1, <1>2, <1>3
-------------------------------------------------------------------------------
(* A bit has no block variable; each monomial of a block has exactly one.  *)
BlockVar(v) == v[1] \in BlockTags

IsBit(x) == IsPoly(x) /\ \A m \in x : \A v \in m : ~BlockVar(v)

HasBlock(m, v) == v \in m /\ BlockVar(v) /\ \A u \in m : BlockVar(u) => u = v

IsBlock(b) == IsPoly(b) /\ \A m \in b : \E v : HasBlock(m, v)

(* A product of polynomials is made of products of their monomials.        *)
LEMMA Factors ==
    ASSUME NEW p, NEW q, NEW m \in p ** q
    PROVE  \E a \in p, b \in q : m = a \cup b
BY DEF **, AndBit

LEMMA BitClosed ==
    /\ IsBit(Zero) /\ IsBit(One)
    /\ \A x : IsBit(x) => IsPoly(x)
    /\ \A x, y : IsBit(x) /\ IsBit(y) => IsBit(x ++ y) /\ IsBit(x ** y)
<1>1. IsBit(Zero) /\ IsBit(One)
  BY PolyClosed DEF IsBit, Zero, One
<1>2. \A x : IsBit(x) => IsPoly(x)
  BY DEF IsBit
<1>3. ASSUME NEW x, NEW y, IsBit(x), IsBit(y) PROVE IsBit(x ++ y) /\ IsBit(x ** y)
  <2>1. IsPoly(x) /\ IsPoly(y) /\ IsPoly(x ++ y) /\ IsPoly(x ** y)
    BY <1>3, <1>2, PolyClosed
  <2>2. ASSUME NEW m \in x ++ y, NEW v \in m PROVE ~BlockVar(v)
    <3>1. m \in x \/ m \in y
      BY DEF ++, XorBit, SymDiff
    <3> QED
      BY <1>3, <3>1 DEF IsBit
  <2>3. ASSUME NEW m \in x ** y, NEW v \in m PROVE ~BlockVar(v)
    <3>1. PICK a \in x, b \in y : m = a \cup b
      BY Factors
    <3>2. v \in a \/ v \in b
      BY <3>1
    <3> QED
      BY <1>3, <3>2 DEF IsBit
  <2> QED
    BY <2>1, <2>2, <2>3 DEF IsBit
<1> QED
  BY <1>1, <1>2, <1>3

LEMMA BlockClosed ==
    /\ IsBlock(Zero)
    /\ \A v : BlockVar(v) => IsBlock(Var(v))
    /\ \A b : IsBlock(b) => IsPoly(b)
    /\ \A b, c : IsBlock(b) /\ IsBlock(c) => IsBlock(b ++ c)
    /\ \A x, b : IsBit(x) /\ IsBlock(b) => IsBlock(x ** b)
<1>1. IsBlock(Zero) /\ \A v : BlockVar(v) => IsBlock(Var(v))
  BY PolyClosed DEF IsBlock, Zero, Var, HasBlock
<1>2. \A b : IsBlock(b) => IsPoly(b)
  BY DEF IsBlock
<1>3. ASSUME NEW b, NEW c, IsBlock(b), IsBlock(c) PROVE IsBlock(b ++ c)
  <2>1. IsPoly(b ++ c)
    BY <1>2, <1>3, PolyClosed
  <2>2. ASSUME NEW m \in b ++ c PROVE \E v : HasBlock(m, v)
    <3>1. m \in b \/ m \in c
      BY DEF ++, XorBit, SymDiff
    <3> QED
      BY <1>3, <3>1 DEF IsBlock
  <2> QED
    BY <2>1, <2>2 DEF IsBlock
<1>4. ASSUME NEW x, NEW b, IsBit(x), IsBlock(b) PROVE IsBlock(x ** b)
  <2>1. IsPoly(x ** b)
    BY <1>2, <1>4, BitClosed, PolyClosed
  <2>2. ASSUME NEW m \in x ** b PROVE \E v : HasBlock(m, v)
    <3>1. PICK s \in x, k \in b : m = s \cup k
      BY Factors
    <3>2. PICK v : HasBlock(k, v)
      BY <1>4 DEF IsBlock
    <3>3. HasBlock(m, v)
      BY <1>4, <3>1, <3>2 DEF HasBlock, IsBit
    <3> QED
      BY <3>3
  <2> QED
    BY <2>1, <2>2 DEF IsBlock
<1> QED
  BY <1>1, <1>2, <1>3, <1>4
-------------------------------------------------------------------------------
(* The two pinned bits alike: LSB for k = 0, LSB1 for k = 1.  A monomial   *)
(* of a block contributes one monomial to the bit, or none.                *)
Pin(k, b) == IF k = 0 THEN LSB(b) ELSE LSB1(b)

Contributes(k, m) ==
    IF k = 0 THEN BlockOf(m)[1] \in {"Delta", "bit0_mask"}
             ELSE BlockOf(m) \notin {DeltaVar(Evaluator), <<"bit0_mask">>}

Contribution(k, m) == IF k = 0 THEN BitsOf(m) ELSE Bit1Of(m)

PinFrom(k, b, y) == {m \in b : Contributes(k, m) /\ Contribution(k, m) = y}

LEMMA PinIs ==
    ASSUME NEW k \in {0, 1}, NEW b, NEW y
    PROVE  /\ y \in Pin(k, b) <=> IsOdd(PinFrom(k, b, y))
           /\ y \in Pin(k, b) => \E m \in b : Contribution(k, m) = y
<1>1. CASE k = 0
  <2> DEFINE S == {m \in b : BlockOf(m)[1] \in {"Delta", "bit0_mask"}}
             R == {m \in S : BitsOf(m) = y}
  <2>1. R = PinFrom(k, b, y)
    BY <1>1 DEF PinFrom, Contributes, Contribution
  <2>2. y \in LSB(b) <=> y \in {BitsOf(m) : m \in S} /\ IsOdd(R)
    BY DEF LSB, Odd, IsOdd
  <2>3. IsOdd(R) => R # {}
    BY OddSets
  <2>4. R # {} => y \in {BitsOf(m) : m \in S}
    OBVIOUS
  <2>5. R # {} => \E m \in b : Contribution(k, m) = y
    BY <2>1 DEF PinFrom
  <2> HIDE DEF R, S
  <2> QED
    BY <1>1, <2>1, <2>2, <2>3, <2>4, <2>5 DEF Pin
<1>2. CASE k = 1
  <2> DEFINE S == {m \in b : BlockOf(m) \notin {DeltaVar(Evaluator), <<"bit0_mask">>}}
             R == {m \in S : Bit1Of(m) = y}
  <2>1. R = PinFrom(k, b, y)
    BY <1>2 DEF PinFrom, Contributes, Contribution
  <2>2. y \in LSB1(b) <=> y \in {Bit1Of(m) : m \in S} /\ IsOdd(R)
    BY DEF LSB1, Odd, IsOdd
  <2>3. IsOdd(R) => R # {}
    BY OddSets
  <2>4. R # {} => y \in {Bit1Of(m) : m \in S}
    OBVIOUS
  <2>5. R # {} => \E m \in b : Contribution(k, m) = y
    BY <2>1 DEF PinFrom
  <2> HIDE DEF R, S
  <2> QED
    BY <1>2, <2>1, <2>2, <2>3, <2>4, <2>5 DEF Pin
<1> QED
  BY <1>1, <1>2

(* A pinned bit is linear.                                                 *)
LEMMA PinLinear ==
    ASSUME NEW k \in {0, 1}, NEW b, NEW c, IsPoly(b), IsPoly(c)
    PROVE  Pin(k, b ++ c) = Pin(k, b) ++ Pin(k, c)
<1>1. ASSUME NEW y PROVE y \in Pin(k, b ++ c) <=> y \in Pin(k, b) ++ Pin(k, c)
  <2> DEFINE S == PinFrom(k, b, y)
             T == PinFrom(k, c, y)
             R == PinFrom(k, b ++ c, y)
  <2>1. R = SymDiff(S, T)
    BY DEF PinFrom, ++, XorBit, SymDiff
  <2>2. S \in SUBSET b /\ T \in SUBSET c
    BY DEF PinFrom
  <2>3. /\ y \in Pin(k, b) <=> IsOdd(S) 
        /\ y \in Pin(k, c) <=> IsOdd(T)
        /\ y \in Pin(k, b ++ c) <=> IsOdd(R)
    BY PinIs
  <2> HIDE DEF S, T, R
  <2>4. IsFiniteSet(S) /\ IsFiniteSet(T)
    BY <2>2, FS_Subset DEF IsPoly
  <2>5. IsOdd(R) <=> ~(IsOdd(S) <=> IsOdd(T))
    BY <2>1, <2>4, OddSymDiff
  <2>6. y \in Pin(k, b) ++ Pin(k, c) <=> ~(y \in Pin(k, b) <=> y \in Pin(k, c))
    BY XorIs, ZenonT(60)
  <2> QED
    BY <2>3, <2>5, <2>6
<1> QED
  BY <1>1

LEMMA PinZero == ASSUME NEW k \in {0, 1} PROVE Pin(k, Zero) = Zero
<1>1. ASSUME NEW y PROVE y \notin Pin(k, Zero)
  BY PinIs DEF Zero
<1> QED
  BY <1>1 DEF Zero

(* What a single monomial contributes.                                     *)
LEMMA PinOfMonomial ==
    ASSUME NEW k \in {0, 1}, NEW m
    PROVE  Pin(k, {m}) = IF Contributes(k, m) THEN {Contribution(k, m)} ELSE {}
<1>1. ASSUME NEW y
      PROVE  y \in Pin(k, {m}) <=> Contributes(k, m) /\ y = Contribution(k, m)
  <2>1. y \in Pin(k, {m}) <=> IsOdd(PinFrom(k, {m}, y))
    BY PinIs
  <2>2. CASE Contributes(k, m) /\ y = Contribution(k, m)
    <3>1. PinFrom(k, {m}, y) = {m}
      BY <2>2 DEF PinFrom
    <3> QED
      BY <2>1, <2>2, <3>1, OddSets
  <2>3. CASE ~(Contributes(k, m) /\ y = Contribution(k, m))
    <3>1. PinFrom(k, {m}, y) = {}
      BY <2>3 DEF PinFrom
    <3> QED
      BY <2>1, <2>3, <3>1, OddSets
  <2> QED
    BY <2>2, <2>3
<1> QED
  BY <1>1

(* The block variable of a monomial, its bits, and those of a multiple.    *)
LEMMA BlockOfIs ==
    ASSUME NEW m, NEW v, HasBlock(m, v)
    PROVE  BlockOf(m) = v /\ BitsOf(m) = m \ {v}
<1>1. \E w \in m : w[1] \in BlockTags
  BY DEF HasBlock, BlockVar
<1>2. BlockOf(m) \in m /\ BlockOf(m)[1] \in BlockTags
  BY <1>1, Zenon DEF BlockOf
<1>3. BlockOf(m) = v
  BY <1>2 DEF HasBlock, BlockVar
<1>4. ASSUME NEW u PROVE u \in BitsOf(m) <=> u \in m \ {v}
  BY DEF HasBlock, BlockVar, BitsOf
<1> QED
  BY <1>3, <1>4

LEMMA Multiple ==
    ASSUME NEW k \in {0, 1}, NEW s, NEW m, NEW v, HasBlock(m, v), \A u \in s : ~BlockVar(u)
    PROVE  /\ Contributes(k, s \cup m) <=> Contributes(k, m)
           /\ Contribution(k, s \cup m) = s \cup Contribution(k, m)
<1>1. HasBlock(s \cup m, v) /\ v \notin s
  BY DEF HasBlock
<1>2. BlockOf(m) = v /\ BlockOf(s \cup m) = v
  BY <1>1, BlockOfIs
<1>3. BitsOf(s \cup m) = s \cup BitsOf(m)
  <2>1. BitsOf(m) = m \ {v} /\ BitsOf(s \cup m) = (s \cup m) \ {v}
    BY <1>1, BlockOfIs
  <2> QED
    BY <1>1, <2>1
<1>4. Contributes(k, s \cup m) <=> Contributes(k, m)
  BY <1>2 DEF Contributes
<1>5. Contribution(k, s \cup m) = s \cup Contribution(k, m)
  <2>1. Bit1Of(s \cup m) = s \cup Bit1Of(m)
    <3>1. CASE v = DeltaVar(Garbler)
      BY <1>2, <1>3, <3>1 DEF Bit1Of
    <3>2. CASE v # DeltaVar(Garbler)
      <4>1. Bit1Of(s \cup m) = (s \cup BitsOf(m)) \cup {<<"bit1", v>>}
        BY <1>2, <1>3, <3>2 DEF Bit1Of
      <4>2. Bit1Of(m) = BitsOf(m) \cup {<<"bit1", v>>}
        BY <1>2, <3>2 DEF Bit1Of
      <4> QED
        BY <4>1, <4>2
    <3> QED
      BY <3>1, <3>2
  <2> QED
    BY <1>3, <2>1 DEF Contribution
<1> QED
  BY <1>4, <1>5

(* A pinned bit of a block is a bit.                                       *)
LEMMA PinIsBit ==
    ASSUME NEW k \in {0, 1}, NEW b, IsBlock(b)
    PROVE  IsBit(Pin(k, b))
<1>1. IsPoly(Pin(k, b))
  <2> DEFINE f == [m \in b |-> Contribution(k, m)]
             T == {f[m] : m \in b}
  <2>1. ASSUME NEW m \in b PROVE Contribution(k, m) \in T
    <3>1. f[m] = Contribution(k, m)
      OBVIOUS
    <3> QED
      BY <3>1
  <2>2. IsFiniteSet(b)
    BY DEF IsBlock, IsPoly
  <2>3. IsFiniteSet(T)
    <3> HIDE DEF f
    <3> QED
      BY <2>2, FiniteImage, Zenon
  <2> HIDE DEF T
  <2>4. Pin(k, b) \in SUBSET T
    BY <2>1, PinIs
  <2> QED
    BY <2>3, <2>4, FS_Subset DEF IsPoly
<1>2. ASSUME NEW y \in Pin(k, b), NEW u \in y PROVE ~BlockVar(u)
  <2>1. PICK m \in b : Contribution(k, m) = y
    BY PinIs
  <2>2. PICK v : HasBlock(m, v)
    BY DEF IsBlock
  <2>3. BitsOf(m) = m \ {v} /\ BlockOf(m) = v
    BY <2>2, BlockOfIs
  <2>4. u \in m \ {v} \/ u = <<"bit1", v>>
    BY <2>1, <2>3 DEF Contribution, Bit1Of
  <2>5. <<"bit1", v>>[1] \notin BlockTags
    BY DEF BlockTags
  <2> QED
    BY <2>2, <2>4, <2>5 DEF HasBlock, BlockVar
<1> QED
  BY <1>1, <1>2 DEF IsBit

(* A bit in front of a block goes in front of its pinned bits: for a       *)
(* monomial times a monomial, then by linearity in each.                   *)
LEMMA PinOfProduct1 ==
    ASSUME NEW k \in {0, 1}, NEW x, NEW b, IsMonomial(x), IsMonomial(b), IsBit(x), IsBlock(b)
    PROVE  Pin(k, x ** b) = x ** Pin(k, b)
<1>1. PICK s : x = {s}
  BY DEF IsMonomial
<1>2. PICK m : b = {m}
  BY DEF IsMonomial
<1>3. PICK v : HasBlock(m, v)
  BY <1>2 DEF IsBlock
<1>4. x ** b = {s \cup m}
  BY <1>1, <1>2, AndUnits
<1>5. \A u \in s : ~BlockVar(u)
  BY <1>1 DEF IsBit
<1>6. /\ Contributes(k, s \cup m) <=> Contributes(k, m)
      /\ Contribution(k, s \cup m) = s \cup Contribution(k, m)
  BY <1>3, <1>5, Multiple
<1>7. /\ Pin(k, {m}) = IF Contributes(k, m) THEN {Contribution(k, m)} ELSE {}
      /\ Pin(k, {s \cup m}) = IF Contributes(k, s \cup m) THEN {Contribution(k, s \cup m)} ELSE {}
  BY PinOfMonomial
<1>8. CASE Contributes(k, m)
  <2>1. {s} ** {Contribution(k, m)} = {s \cup Contribution(k, m)}
    BY AndUnits
  <2> QED
    BY <1>1, <1>2, <1>4, <1>6, <1>7, <1>8, <2>1
<1>9. CASE ~Contributes(k, m)
  <2>1. x ** {} = {}
    BY AndLaws, BitClosed DEF Zero
  <2> QED
    BY <1>1, <1>2, <1>4, <1>6, <1>7, <1>9, <2>1
<1> QED
  BY <1>8, <1>9

(* A part of a bit is a bit, a part of a block is a block.                 *)
LEMMA PartOf ==
    ASSUME NEW T, NEW m, NEW S, T \in SUBSET S, m \in S, m \notin T, IsPoly(S)
    PROVE  /\ T \cup {m} = T ++ {m} /\ IsPoly(T) /\ IsPoly({m}) /\ IsMonomial({m})
           /\ IsBit(S) => IsBit(T) /\ IsBit({m}) /\ IsBit(T \cup {m})
           /\ IsBlock(S) => IsBlock(T) /\ IsBlock({m}) /\ IsBlock(T \cup {m})
<1>1. IsPoly(T) /\ IsPoly({m}) /\ IsPoly(T \cup {m})
  BY FS_Subset DEF IsPoly
<1>2. T \cup {m} = T ++ {m}
  BY AddMonomial
<1> QED
  BY <1>1, <1>2 DEF IsMonomial, IsBit, IsBlock

LEMMA PinOfProduct2 ==
    ASSUME NEW k \in {0, 1}, NEW x, NEW b, IsMonomial(x), IsBit(x), IsBlock(b)
    PROVE  Pin(k, x ** b) = x ** Pin(k, b)
<1> DEFINE F == {c \in SUBSET b : Pin(k, x ** c) = x ** Pin(k, c)}
<1>0. IsPoly(x) /\ IsPoly(b) /\ IsFiniteSet(b)
  BY BitClosed, BlockClosed DEF IsPoly
<1>1. {} \in F
  <2>1. x ** Zero = Zero /\ Pin(k, Zero) = Zero
    BY <1>0, AndLaws, PinZero
  <2> QED
    BY <2>1 DEF Zero
<1>2. ASSUME NEW T \in SUBSET b, NEW m \in b, T \in F, m \notin T PROVE T \cup {m} \in F
  <2>1. /\ T \cup {m} = T ++ {m} /\ IsPoly(T) /\ IsPoly({m}) /\ IsMonomial({m})
        /\ IsBlock(T) /\ IsBlock({m})
    BY <1>0, <1>2, PartOf
  <2>2. x ** (T ++ {m}) = (x ** T) ++ (x ** {m})
    BY <1>0, <2>1, Distribute
  <2>3. IsPoly(x ** T) /\ IsPoly(x ** {m})
    BY <1>0, <2>1, PolyClosed
  <2>4. Pin(k, (x ** T) ++ (x ** {m})) = Pin(k, x ** T) ++ Pin(k, x ** {m})
    BY <2>3, PinLinear
  <2>5. Pin(k, T ++ {m}) = Pin(k, T) ++ Pin(k, {m})
    BY <2>1, PinLinear
  <2>6. IsPoly(Pin(k, T)) /\ IsPoly(Pin(k, {m}))
    BY <2>1, PinIsBit, BitClosed
  <2>7. x ** (Pin(k, T) ++ Pin(k, {m})) = (x ** Pin(k, T)) ++ (x ** Pin(k, {m}))
    BY <1>0, <2>6, Distribute
  <2>8. Pin(k, x ** {m}) = x ** Pin(k, {m})
    BY <2>1, PinOfProduct1
  <2>9. Pin(k, x ** T) = x ** Pin(k, T)
    BY <1>2
  <2> QED
    BY <2>1, <2>2, <2>4, <2>5, <2>7, <2>8, <2>9
<1> HIDE DEF F
<1>3. b \in F
  BY <1>0, <1>1, <1>2, FiniteInduction
<1> QED
  BY <1>3 DEF F

LEMMA PinOfProduct ==
    ASSUME NEW k \in {0, 1}, NEW x, NEW b, IsBit(x), IsBlock(b)
    PROVE  Pin(k, x ** b) = x ** Pin(k, b)
<1> DEFINE F == {c \in SUBSET x : Pin(k, c ** b) = c ** Pin(k, b)}
<1>0. IsPoly(x) /\ IsPoly(b) /\ IsFiniteSet(x) /\ IsPoly(Pin(k, b))
  BY BitClosed, BlockClosed, PinIsBit DEF IsPoly
<1>1. {} \in F
  <2>1. Zero ** b = Zero /\ Zero ** Pin(k, b) = Zero /\ Pin(k, Zero) = Zero
    BY <1>0, AndLaws, PinZero
  <2> QED
    BY <2>1 DEF Zero
<1>2. ASSUME NEW T \in SUBSET x, NEW m \in x, T \in F, m \notin T PROVE T \cup {m} \in F
  <2>1. /\ T \cup {m} = T ++ {m} /\ IsPoly(T) /\ IsPoly({m}) /\ IsMonomial({m})
        /\ IsBit(T) /\ IsBit({m})
    BY <1>0, <1>2, PartOf
  <2>2. (T ++ {m}) ** b = (T ** b) ++ ({m} ** b)
    BY <1>0, <2>1, Distribute
  <2>3. IsPoly(T ** b) /\ IsPoly({m} ** b)
    BY <1>0, <2>1, PolyClosed
  <2>4. Pin(k, (T ** b) ++ ({m} ** b)) = Pin(k, T ** b) ++ Pin(k, {m} ** b)
    BY <2>3, PinLinear
  <2>5. (T ++ {m}) ** Pin(k, b) = (T ** Pin(k, b)) ++ ({m} ** Pin(k, b))
    BY <1>0, <2>1, Distribute
  <2>6. Pin(k, {m} ** b) = {m} ** Pin(k, b)
    <3> DEFINE y == {m}
    <3>1. IsMonomial(y) /\ IsBit(y)
      BY <2>1
    <3> HIDE DEF y
    <3>2. Pin(k, y ** b) = y ** Pin(k, b)
      BY <3>1, PinOfProduct2
    <3> QED
      BY <3>2 DEF y
  <2>7. Pin(k, T ** b) = T ** Pin(k, b)
    BY <1>2
  <2> QED
    BY <2>1, <2>2, <2>4, <2>5, <2>6, <2>7
<1> HIDE DEF F
<1>3. x \in F
  BY <1>0, <1>1, <1>2, FiniteInduction
<1> QED
  BY <1>3 DEF F
-------------------------------------------------------------------------------
(* The pinned bits of the Deltas, bit0_mask and the keys.                  *)
LEMMA Variables ==
    /\ \A p : IsBlock(Delta(p)) /\ BlockVar(DeltaVar(p))
    /\ IsBlock(bit0_mask)
    /\ \A p, n : IsBlock(KeyOf(p, n)) /\ IsBit(ShareBit(p, n))
    /\ \A p, n : IsBlock(Var(<<"Label", n>>))
    /\ \A s, t : IsBlock(Var(<<"Hash", s, t>>))
<1>1. \A p : BlockVar(DeltaVar(p))
  BY DEF BlockVar, DeltaVar, BlockTags
<1>2. BlockVar(<<"bit0_mask">>)
  BY DEF BlockVar, BlockTags
<1>3. \A p, n : BlockVar(<<"Key", p, n>>) /\ ~BlockVar(<<"x", p, n>>)
  BY DEF BlockVar, BlockTags
<1>4. \A n : BlockVar(<<"Label", n>>)
  BY DEF BlockVar, BlockTags
<1>5. \A s, t : BlockVar(<<"Hash", s, t>>)
  BY DEF BlockVar, BlockTags
<1>6. ASSUME NEW v, ~BlockVar(v) PROVE IsBit(Var(v))
  <2>1. IsPoly(Var(v))
    BY PolyClosed
  <2> QED
    BY <1>6, <2>1 DEF IsBit, Var
<1>7. \A p, n : IsBit(ShareBit(p, n))
  BY <1>3, <1>6 DEF ShareBit
<1> QED
  BY <1>1, <1>2, <1>3, <1>4, <1>5, <1>7, BlockClosed DEF Delta, bit0_mask, KeyOf

LEMMA PinOfVar ==
    ASSUME NEW k \in {0, 1}, NEW v, BlockVar(v)
    PROVE  Pin(k, Var(v)) = IF Contributes(k, {v}) THEN {Contribution(k, {v})} ELSE {}
BY PinOfMonomial DEF Var

LEMMA PinnedBits ==
    /\ \A p : LSB(Delta(p)) = One
    /\ LSB(bit0_mask) = One
    /\ \A p, n : LSB(KeyOf(p, n)) = Zero
    /\ LSB1(Delta(Garbler)) = One /\ LSB1(Delta(Evaluator)) = Zero
<1>1. ASSUME NEW v, BlockVar(v) PROVE BlockOf({v}) = v /\ BitsOf({v}) = {}
  <2>1. HasBlock({v}, v)
    BY <1>1 DEF HasBlock
  <2> QED
    BY <2>1, BlockOfIs
<1>2. ASSUME NEW v, BlockVar(v), v[1] \in {"Delta", "bit0_mask"} PROVE LSB(Var(v)) = One
  <2>1. Pin(0, Var(v)) = IF Contributes(0, {v}) THEN {Contribution(0, {v})} ELSE {}
    BY <1>2, PinOfVar
  <2>2. Contributes(0, {v}) /\ Contribution(0, {v}) = {}
    BY <1>1, <1>2 DEF Contributes, Contribution
  <2> QED
    BY <2>1, <2>2 DEF Pin, One
<1>3. ASSUME NEW v, BlockVar(v), v[1] \notin {"Delta", "bit0_mask"} PROVE LSB(Var(v)) = Zero
  <2>1. Pin(0, Var(v)) = IF Contributes(0, {v}) THEN {Contribution(0, {v})} ELSE {}
    BY <1>3, PinOfVar
  <2>2. ~Contributes(0, {v})
    BY <1>1, <1>3 DEF Contributes
  <2> QED
    BY <2>1, <2>2 DEF Pin, Zero
<1>4. \A p : LSB(Delta(p)) = One
  BY <1>2 DEF Delta, DeltaVar, BlockVar, BlockTags
<1>5. LSB(bit0_mask) = One
  BY <1>2 DEF bit0_mask, BlockVar, BlockTags
<1>6. \A p, n : LSB(KeyOf(p, n)) = Zero
  BY <1>3 DEF KeyOf, BlockVar, BlockTags
<1>7. LSB1(Delta(Garbler)) = One
  <2> DEFINE v == DeltaVar(Garbler)
  <2>1. BlockVar(v) /\ v # DeltaVar(Evaluator) /\ v # <<"bit0_mask">>
    BY PartyAssumption DEF DeltaVar, BlockVar, BlockTags
  <2>2. Pin(1, Var(v)) = IF Contributes(1, {v}) THEN {Contribution(1, {v})} ELSE {}
    BY <2>1, PinOfVar
  <2>3. Contributes(1, {v}) /\ Contribution(1, {v}) = {}
    <3>1. BlockOf({v}) = v /\ BitsOf({v}) = {}
      BY <1>1, <2>1, Zenon
    <3> QED
      BY <2>1, <3>1 DEF Contributes, Contribution, Bit1Of
  <2> QED
    BY <2>2, <2>3 DEF Pin, One, Delta
<1>8. LSB1(Delta(Evaluator)) = Zero
  <2> DEFINE v == DeltaVar(Evaluator)
  <2>1. BlockVar(v)
    BY DEF DeltaVar, BlockVar, BlockTags
  <2>2. Pin(1, Var(v)) = IF Contributes(1, {v}) THEN {Contribution(1, {v})} ELSE {}
    BY <2>1, PinOfVar
  <2>3. ~Contributes(1, {v})
    <3>1. BlockOf({v}) = v
      BY <1>1, <2>1, Zenon
    <3> QED
      BY <3>1 DEF Contributes
  <2> QED
    BY <2>2, <2>3 DEF Pin, Zero, Delta
<1> QED
  BY <1>4, <1>5, <1>6, <1>7, <1>8

(* LSB and LSB1 of a bit times a block.                                    *)
LEMMA LSBLaws ==
    /\ \A b, c : IsBlock(b) /\ IsBlock(c) => LSB(b ++ c) = LSB(b) ++ LSB(c)
                                             /\ LSB1(b ++ c) = LSB1(b) ++ LSB1(c)
    /\ \A x, b : IsBit(x) /\ IsBlock(b) => LSB(x ** b) = x ** LSB(b)
    /\ \A x, p : IsBit(x) => LSB(x ** Delta(p)) = x
    /\ \A x : IsBit(x) => LSB(x ** bit0_mask) = x /\ LSB1(x ** Delta(Garbler)) = x
                          /\ LSB1(x ** Delta(Evaluator)) = Zero
    /\ \A b : IsBlock(b) => IsBit(LSB(b)) /\ IsBit(LSB1(b))
    /\ LSB(Zero) = Zero
<1>1. \A b : Pin(0, b) = LSB(b) /\ Pin(1, b) = LSB1(b)
  BY DEF Pin
<1>2. \A b, c : IsBlock(b) /\ IsBlock(c) => LSB(b ++ c) = LSB(b) ++ LSB(c)
                                            /\ LSB1(b ++ c) = LSB1(b) ++ LSB1(c)
  BY <1>1, PinLinear, BlockClosed
<1>3. \A x, b : IsBit(x) /\ IsBlock(b) => LSB(x ** b) = x ** LSB(b) /\ LSB1(x ** b) = x ** LSB1(b)
  BY <1>1, PinOfProduct
<1>4. \A x : IsBit(x) => x ** One = x /\ x ** Zero = Zero
  BY AndLaws, BitClosed
<1>5. ASSUME NEW x, NEW p, IsBit(x) PROVE LSB(x ** Delta(p)) = x
  BY <1>3, <1>4, <1>5, Variables, PinnedBits
<1>6. ASSUME NEW x, IsBit(x)
      PROVE  LSB(x ** bit0_mask) = x /\ LSB1(x ** Delta(Garbler)) = x
             /\ LSB1(x ** Delta(Evaluator)) = Zero
  BY <1>3, <1>4, <1>6, Variables, PinnedBits
<1>7. \A b : IsBlock(b) => IsBit(LSB(b)) /\ IsBit(LSB1(b))
  BY <1>1, PinIsBit
<1>8. LSB(Zero) = Zero
  BY <1>1, PinZero
<1> QED
  BY <1>2, <1>3, <1>5, <1>6, <1>7, <1>8
-------------------------------------------------------------------------------
(* The hash of a block, in two parts: of the block without q's Delta, and  *)
(* the difference made by q's Delta, selected by the bit in front of it.   *)
WithDelta(b, q) == {m \in b : DeltaVar(q) \in m}
HashBase(b, q, t) == Var(<<"Hash", b \ WithDelta(b, q), t>>)
HashDiff(b, q, t) ==
    HashBase(b, q, t) ++ Var(<<"Hash", (b \ WithDelta(b, q)) \cup Delta(q), t>>)
DeltaBit(b, q) == {m \ {DeltaVar(q)} : m \in WithDelta(b, q)}

LEMMA HashParts ==
    ASSUME NEW b, NEW q, NEW t
    PROVE  HashOf(b, q, t) = HashBase(b, q, t) ++ (DeltaBit(b, q) ** HashDiff(b, q, t))
BY DEF HashOf, HashBase, HashDiff, DeltaBit, WithDelta

(* A bit times a Delta.                                                    *)
LEMMA TimesDelta ==
    ASSUME NEW x, NEW q, IsBit(x)
    PROVE  x ** Delta(q) = {s \cup {DeltaVar(q)} : s \in x}
<1> DEFINE d == {DeltaVar(q)}
           R == {s \cup d : s \in x}
<1>1. \A s \in x : DeltaVar(q) \notin s
  BY Variables DEF IsBit
<1>2. ASSUME NEW s \in x, NEW r \in x, s \cup d = r \cup d PROVE s = r
  BY <1>1, <1>2
<1>3. IsFiniteSet(x) /\ IsFiniteSet(Delta(q)) /\ Delta(q) = {d}
  BY FS_Singleton DEF IsBit, IsPoly, Delta, Var
<1> HIDE DEF d
<1>4. ASSUME NEW m PROVE m \in x ** Delta(q) <=> m \in R
  <2>1. m \in x ** Delta(q) <=> IsOdd(Pairs(x, Delta(q), m))
    BY <1>3, AndIs
  <2>2. ASSUME NEW s \in x, m = s \cup d PROVE Pairs(x, Delta(q), m) = {<<s, d>>}
    <3>1. Pairs(x, {d}, m) = {ab \in x \X {d} : ab[1] \cup ab[2] = m}
      BY DEF Pairs
    <3>2. ASSUME NEW ab PROVE ab \in Pairs(x, {d}, m) <=> ab = <<s, d>>
      <4>1. ASSUME ab \in Pairs(x, {d}, m) PROVE ab = <<s, d>>
        <5>1. PICK r \in x : ab = <<r, d>>
          BY <3>1, <4>1
        <5>2. r \cup d = s \cup d
          BY <2>2, <3>1, <4>1, <5>1
        <5> QED
          BY <1>2, <5>1, <5>2
      <4>2. <<s, d>> \in Pairs(x, {d}, m)
        BY <2>2, <3>1
      <4> QED
        BY <4>1, <4>2
    <3> QED
      BY <1>3, <3>2
  <2>3. m \notin R => Pairs(x, Delta(q), m) = {}
    BY <1>3 DEF Pairs
  <2> QED
    BY <2>1, <2>2, <2>3, OddSets
<1> QED
  BY <1>4 DEF d

(* Adding a selected Delta to a block moves the selecting bit only.        *)
LEMMA HashShift ==
    ASSUME NEW b, NEW x, NEW q, NEW t, IsBlock(b), IsBit(x)
    PROVE  /\ HashDiff(b ++ (x ** Delta(q)), q, t) = HashDiff(b, q, t)
           /\ HashOf(b ++ (x ** Delta(q)), q, t) = HashOf(b, q, t) ++ (x ** HashDiff(b, q, t))
           /\ IsBlock(HashOf(b, q, t)) /\ IsBlock(HashDiff(b, q, t))
<1> DEFINE D == DeltaVar(q)
           y == x ** Delta(q)
           c == b ++ y
           h == HashBase(b, q, t)
           e == HashDiff(b, q, t)
<1>1. y = {s \cup {D} : s \in x}
  BY TimesDelta
<1>2. \A s \in x : D \notin s
  BY Variables DEF IsBit
<1>3. \A m \in y : D \in m
  BY <1>1
<1>4. \A m : m \in c <=> ~(m \in b <=> m \in y)
  BY XorIs
<1>5. c \ WithDelta(c, q) = b \ WithDelta(b, q)
  <2> HIDE DEF y, c
  <2> QED
    BY <1>3, <1>4 DEF WithDelta
<1>6. HashBase(c, q, t) = h /\ HashDiff(c, q, t) = e
  <2> HIDE DEF c
  <2> QED
    BY <1>5 DEF HashBase, HashDiff, h, e
<1>7. DeltaBit(c, q) = DeltaBit(b, q) ++ x
  <2> HIDE DEF c, y
  <2>1. ASSUME NEW m, D \notin m
        PROVE  /\ m \in x <=> m \cup {D} \in y
               /\ \A z : m \in DeltaBit(z, q) <=> m \cup {D} \in z
    <3>1. m \in x <=> m \cup {D} \in y
      <4>1. \A s \in x : s \cup {D} = m \cup {D} => s = m
        BY <1>2, <2>1
      <4> QED
        BY <1>1, <4>1
    <3>2. ASSUME NEW z PROVE m \in DeltaBit(z, q) <=> m \cup {D} \in z
      <4>1. ASSUME NEW r \in z, D \in r, m = r \ {D} PROVE m \cup {D} = r
        BY <4>1
      <4>2. (m \cup {D}) \ {D} = m
        BY <2>1
      <4> QED
        BY <4>1, <4>2 DEF DeltaBit, WithDelta
    <3> QED
      BY <3>1, <3>2
  <2>2. ASSUME NEW z, NEW m \in DeltaBit(z, q) PROVE D \notin m
    BY DEF DeltaBit
  <2>3. ASSUME NEW m PROVE m \in DeltaBit(c, q) <=> m \in DeltaBit(b, q) ++ x
    <3>1. m \in DeltaBit(b, q) ++ x <=> ~(m \in DeltaBit(b, q) <=> m \in x)
      BY XorIs, Zenon
    <3>2. CASE D \notin m
      BY <1>4, <2>1, <3>1, <3>2
    <3>3. CASE D \in m
      BY <1>2, <2>2, <3>1, <3>3
    <3> QED
      BY <3>2, <3>3
  <2> QED
    BY <2>3
<1>8. IsBit(DeltaBit(b, q))
  <2>1. IsPoly(DeltaBit(b, q))
    <3> DEFINE f == [m \in WithDelta(b, q) |-> m \ {D}]
               T == {f[m] : m \in WithDelta(b, q)}
    <3>1. IsFiniteSet(WithDelta(b, q))
      <4>1. IsFiniteSet(b) /\ WithDelta(b, q) \in SUBSET b
        BY DEF IsBlock, IsPoly, WithDelta
      <4> QED
        BY <4>1, FS_Subset
    <3>2. DeltaBit(b, q) = T
      BY DEF DeltaBit
    <3> HIDE DEF f
    <3>3. IsFiniteSet(T)
      BY <3>1, FiniteImage, Zenon
    <3> QED
      BY <3>2, <3>3 DEF IsPoly
  <2>2. ASSUME NEW m \in DeltaBit(b, q), NEW u \in m PROVE ~BlockVar(u)
    <3>1. PICK r \in b : D \in r /\ m = r \ {D}
      BY DEF DeltaBit, WithDelta
    <3>2. PICK v : HasBlock(r, v)
      BY DEF IsBlock
    <3>3. D = v
      BY <3>1, <3>2, Variables DEF HasBlock
    <3> QED
      BY <3>1, <3>2, <3>3 DEF HasBlock
  <2> QED
    BY <2>1, <2>2 DEF IsBit
<1>9. IsBlock(h) /\ IsBlock(e)
  BY Variables, BlockClosed DEF HashBase, HashDiff
<1>10. HashOf(b, q, t) = h ++ (DeltaBit(b, q) ** e)
  BY HashParts
<1>11. HashOf(c, q, t) = h ++ ((DeltaBit(b, q) ++ x) ** e)
  <2> HIDE DEF c
  <2> QED
    BY <1>6, <1>7, HashParts
<1> HIDE DEF y, c, h, e
<1>12. (DeltaBit(b, q) ++ x) ** e = (DeltaBit(b, q) ** e) ++ (x ** e)
  BY <1>8, <1>9, Distribute, BitClosed, BlockClosed
<1>13. h ++ ((DeltaBit(b, q) ** e) ++ (x ** e)) = (h ++ (DeltaBit(b, q) ** e)) ++ (x ** e)
  BY XorIs
<1>14. IsBlock(h ++ (DeltaBit(b, q) ** e))
  BY <1>8, <1>9, BlockClosed
<1> QED
  BY <1>6, <1>9, <1>10, <1>11, <1>12, <1>13, <1>14 DEF c, y, e
-------------------------------------------------------------------------------
LEMMA Peers ==
    /\ Garbler \in Party /\ Evaluator \in Party
    /\ Peer(Garbler) = Evaluator /\ Peer(Evaluator) = Garbler
    /\ \A p \in Party : Peer(p) \in Party /\ Peer(p) # p /\ Peer(Peer(p)) = p
BY PartyAssumption DEF Party, Peer

(* Party p holds s and its peer t of one shared bit: blocks of the right   *)
(* shape, each MAC valid under the other's key.                            *)
Shared(p, s, t) ==
    /\ IsBlock(s.mac) /\ IsBlock(s.key) /\ IsBlock(t.mac) /\ IsBlock(t.key)
    /\ Authentic(p, s, t)

LEMMA SharedIs ==
    ASSUME NEW p \in Party, NEW s, NEW t
    PROVE  /\ Shared(p, s, t) <=>
                /\ IsBlock(s.mac) /\ IsBlock(s.key) /\ IsBlock(t.mac) /\ IsBlock(t.key)
                /\ s.mac = t.key ++ (LSB(s.mac) ** Delta(Peer(p))) /\ LSB(t.key) = Zero
                /\ t.mac = s.key ++ (LSB(t.mac) ** Delta(p)) /\ LSB(s.key) = Zero
           /\ Shared(p, s, t) => Shared(Peer(p), t, s)
BY Peers DEF Shared, Authentic, MacHolds

(* XORing two shared bits, and ANDing a shared bit with a public one.      *)
LEMMA SharedXor ==
    ASSUME NEW p \in Party, NEW s, NEW t, NEW u, NEW v, Shared(p, s, t), Shared(p, u, v)
    PROVE  /\ Shared(p, XorBundles(s, u), XorBundles(t, v))
           /\ LSB(XorBundles(s, u).mac) = LSB(s.mac) ++ LSB(u.mac)
           /\ LSB(XorBundles(t, v).mac) = LSB(t.mac) ++ LSB(v.mac)
<1> DEFINE a == XorBundles(s, u)
           b == XorBundles(t, v)
<1>1. a.mac = s.mac ++ u.mac /\ a.key = s.key ++ u.key
      /\ b.mac = t.mac ++ v.mac /\ b.key = t.key ++ v.key
  BY DEF XorBundles
<1> HIDE DEF a, b
<1>2. /\ IsBlock(s.mac) /\ IsBlock(s.key) /\ IsBlock(t.mac) /\ IsBlock(t.key)
      /\ IsBlock(u.mac) /\ IsBlock(u.key) /\ IsBlock(v.mac) /\ IsBlock(v.key)
  BY DEF Shared
<1>3. IsBlock(a.mac) /\ IsBlock(a.key) /\ IsBlock(b.mac) /\ IsBlock(b.key)
  BY <1>1, <1>2, BlockClosed
<1>4. /\ LSB(a.mac) = LSB(s.mac) ++ LSB(u.mac) /\ LSB(b.mac) = LSB(t.mac) ++ LSB(v.mac)
      /\ LSB(a.key) = LSB(s.key) ++ LSB(u.key) /\ LSB(b.key) = LSB(t.key) ++ LSB(v.key)
  BY <1>1, <1>2, LSBLaws
<1>5. ASSUME NEW q, NEW x, NEW y, IsBit(x), IsBit(y)
      PROVE  (x ++ y) ** Delta(q) = (x ** Delta(q)) ++ (y ** Delta(q))
  BY <1>5, Distribute, BitClosed, BlockClosed, Variables
<1>6. IsBit(LSB(s.mac)) /\ IsBit(LSB(u.mac)) /\ IsBit(LSB(t.mac)) /\ IsBit(LSB(v.mac))
  BY <1>2, LSBLaws
<1>7. \A w, x, y, z : (w ++ x) ++ (y ++ z) = (w ++ y) ++ (x ++ z)
  BY DEF ++, XorBit, SymDiff
<1>8. a.mac = b.key ++ (LSB(a.mac) ** Delta(Peer(p)))
  <2>1. s.mac = t.key ++ (LSB(s.mac) ** Delta(Peer(p)))
        /\ u.mac = v.key ++ (LSB(u.mac) ** Delta(Peer(p)))
    BY SharedIs
  <2>2. LSB(a.mac) ** Delta(Peer(p)) = (LSB(s.mac) ** Delta(Peer(p))) ++ (LSB(u.mac) ** Delta(Peer(p)))
    BY <1>4, <1>5, <1>6
  <2> DEFINE x == LSB(s.mac) ** Delta(Peer(p))
             y == LSB(u.mac) ** Delta(Peer(p))
  <2>3. s.mac = t.key ++ x /\ u.mac = v.key ++ y /\ LSB(a.mac) ** Delta(Peer(p)) = x ++ y
    BY <2>1, <2>2
  <2> HIDE DEF x, y
  <2>4. (t.key ++ x) ++ (v.key ++ y) = (t.key ++ v.key) ++ (x ++ y)
    BY <1>7
  <2> QED
    BY <1>1, <2>3, <2>4
<1>9. b.mac = a.key ++ (LSB(b.mac) ** Delta(p))
  <2>1. t.mac = s.key ++ (LSB(t.mac) ** Delta(p)) /\ v.mac = u.key ++ (LSB(v.mac) ** Delta(p))
    BY SharedIs
  <2>2. LSB(b.mac) ** Delta(p) = (LSB(t.mac) ** Delta(p)) ++ (LSB(v.mac) ** Delta(p))
    BY <1>4, <1>5, <1>6
  <2> DEFINE x == LSB(t.mac) ** Delta(p)
             y == LSB(v.mac) ** Delta(p)
  <2>3. t.mac = s.key ++ x /\ v.mac = u.key ++ y /\ LSB(b.mac) ** Delta(p) = x ++ y
    BY <2>1, <2>2
  <2> HIDE DEF x, y
  <2>4. (s.key ++ x) ++ (u.key ++ y) = (s.key ++ u.key) ++ (x ++ y)
    BY <1>7
  <2> QED
    BY <1>1, <2>3, <2>4
<1>10. LSB(a.key) = Zero /\ LSB(b.key) = Zero
  BY <1>4, SharedIs, XorIs
<1>11. Shared(p, a, b)
  BY <1>3, <1>8, <1>9, <1>10, SharedIs
<1> QED
  BY <1>4, <1>11 DEF a, b

LEMMA SharedAnd ==
    ASSUME NEW p \in Party, NEW s, NEW t, NEW d, Shared(p, s, t), IsBit(d)
    PROVE  /\ Shared(p, AndBundle(d, s), AndBundle(d, t))
           /\ LSB(AndBundle(d, s).mac) = d ** LSB(s.mac)
           /\ LSB(AndBundle(d, t).mac) = d ** LSB(t.mac)
<1> DEFINE a == AndBundle(d, s)
           b == AndBundle(d, t)
<1>1. a.mac = d ** s.mac /\ a.key = d ** s.key /\ b.mac = d ** t.mac /\ b.key = d ** t.key
  BY DEF AndBundle
<1> HIDE DEF a, b
<1>2. IsBlock(s.mac) /\ IsBlock(s.key) /\ IsBlock(t.mac) /\ IsBlock(t.key)
  BY DEF Shared
<1>3. IsBlock(a.mac) /\ IsBlock(a.key) /\ IsBlock(b.mac) /\ IsBlock(b.key)
  BY <1>1, <1>2, BlockClosed
<1>4. /\ LSB(a.mac) = d ** LSB(s.mac) /\ LSB(b.mac) = d ** LSB(t.mac)
      /\ LSB(a.key) = d ** LSB(s.key) /\ LSB(b.key) = d ** LSB(t.key)
  BY <1>1, <1>2, LSBLaws
<1>5. ASSUME NEW q, NEW x, NEW k, IsBit(x), IsBlock(k)
      PROVE  d ** (k ++ (x ** Delta(q))) = (d ** k) ++ ((d ** x) ** Delta(q))
  <2>1. IsPoly(d) /\ IsPoly(x) /\ IsPoly(k) /\ IsPoly(Delta(q)) /\ IsPoly(x ** Delta(q))
    BY <1>5, BitClosed, BlockClosed, Variables, PolyClosed
  <2>2. d ** (k ++ (x ** Delta(q))) = (d ** k) ++ (d ** (x ** Delta(q)))
    BY <2>1, Distribute
  <2>3. (d ** x) ** Delta(q) = d ** (x ** Delta(q))
    BY <2>1, AndLaws
  <2> QED
    BY <2>2, <2>3
<1>6. IsBit(LSB(s.mac)) /\ IsBit(LSB(t.mac))
  BY <1>2, LSBLaws
<1>7. a.mac = b.key ++ (LSB(a.mac) ** Delta(Peer(p)))
  <2>1. s.mac = t.key ++ (LSB(s.mac) ** Delta(Peer(p)))
    BY SharedIs
  <2>2. d ** (t.key ++ (LSB(s.mac) ** Delta(Peer(p)))) = (d ** t.key) ++ ((d ** LSB(s.mac)) ** Delta(Peer(p)))
    BY <1>2, <1>5, <1>6
  <2> QED
    BY <1>1, <1>4, <2>1, <2>2
<1>8. b.mac = a.key ++ (LSB(b.mac) ** Delta(p))
  <2>1. t.mac = s.key ++ (LSB(t.mac) ** Delta(p))
    BY SharedIs
  <2>2. d ** (s.key ++ (LSB(t.mac) ** Delta(p))) = (d ** s.key) ++ ((d ** LSB(t.mac)) ** Delta(p))
    BY <1>2, <1>5, <1>6
  <2> QED
    BY <1>1, <1>4, <2>1, <2>2
<1>9. LSB(a.key) = Zero /\ LSB(b.key) = Zero
  BY <1>4, SharedIs, AndLaws, BitClosed
<1>10. Shared(p, a, b)
  BY <1>3, <1>7, <1>8, <1>9, SharedIs
<1> QED
  BY <1>4, <1>10 DEF a, b
-------------------------------------------------------------------------------
(* A share whose MAC is built from a key and a bit.                        *)
LEMMA SharedBuilt ==
    ASSUME NEW p \in Party, NEW s, NEW t, NEW x, NEW y, IsBit(x), IsBit(y),
           IsBlock(s.key), IsBlock(t.key), LSB(s.key) = Zero, LSB(t.key) = Zero,
           s.mac = t.key ++ (x ** Delta(Peer(p))), t.mac = s.key ++ (y ** Delta(p))
    PROVE  /\ Shared(p, s, t) /\ LSB(s.mac) = x /\ LSB(t.mac) = y
           /\ IsBlock(s.mac) /\ IsBlock(t.mac)
<1>1. IsBlock(x ** Delta(Peer(p))) /\ IsBlock(y ** Delta(p))
  BY Variables, BlockClosed
<1>2. IsBlock(s.mac) /\ IsBlock(t.mac)
  BY <1>1, BlockClosed
<1>3. LSB(s.mac) = x /\ LSB(t.mac) = y
  <2>1. LSB(s.mac) = LSB(t.key) ++ LSB(x ** Delta(Peer(p)))
    BY <1>1, LSBLaws
  <2>2. LSB(t.mac) = LSB(s.key) ++ LSB(y ** Delta(p))
    BY <1>1, LSBLaws
  <2>3. LSB(x ** Delta(Peer(p))) = x /\ LSB(y ** Delta(p)) = y
    BY LSBLaws
  <2> QED
    BY <2>1, <2>2, <2>3, XorIs
<1> QED
  BY <1>2, <1>3, SharedIs

(* Draw n of the COT session, at both parties.                             *)
LEMMA CotShared ==
    ASSUME NEW p \in Party, NEW n
    PROVE  Shared(p, CotShare(p, n), CotShare(Peer(p), n))
<1> DEFINE s == CotShare(p, n)
           t == CotShare(Peer(p), n)
<1>1. s.key = KeyOf(p, n) /\ t.key = KeyOf(Peer(p), n)
  BY DEF CotShare
<1>2. s.mac = t.key ++ (ShareBit(p, n) ** Delta(Peer(p)))
  BY DEF CotShare
<1>3. t.mac = s.key ++ (ShareBit(Peer(p), n) ** Delta(p))
  BY Peers DEF CotShare
<1>4. /\ IsBlock(s.key) /\ IsBlock(t.key) /\ LSB(s.key) = Zero /\ LSB(t.key) = Zero
      /\ IsBit(ShareBit(p, n)) /\ IsBit(ShareBit(Peer(p), n))
  BY <1>1, Variables, PinnedBits
<1> HIDE DEF s, t
<1>5. Shared(p, s, t)
  BY <1>2, <1>3, <1>4, SharedBuilt
<1> QED
  BY <1>5 DEF s, t

(* The share bits, and the keys, of a set of draws.                        *)
BitsOfDraws(p, D) == {{<<"x", p, n>>} : n \in D}
KeysOfDraws(p, D) == {{<<"Key", p, n>>} : n \in D}

LEMMA DrawsAre ==
    ASSUME NEW p, NEW D, IsFiniteSet(D)
    PROVE  /\ IsBit(BitsOfDraws(p, D)) /\ IsBlock(KeysOfDraws(p, D))
           /\ LSB(KeysOfDraws(p, D)) = Zero
<1> DEFINE f == [n \in D |-> {<<"x", p, n>>}]
           g == [n \in D |-> {<<"Key", p, n>>}]
<1>1. IsPoly(BitsOfDraws(p, D)) /\ IsPoly(KeysOfDraws(p, D))
  <2>1. BitsOfDraws(p, D) = {f[n] : n \in D} /\ KeysOfDraws(p, D) = {g[n] : n \in D}
    BY DEF BitsOfDraws, KeysOfDraws
  <2> HIDE DEF f, g
  <2>2. IsFiniteSet({f[n] : n \in D}) /\ IsFiniteSet({g[n] : n \in D})
    BY FiniteImage, Zenon
  <2> QED
    BY <2>1, <2>2 DEF IsPoly
<1>2. \A n : ~BlockVar(<<"x", p, n>>) /\ BlockVar(<<"Key", p, n>>)
  BY DEF BlockVar, BlockTags
<1>3. IsBit(BitsOfDraws(p, D))
  BY <1>1, <1>2 DEF IsBit, BitsOfDraws
<1>4. ASSUME NEW m \in KeysOfDraws(p, D)
      PROVE  \E v : HasBlock(m, v) /\ v[1] = "Key"
  <2>1. PICK n \in D : m = {<<"Key", p, n>>}
    BY DEF KeysOfDraws
  <2>2. HasBlock(m, <<"Key", p, n>>)
    BY <1>2, <2>1 DEF HasBlock
  <2> QED
    BY <2>2
<1>5. IsBlock(KeysOfDraws(p, D))
  BY <1>1, <1>4 DEF IsBlock
<1>6. ASSUME NEW y PROVE y \notin LSB(KeysOfDraws(p, D))
  <2>1. PinFrom(0, KeysOfDraws(p, D), y) = {}
    <3>1. ASSUME NEW m \in KeysOfDraws(p, D) PROVE ~Contributes(0, m)
      <4>1. PICK v : HasBlock(m, v) /\ v[1] = "Key"
        BY <1>4
      <4>2. BlockOf(m) = v
        BY <4>1, BlockOfIs
      <4> QED
        BY <4>1, <4>2 DEF Contributes
    <3> QED
      BY <3>1 DEF PinFrom
  <2>2. y \in Pin(0, KeysOfDraws(p, D)) <=> IsOdd(PinFrom(0, KeysOfDraws(p, D), y))
    BY PinIs
  <2> QED
    BY <2>1, <2>2, OddSets DEF Pin
<1> QED
  BY <1>3, <1>5, <1>6 DEF Zero

(* The share of a wire: keys of the draws, and MACs on their bits.         *)
LEMMA WireShareIs ==
    ASSUME NEW p \in Party, NEW D, IsFiniteSet(D)
    PROVE  /\ WireShare(p, D).key = KeysOfDraws(p, D)
           /\ WireShare(p, D).mac = KeysOfDraws(Peer(p), D) ++ (BitsOfDraws(p, D) ** Delta(Peer(p)))
<1> DEFINE q == Peer(p)
           K == KeysOfDraws(q, D)
           X == {s \cup {DeltaVar(q)} : s \in BitsOfDraws(p, D)}
           mac(n) == KeyOf(q, n) ++ (ShareBit(p, n) ** Delta(q))
<1>1. WireShare(p, D).key = KeysOfDraws(p, D)
  BY DEF WireShare, CotShare, KeysOfDraws, KeyOf, Var
<1>2. BitsOfDraws(p, D) ** Delta(q) = X
  BY DrawsAre, TimesDelta
<1>3. ASSUME NEW n PROVE mac(n) = {{<<"Key", q, n>>}, {<<"x", p, n>>, DeltaVar(q)}}
  <2>1. ShareBit(p, n) ** Delta(q) = {{<<"x", p, n>>, DeltaVar(q)}}
    <3>1. {{<<"x", p, n>>}} ** {{DeltaVar(q)}} = {{<<"x", p, n>>} \cup {DeltaVar(q)}}
      BY AndUnits
    <3> QED
      BY <3>1 DEF ShareBit, Delta, Var
  <2>2. {<<"Key", q, n>>} # {<<"x", p, n>>, DeltaVar(q)}
    <3>1. <<"x", p, n>> # <<"Key", q, n>>
      OBVIOUS
    <3> QED
      BY <3>1
  <2> QED
    BY <2>1, <2>2 DEF KeyOf, Var, ++, XorBit, SymDiff
<1>4. \A m \in K : m \notin X
  <2>1. ASSUME NEW n, NEW s PROVE {<<"Key", q, n>>} # s \cup {DeltaVar(q)}
    <3>1. DeltaVar(q) # <<"Key", q, n>>
      BY DEF DeltaVar
    <3> QED
      BY <3>1
  <2> QED
    BY <2>1 DEF KeysOfDraws
<1>5. K ++ X = K \cup X
  <2> HIDE DEF K, X
  <2> QED
    BY <1>4 DEF ++, XorBit, SymDiff
<1>6. WireShare(p, D).mac = UNION {mac(n) : n \in D}
  BY DEF WireShare, CotShare
<1>7. ASSUME NEW m PROVE m \in UNION {mac(n) : n \in D} <=> m \in K \cup X
  <2>1. m \in UNION {mac(n) : n \in D} <=>
          \E n \in D : m = {<<"Key", q, n>>} \/ m = {<<"x", p, n>>, DeltaVar(q)}
    <3>1. m \in UNION {mac(n) : n \in D} <=> \E n \in D : m \in mac(n)
      OBVIOUS
    <3> HIDE DEF mac
    <3> QED
      BY <1>3, <3>1
  <2>2. m \in K <=> \E n \in D : m = {<<"Key", q, n>>}
    BY DEF KeysOfDraws
  <2>3. m \in X <=> \E n \in D : m = {<<"x", p, n>>, DeltaVar(q)}
    <3>1. \A n : {<<"x", p, n>>} \cup {DeltaVar(q)} = {<<"x", p, n>>, DeltaVar(q)}
      OBVIOUS
    <3>2. m \in X <=> \E n \in D : m = {<<"x", p, n>>} \cup {DeltaVar(q)}
      BY DEF BitsOfDraws
    <3> QED
      BY <3>1, <3>2
  <2> QED
    BY <2>1, <2>2, <2>3
<1> QED
  BY <1>1, <1>2, <1>5, <1>6, <1>7

(* The shares of a wire at the two parties, and its mask.                  *)
LEMMA WireShared ==
    ASSUME NEW p \in Party, NEW D, IsFiniteSet(D)
    PROVE  /\ Shared(p, WireShare(p, D), WireShare(Peer(p), D))
           /\ LSB(WireShare(p, D).mac) = BitsOfDraws(p, D)
<1> DEFINE s == WireShare(p, D)
           t == WireShare(Peer(p), D)
           x == BitsOfDraws(p, D)
           y == BitsOfDraws(Peer(p), D)
<1>1. s.key = KeysOfDraws(p, D) /\ t.key = KeysOfDraws(Peer(p), D)
      /\ s.mac = KeysOfDraws(Peer(p), D) ++ (x ** Delta(Peer(p)))
      /\ t.mac = KeysOfDraws(p, D) ++ (y ** Delta(p))
  BY WireShareIs, Peers
<1>2. /\ IsBit(x) /\ IsBit(y) /\ IsBlock(s.key) /\ IsBlock(t.key)
      /\ LSB(s.key) = Zero /\ LSB(t.key) = Zero
  BY <1>1, DrawsAre
<1> HIDE DEF s, t, x, y
<1>3. s.mac = t.key ++ (x ** Delta(Peer(p))) /\ t.mac = s.key ++ (y ** Delta(p))
  BY <1>1
<1>4. Shared(p, s, t) /\ LSB(s.mac) = x
  BY <1>2, <1>3, SharedBuilt
<1> QED
  BY <1>4 DEF s, t, x

LEMMA MaskIs ==
    ASSUME NEW D, IsFiniteSet(D)
    PROVE  /\ MaskOf(D) = BitsOfDraws(Garbler, D) ++ BitsOfDraws(Evaluator, D)
           /\ IsBit(MaskOf(D))
<1>1. LSB(WireShare(Garbler, D).mac) = BitsOfDraws(Garbler, D)
      /\ LSB(WireShare(Evaluator, D).mac) = BitsOfDraws(Evaluator, D)
  BY Peers, WireShared
<1>2. MaskOf(D) = BitsOfDraws(Garbler, D) ++ BitsOfDraws(Evaluator, D)
  BY <1>1 DEF MaskOf, Opened
<1> QED
  BY <1>2, DrawsAre, BitClosed

(* The mask of a XOR of shares is the XOR of the masks.                    *)
LEMMA MaskOfXor ==
    ASSUME NEW D, NEW E, IsFiniteSet(D), IsFiniteSet(E)
    PROVE  MaskOf(SymDiff(D, E)) = MaskOf(D) ++ MaskOf(E)
<1>1. ASSUME NEW p PROVE BitsOfDraws(p, SymDiff(D, E)) = BitsOfDraws(p, D) ++ BitsOfDraws(p, E)
  <2>1. ASSUME NEW S, NEW n PROVE {<<"x", p, n>>} \in BitsOfDraws(p, S) <=> n \in S
    <3>1. \A k : {<<"x", p, n>>} = {<<"x", p, k>>} => n = k
      <4>1. ASSUME NEW k, {<<"x", p, n>>} = {<<"x", p, k>>} PROVE <<"x", p, n>> = <<"x", p, k>>
        BY <4>1
      <4> QED
        BY <4>1
    <3> QED
      BY <3>1 DEF BitsOfDraws
  <2>2. ASSUME NEW m
        PROVE  m \in BitsOfDraws(p, SymDiff(D, E)) <=> m \in BitsOfDraws(p, D) ++ BitsOfDraws(p, E)
    <3>1. m \in BitsOfDraws(p, D) ++ BitsOfDraws(p, E) <=>
            ~(m \in BitsOfDraws(p, D) <=> m \in BitsOfDraws(p, E))
      BY XorIs
    <3>2. CASE \E n : m = {<<"x", p, n>>}
      <4>1. PICK n : m = {<<"x", p, n>>}
        BY <3>2
      <4>2. n \in SymDiff(D, E) <=> ~(n \in D <=> n \in E)
        BY DEF SymDiff
      <4>3. /\ m \in BitsOfDraws(p, SymDiff(D, E)) <=> n \in SymDiff(D, E)
            /\ m \in BitsOfDraws(p, D) <=> n \in D
            /\ m \in BitsOfDraws(p, E) <=> n \in E
        BY <2>1, <4>1
      <4> QED
        BY <3>1, <4>2, <4>3
    <3>3. CASE ~\E n : m = {<<"x", p, n>>}
      <4>1. \A S : m \notin BitsOfDraws(p, S)
        BY <3>3 DEF BitsOfDraws
      <4> QED
        BY <3>1, <4>1
    <3> QED
      BY <3>2, <3>3
  <2> QED
    BY <2>2
<1>2. IsFiniteSet(SymDiff(D, E))
  BY OddSymDiff
<1>3. \A w, x, y, z : (w ++ x) ++ (y ++ z) = (w ++ y) ++ (x ++ z)
  BY DEF ++, XorBit, SymDiff
<1> QED
  BY <1>1, <1>2, <1>3, MaskIs
================================================================================
