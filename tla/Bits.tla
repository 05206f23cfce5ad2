-------------------------------- MODULE Bits --------------------------------
(***************************************************************************)
(* Bits that depend on clear inputs and on random masks, as polynomials    *)
(* over GF(2) in algebraic normal form: a bit is the set of its monomials, *)
(* a monomial the set of its variables.  Equal bits are equal sets, so one *)
(* state of a model stands for every input and every outcome of the dice.  *)
(***************************************************************************)
EXTENDS Integers, FiniteSetsExt

Zero == {}
One == {{}}
Var(v) == {{v}}

XorBit(p, q) == SymDiff(p, q)

NotBit(p) == SymDiff(p, One)

AndBit(p, q) ==
    {m \in {a \cup b : a \in p, b \in q} :
       Cardinality({ab \in p \X q : ab[1] \cup ab[2] = m}) % 2 = 1}

ConstBit(v) == IF v THEN One ELSE Zero

(* The value of a bit when exactly the variables of world are 1.           *)
Holds(p, world) == Cardinality({m \in p : m \subseteq world}) % 2 = 1
==============================================================================
