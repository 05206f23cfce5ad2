------------------------------- MODULE Blocks -------------------------------
(***************************************************************************)
(* 128-bit blocks as the protocol computes with them: XORs of unknown      *)
(* blocks (keys, the parties' Deltas, labels, hash outputs), each selected *)
(* or not by a bit.  A block is a polynomial of module Bits in which every *)
(* monomial has exactly one block variable; the others are bits.  Two      *)
(* expressions are the same block for every key, Delta, label, hash        *)
(* function and share bit iff they are equal sets, and select_mask[b] & B  *)
(* is AndBit(b, B).                                                        *)
(***************************************************************************)
EXTENDS Bits, Sequences

CONSTANTS Garbler, Evaluator            \* party 1 (ALICE), party 2 (BOB)

ASSUME PartyAssumption == Garbler # Evaluator

Party == {Garbler, Evaluator}

Peer(p) == IF p = Garbler THEN Evaluator ELSE Garbler

(* XOR, and a bit times a bit or a block (the code's select_mask[b] & B).  *)
p ++ q == XorBit(p, q)

p ** q == AndBit(p, q)

DeltaVar(p) == <<"Delta", p>>
Delta(p) == Var(DeltaVar(p))
bit0_mask == Var(<<"bit0_mask">>)

BlockTags == {"Delta", "bit0_mask", "Key", "Label", "Hash"}

BlockOf(m) == CHOOSE v \in m : v[1] \in BlockTags
BitsOf(m) == {v \in m : v[1] \notin BlockTags}

(* The images under f that occur an odd number of times.                   *)
Odd(S, f(_)) == {y \in {f(m) : m \in S} : Cardinality({m \in S : f(m) = y}) % 2 = 1}

(* LSB: bit 0 is pinned, 0 in every key and 1 in every Delta.  It is only  *)
(* ever taken of MACs, which have no label and no hash in them.            *)
LSB(b) == Odd({m \in b : BlockOf(m)[1] \in {"Delta", "bit0_mask"}}, BitsOf)

(* LSB1: bit 1 is pinned to 1 in the garbler's Delta and to 0 in the       *)
(* evaluator's (init_abit_), and is arbitrary in every other block.        *)
Bit1Of(m) ==
    LET v == BlockOf(m)
    IN IF v = DeltaVar(Garbler) THEN BitsOf(m) ELSE BitsOf(m) \cup {<<"bit1", v>>}

LSB1(b) ==
    Odd({m \in b : BlockOf(m) \notin {DeltaVar(Evaluator), <<"bit0_mask">>}}, Bit1Of)

(* MITCCRH: the hash, under tweak t, of a block that is a fixed one or     *)
(* that one XOR the Delta of party q, depending on the bit in front of it. *)
HashOf(b, q, t) ==
    LET with == {m \in b : DeltaVar(q) \in m}
        base == b \ with
        h0 == Var(<<"Hash", base, t>>)
        h1 == Var(<<"Hash", base \cup Delta(q), t>>)
    IN h0 ++ ({m \ {DeltaVar(q)} : m \in with} ** (h0 ++ h1))
-----------------------------------------------------------------------------
(* Authenticated shares (AShareBundle), one bundle per party.              *)

ShareBit(p, n) == Var(<<"x", p, n>>)

KeyOf(p, n) == Var(<<"Key", p, n>>)

(* Draw n of the COT session: the MAC is on the party's own bit under the  *)
(* peer's key and Delta, the key is for the peer's bit.                    *)
CotShare(p, n) == [mac |-> KeyOf(Peer(p), n) ++ (ShareBit(p, n) ** Delta(Peer(p))),
                   key |-> KeyOf(p, n)]

XorBundles(s, t) == [mac |-> s.mac ++ t.mac, key |-> s.key ++ t.key]

AndBundle(b, s) == [mac |-> b ** s.mac, key |-> b ** s.key]

(* The share of a wire: the XOR of a set of draws, none for a constant.    *)
(* Different draws have no monomial in common, so the XOR is a union.      *)
WireShare(p, draws) == [mac |-> UNION {CotShare(p, n).mac : n \in draws},
                        key |-> UNION {CotShare(p, n).key : n \in draws}]

(* s is what party p holds and t what its peer holds of one shared bit:    *)
(* each MAC is the other's key, plus the other's Delta if the bit is 1,    *)
(* and bit 0 of a key is 0 so that bit 0 of the MAC is the share bit.      *)
MacHolds(p, s, t) == s.mac = t.key ++ (LSB(s.mac) ** Delta(Peer(p))) /\ LSB(t.key) = Zero

Authentic(p, s, t) == MacHolds(p, s, t) /\ MacHolds(Peer(p), t, s)

(* The shared bit.                                                         *)
Opened(s, t) == LSB(s.mac) ++ LSB(t.mac)

(* lambda of a wire whose share is the XOR of draws.                       *)
MaskOf(draws) == Opened(WireShare(Garbler, draws), WireShare(Evaluator, draws))
=============================================================================
