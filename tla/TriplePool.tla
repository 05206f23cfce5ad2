------------------------------ MODULE TriplePool ------------------------------
(***************************************************************************)
(* compute_inplace of triple_pool.h at both parties: the leaky-AND layers, *)
(* the circular-shift bucketing, the batched F_eq and the reconciliation   *)
(* that turns the shares of the operand masks of each AND gate into a      *)
(* share of sigma = lambda_alpha AND lambda_beta.                          *)
(*                                                                         *)
(* Each party runs the same sequence of steps and exchanges one vector at  *)
(* a time; all values are the symbolic blocks of module Blocks, so one     *)
(* behaviour stands for all keys, Deltas and share bits.  The COT draws    *)
(* and the hash are ideal.  The coin of a layer is a random function of    *)
(* the transcript a party has seen: coin[t] is drawn by the first party    *)
(* that asks at transcript t.                                              *)
(***************************************************************************)
EXTENDS Duplex

CONSTANTS
    Reps,       \* requests: sequences of <<draws of lambda_alpha, draws of lambda_beta>>
    Ssp,        \* statistical security parameter
    Floor,      \* get_bucket_size treats smaller requests as this large (1024)
    Batch       \* gates per hash batch (8)

ASSUME TriplePoolAssumption ==
    /\ Ssp \in Nat /\ Floor \in Nat \ {0, 1} /\ Batch \in Nat \ {0}
    /\ \A r \in Reps :
         /\ r # <<>> /\ r \in Seq((SUBSET Nat) \X (SUBSET Nat))
         /\ \A i \in DOMAIN r : IsFiniteSet(r[i][1]) /\ IsFiniteSet(r[i][2])

VARIABLES
    rep,        \* the request
    at,         \* at[p]: the step party p is about to take
    layer,      \* layer[p]: the layer it is working on, 0 .. B-1
    acc, sac,   \* acc[p], sac[p]: a layer, regions a, b and c of L bundles
    Sout,       \* Sout[p]: S, later L, of the current layer
    held,      \* held[p]: the vector the party has sent and not yet combined
    feq,        \* feq[p]: the L-vectors put into the F_eq hash
    gid,        \* gid[p]: the next tweak of gmitc and emitc
    coin,       \* the random oracle, where it has been asked
    shifts,     \* shifts[p]: the transcripts and shifts of p's layers
    sigma       \* sigma[p]: the result
party == <<at, layer>>
buffers == <<acc, sac, Sout, held>>
vars == <<rep, party, buffers, feq, gid, comm, coin, shifts, sigma>>

L == Len(rep)
Lanes == 1 .. L

(* Bug: a layer too few when the bound is met exactly.                     *)
BucketSizeWeak(size) ==
    LET l == Max({size, Floor})
    IN CHOOSE n \in 2 .. (Ssp + 2) :
         l ^ (n - 1) >= 2 ^ Ssp /\ \A b \in 2 .. (n - 1) : l ^ (b - 1) < 2 ^ Ssp

(* get_bucket_size: the smallest n >= 2 with log2(l) * (n - 1) > ssp.      *)
get_bucket_size(size) ==
    LET l == Max({size, Floor})
    IN CHOOSE n \in 2 .. (Ssp + 2) :
         l ^ (n - 1) > 2 ^ Ssp /\ \A b \in 2 .. (n - 1) : l ^ (b - 1) <= 2 ^ Ssp

B == get_bucket_size(L)
-------------------------------------------------------------------------------
(* gen_cot_shares: draws first + 1, first + 2, ... of party p.             *)
Minted(p, first) == [i \in Lanes |-> CotShare(p, first + i)]

WireDraws == Max({0} \cup UNION UNION {{rep[i][1], rep[i][2]} : i \in Lanes})

Init ==
    /\ rep \in Reps
    /\ at = [p \in Party |-> "mint"] /\ layer = [p \in Party |-> 0]
    /\ acc = [p \in Party |-> [a |-> [i \in Lanes |-> WireShare(p, rep[i][1])],
                               b |-> [i \in Lanes |-> WireShare(p, rep[i][2])],
                               c |-> <<>>]]
    /\ sac = [p \in Party |-> <<>>] /\ Sout = [p \in Party |-> <<>>]
    /\ held = [p \in Party |-> <<>>] /\ feq = [p \in Party |-> <<>>]
    /\ gid = [p \in Party |-> 0]
    /\ CommInit
    /\ coin = <<>> /\ shifts = [p \in Party |-> <<>>]
    /\ sigma = [p \in Party |-> <<>>]

At(p, step) == at[p] = step
Goto(p, step) == at' = [at EXCEPT ![p] = step]

(* The layer a party is on: the representative, or the reused sac buffer.  *)
Current(p) == IF layer[p] = 0 THEN acc[p] ELSE sac[p]
SetCurrent(p, l) ==
    IF layer[p] = 0 THEN acc' = [acc EXCEPT ![p] = l] /\ UNCHANGED sac
                    ELSE sac' = [sac EXCEPT ![p] = l] /\ UNCHANGED acc

(* Layer 0 mints only its r; a sacrifice layer mints all three regions.    *)
Mint(p) ==
    /\ At(p, "mint")
    /\ SetCurrent(p, IF layer[p] = 0
                     THEN [acc[p] EXCEPT !.c = Minted(p, WireDraws)]
                     ELSE LET first == WireDraws + (3 * layer[p] - 2) * L
                          IN [a |-> Minted(p, first), b |-> Minted(p, first + L),
                              c |-> Minted(p, first + 2 * L)])
    /\ Goto(p, "garble")
    /\ UNCHANGED <<rep, layer, Sout, held, feq, gid, comm, coin, shifts, sigma>>
-------------------------------------------------------------------------------
(* leaky_and_halfgate.                                                     *)

(* C: the y-contribution of one party.                                     *)
CTerm(p, y) == (LSB(y.mac) ** Delta(p)) ++ y.key ++ y.mac

(* The garbler task: one ciphertext per candidate.                         *)
Ciphertext(p, x, y, t) ==
    HashOf(x.key, p, t) ++ HashOf(x.key ++ Delta(p), p, t) ++ CTerm(p, y)

Garble(p) ==
    /\ At(p, "garble")
    /\ Send(p, send_io(p), [i \in Lanes |-> Ciphertext(p, Current(p).a[i], Current(p).b[i],
                                                       gid[p] + i)])
    /\ Goto(p, "eval")
    /\ UNCHANGED <<rep, layer, buffers, feq, gid, coin, shifts, sigma>>

(* The eval task: S of one candidate, from the peer's ciphertext w.        *)
EvalS(p, x, y, r, w, t) ==
    HashOf(x.key, p, t)
    ++ HashOf(x.mac, Peer(p), t) ++ (LSB(x.mac) ** w)
    ++ r.key ++ r.mac
    ++ (LSB(x.mac) ** CTerm(p, y))
    ++ (LSB(r.mac) ** Delta(p))

(* Tweaks are used up in whole batches at both ends.                       *)
Padded == Batch * ((L + Batch - 1) \div Batch)

(* Both tasks joined; the bits s of the s-open go out.                     *)
Eval(p) ==
    /\ At(p, "eval") /\ Arrived(recv_io(p))
    /\ Sout' = [Sout EXCEPT ![p] = [i \in Lanes |->
                  EvalS(p, Current(p).a[i], Current(p).b[i], Current(p).c[i],
                        Head(wire[recv_io(p)])[i], gid[p] + i)]]
    /\ gid' = [gid EXCEPT ![p] = @ + Padded]
    /\ held' = [held EXCEPT ![p] = [i \in Lanes |-> LSB1(Sout'[p][i])]]
    /\ RecvSend(p, recv_io(p), send_io(p), held'[p])
    /\ Goto(p, "sopen")
    /\ UNCHANGED <<rep, layer, acc, sac, feq, coin, shifts, sigma>>

(* XOR the public bit d into a shared bit: the garbler flips its share     *)
(* bit, the evaluator corrects the key, keeping bit 0 of the key at 0.     *)
FoldBit(p, s, d) ==
    IF p = Garbler THEN [s EXCEPT !.mac = @ ++ (d ** bit0_mask)]
                   ELSE [s EXCEPT !.key = @ ++ (d ** (Delta(p) ++ bit0_mask))]

(* Bug: the L-vector is hashed before d is folded into it.                 *)
LVectorUnfolded(p, d) == Sout[p]

(* What a layer puts into the F_eq hash.                                   *)
LVector(p, d) == [i \in Lanes |-> Sout[p][i] ++ (d[i] ** Delta(p))]

FoldLayer(p, d) ==
    /\ SetCurrent(p, [Current(p) EXCEPT !.c = [i \in Lanes |-> FoldBit(p, @[i], d[i])]])
    /\ feq' = [feq EXCEPT ![p] = Append(@, LVector(p, d))]

(* The s-open and the fold; layer 0 goes on to the first sacrifice layer.  *)
SOpen(p) ==
    /\ At(p, "sopen") /\ Arrived(recv_io(p))
    /\ FoldLayer(p, [i \in Lanes |-> held[p][i] ++ Head(wire[recv_io(p)])[i]])
    /\ Recv(p, recv_io(p))
    /\ IF layer[p] = 0 THEN layer' = [layer EXCEPT ![p] = 1] /\ Goto(p, "mint")
                       ELSE Goto(p, "coin") /\ UNCHANGED layer
    /\ UNCHANGED <<rep, Sout, held, gid, coin, shifts, sigma>>
-------------------------------------------------------------------------------
(* layered_bucket_into_acc and bucket_one_layer.                           *)

(* The lane of the sacrifice layer that shift r brings to lane i.          *)
Src(i, r) == IF i + r <= L THEN i + r ELSE i + r - L

(* acc.a ^= layer.a and acc.c ^= layer.c.                                  *)
Absorbed(p, r) ==
    [acc[p] EXCEPT !.a = [i \in Lanes |-> XorBundles(@[i], sac[p].a[Src(i, r)])],
                   !.c = [i \in Lanes |-> XorBundles(@[i], sac[p].c[Src(i, r)])]]

(* The coin r of this layer, the local half of the combination, and the    *)
(* difference of the b-shares, which goes out.                             *)
Coin(p) ==
    /\ At(p, "coin")
    /\ \E r \in 0 .. (L - 1) :
         /\ Transcript(p) \in DOMAIN coin => r = coin[Transcript(p)]
         /\ coin' = [t \in DOMAIN coin \cup {Transcript(p)} |->
                       IF t = Transcript(p) THEN r ELSE coin[t]]
         /\ shifts' = [shifts EXCEPT ![p] = Append(@, <<Transcript(p), r>>)]
         /\ acc' = [acc EXCEPT ![p] = Absorbed(p, r)]
         /\ held' = [held EXCEPT ![p] = [i \in Lanes |->
                        LSB(acc[p].b[i].mac) ++ LSB(sac[p].b[Src(i, r)].mac)]]
    /\ Send(p, send_io(p), held'[p])
    /\ Goto(p, "bucket")
    /\ UNCHANGED <<rep, layer, sac, Sout, feq, gid, sigma>>

(* Bug: the second loop reads the sacrifice layer without the shift.       *)
CombineUnshifted(p, d, r) ==
    [acc[p] EXCEPT !.c = [i \in Lanes |-> XorBundles(@[i], AndBundle(d[i], sac[p].a[i]))]]

(* acc.c ^= layer.a * d, d the opened difference of the b's.               *)
Combine(p, d, r) ==
    [acc[p] EXCEPT !.c = [i \in Lanes |-> XorBundles(@[i], AndBundle(d[i], sac[p].a[Src(i, r)]))]]

Bucket(p) ==
    /\ At(p, "bucket") /\ Arrived(recv_io(p))
    /\ acc' = [acc EXCEPT ![p] =
                 Combine(p, [i \in Lanes |-> held[p][i] ++ Head(wire[recv_io(p)])[i]],
                         Last(shifts[p])[2])]
    /\ Recv(p, recv_io(p))
    /\ IF layer[p] < B - 1 THEN layer' = [layer EXCEPT ![p] = @ + 1] /\ Goto(p, "mint")
                           ELSE Goto(p, "feq") /\ UNCHANGED layer
    /\ UNCHANGED <<rep, sac, Sout, held, feq, gid, coin, shifts, sigma>>
-------------------------------------------------------------------------------
(* feq_check on io: the garbler commits to its digest, the evaluator sends *)
(* its own, the garbler opens.  A digest stands for what was hashed.       *)
Verdict(p, same) == Goto(p, IF same THEN "reconcile" ELSE "abort")

FeqCommit ==
    /\ At(Garbler, "feq")
    /\ Send(Garbler, "io", <<"com", feq[Garbler]>>)
    /\ Goto(Garbler, "feq_answer")
    /\ UNCHANGED <<rep, layer, buffers, feq, gid, coin, shifts, sigma>>

FeqAnswer ==
    /\ At(Evaluator, "feq") /\ Arrived("io")
    /\ RecvSend(Evaluator, "io", "io_back", feq[Evaluator])
    /\ held' = [held EXCEPT ![Evaluator] = Head(wire["io"])]
    /\ Goto(Evaluator, "feq_open")
    /\ UNCHANGED <<rep, layer, acc, sac, Sout, feq, gid, coin, shifts, sigma>>

(* The garbler opens before it compares.                                   *)
FeqOpen ==
    /\ At(Garbler, "feq_answer") /\ Arrived("io_back")
    /\ RecvSend(Garbler, "io_back", "io", feq[Garbler])
    /\ Verdict(Garbler, Head(wire["io_back"]) = feq[Garbler])
    /\ UNCHANGED <<rep, layer, buffers, feq, gid, coin, shifts, sigma>>

(* The evaluator checks the opening against the commitment, then the       *)
(* digests.                                                                *)
FeqVerify ==
    /\ At(Evaluator, "feq_open") /\ Arrived("io")
    /\ Recv(Evaluator, "io")
    /\ Verdict(Evaluator, /\ held[Evaluator] = <<"com", Head(wire["io"])>>
                          /\ Head(wire["io"]) = feq[Evaluator])
    /\ UNCHANGED <<rep, layer, buffers, feq, gid, coin, shifts, sigma>>
-------------------------------------------------------------------------------
(* The Beaver opening of xb = lambda_alpha XOR X and yb = lambda_beta XOR  *)
(* Y, where (X, Y, Z) is the triple in acc.                                *)
OpenDiff(p) ==
    [x |-> [i \in Lanes |-> LSB(WireShare(p, rep[i][1]).mac) ++ LSB(acc[p].a[i].mac)],
     y |-> [i \in Lanes |-> LSB(WireShare(p, rep[i][2]).mac) ++ LSB(acc[p].b[i].mac)]]

ReconcileSend(p) ==
    /\ At(p, "reconcile")
    /\ held' = [held EXCEPT ![p] = OpenDiff(p)]
    /\ Send(p, send_io(p), held'[p])
    /\ Goto(p, "sigma")
    /\ UNCHANGED <<rep, layer, acc, sac, Sout, feq, gid, coin, shifts, sigma>>

(* Bug: the opened xb selects the a-region.                                *)
SigmaOfSwapped(p, i, xb, yb) ==
    FoldBit(p, XorBundles(acc[p].c[i], XorBundles(AndBundle(xb, acc[p].a[i]),
                                                  AndBundle(yb, acc[p].b[i]))),
            xb ** yb)

(* sigma = Z + xb Y + yb X + xb yb.                                        *)
SigmaOf(p, i, xb, yb) ==
    FoldBit(p, XorBundles(acc[p].c[i], XorBundles(AndBundle(xb, acc[p].b[i]),
                                                  AndBundle(yb, acc[p].a[i]))),
            xb ** yb)

Reconcile(p) ==
    /\ At(p, "sigma") /\ Arrived(recv_io(p))
    /\ sigma' = [sigma EXCEPT ![p] = [i \in Lanes |->
                   SigmaOf(p, i, held[p].x[i] ++ Head(wire[recv_io(p)]).x[i],
                                 held[p].y[i] ++ Head(wire[recv_io(p)]).y[i])]]
    /\ Recv(p, recv_io(p))
    /\ Goto(p, "done")
    /\ UNCHANGED <<rep, layer, buffers, feq, gid, coin, shifts>>

Finished == (\A p \in Party : at[p] = "done") /\ UNCHANGED vars

Step(p) ==
    \/ Mint(p) \/ Garble(p) \/ Eval(p) \/ SOpen(p)
    \/ Coin(p) \/ Bucket(p)
    \/ ReconcileSend(p) \/ Reconcile(p)

Next ==
    \/ \E p \in Party : Step(p)
    \/ FeqCommit \/ FeqAnswer \/ FeqOpen \/ FeqVerify
    \/ Finished

Spec == Init /\ [][Next]_vars
-------------------------------------------------------------------------------
(* The layers that are completely in acc at a party (none while it is in   *)
(* the middle of combining one).                                           *)
InAcc(p) ==
    CASE at[p] \in {"mint", "garble", "eval", "sopen", "coin"} -> layer[p]
      [] at[p] = "bucket" -> 0
      [] OTHER -> B

IsTriple(s, t, i) ==
    /\ \A g \in {"a", "b", "c"} : Authentic(Garbler, s[g][i], t[g][i])
    /\ Opened(s.c[i], t.c[i]) = Opened(s.a[i], t.a[i]) ** Opened(s.b[i], t.b[i])

(* After every s-open and after every combined layer, for every sequence   *)
(* of shifts, each lane holds a triple with authentic shares: one party    *)
(* corrects its MAC and the other its key, each on its own, bit 0 of the   *)
(* keys stays 0, and both loops of bucket_one_layer meet in the same lane. *)
TriplesAuthentic ==
    /\ InAcc(Garbler) = InAcc(Evaluator) /\ InAcc(Garbler) > 0
         => \A i \in Lanes : IsTriple(acc[Garbler], acc[Evaluator], i)
    /\ (\A p \in Party : at[p] \in {"coin", "bucket"}) /\ layer[Garbler] = layer[Evaluator]
         => \A i \in Lanes : IsTriple(sac[Garbler], sac[Evaluator], i)

(* The L-vectors of two parties that follow the protocol are equal layer   *)
(* by layer, so the batched F_eq never aborts an honest run.               *)
FeqAgrees ==
    /\ \A k \in DOMAIN feq[Garbler] \cap DOMAIN feq[Evaluator] :
         feq[Garbler][k] = feq[Evaluator][k]
    /\ \A p \in Party : at[p] # "abort"

(* Both parties take the shift of a layer at the same point of the         *)
(* transcript, whatever order their messages were sent and read in, so     *)
(* they use the same shift; and no two layers take it at the same point.   *)
CoinsAgree ==
    /\ \A k \in DOMAIN shifts[Garbler] \cap DOMAIN shifts[Evaluator] :
         shifts[Garbler][k] = shifts[Evaluator][k]
    /\ \A p \in Party : IsInjective([k \in DOMAIN shifts[p] |-> shifts[p][k][1]])

(* A finished request has folded enough layers for its size (counted as    *)
(* at least Floor), and one layer less would not have been enough.         *)
BucketBound ==
    \A p \in Party : at[p] = "done" =>
      LET l == Max({L, Floor}) n == Len(shifts[p])
      IN l ^ n > 2 ^ Ssp /\ (n > 1 => l ^ (n - 1) <= 2 ^ Ssp)

(* sigma[i] is an authentic share of the AND of the masks of gate i's own  *)
(* operands: also when both operands are one wire, XORs of wires, or a     *)
(* constant, whose share is zero.                                          *)
SigmaCorrect ==
    (\A p \in Party : at[p] = "done") =>
      \A i \in Lanes :
        /\ Authentic(Garbler, sigma[Garbler][i], sigma[Evaluator][i])
        /\ Opened(sigma[Garbler][i], sigma[Evaluator][i])
             = MaskOf(rep[i][1]) ** MaskOf(rep[i][2])
===============================================================================
