--------------------------- MODULE TriplePool_proofs ---------------------------
(***************************************************************************)
(* Proofs about TriplePool, for every request, security parameter and      *)
(* batch size, and every order of the two parties' steps: the parties take *)
(* the coin of each layer at the same point of the transcript; the layers  *)
(* folded are enough for the size of the request; the vectors F_eq         *)
(* compares are equal; every combined lane is an authentic triple; and the *)
(* result of each gate is an authentic share of the AND of its operands'   *)
(* masks.                                                                  *)
(***************************************************************************)
EXTENDS TriplePool, Blocks_proofs, SequenceTheorems

(* The steps of the bucketing loop, and those after it.                    *)
Looping == {"mint", "garble", "eval", "sopen", "coin", "bucket"}
After   == {"feq", "feq_answer", "feq_open", "reconcile", "sigma", "done", "abort"}

(* Vectors a party has sent (and read) when it starts on layer k: two each   *)
(* for the leaky AND of a layer, one for the combination of all but one.   *)
Before(k) == IF k = 0 THEN 0 ELSE 3 * k - 1

(* Vectors sent and read by a party that is about to take step a of layer  *)
(* k, and the layers whose shift it has taken.                             *)
Sent(a, k) ==
    CASE a = "eval"              -> Before(k) + 1
      [] a \in {"sopen", "coin"} -> Before(k) + 2
      [] a = "bucket"            -> Before(k) + 3
      [] OTHER                   -> Before(k)

Read(a, k) ==
    CASE a = "sopen"              -> Before(k) + 1
      [] a \in {"coin", "bucket"} -> Before(k) + 2
      [] OTHER                    -> Before(k)

Shifted(a, k) == IF a = "bucket" THEN k ELSE IF k = 0 THEN 0 ELSE k - 1

(* The transcript of a party that has sent s and read r vectors.           *)
Digest(p, s, r) ==
    [c \in Channel |-> IF c = send_io(p) THEN s ELSE IF c = recv_io(p) THEN r ELSE 0]

(* The point of the transcript at which layer k takes its coin.            *)
Point(k) == [c \in Channel |-> IF c = "io_back" THEN 0 ELSE 3 * k + 1]

PoolTypes ==
    /\ at \in [Party -> Looping \cup After] /\ layer \in [Party -> Nat]
    /\ seen \in [Party -> [Channel -> Nat]]
    /\ shifts \in [Party -> Seq([Channel -> Nat] \X Int)]

PartyInv(p) ==
    /\ at[p] \in {"coin", "bucket"} => layer[p] # 0
    /\ at[p] \in Looping => /\ seen[p] = Digest(p, Sent(at[p], layer[p]), Read(at[p], layer[p]))
                            /\ Len(shifts[p]) = Shifted(at[p], layer[p])
    /\ \A k \in 1 .. Len(shifts[p]) :
         Point(k) \in DOMAIN coin /\ shifts[p][k] = <<Point(k), coin[Point(k)]>>

CoinInv == PoolTypes /\ \A p \in Party : PartyInv(p)
-------------------------------------------------------------------------------
(* The two directions of an exchange are different channels.               *)
LEMMA Directions ==
    ASSUME NEW p \in Party
    PROVE  /\ send_io(p) \in Channel /\ recv_io(p) \in Channel
           /\ send_io(p) # recv_io(p) /\ {send_io(p), recv_io(p)} = {"io", "sib"}
BY PartyAssumption DEF Party, Peer, send_io, recv_io, Channel

(* Equal counts on both sockets are the same transcript at either party.   *)
LEMMA DigestPoint ==
    ASSUME NEW p \in Party, NEW k
    PROVE  Digest(p, 3 * k + 1, 3 * k + 1) = Point(k)
BY Directions DEF Digest, Point, Channel

(* No two layers take their shift at the same point.                       *)
LEMMA PointInjective ==
    ASSUME NEW j \in Nat, NEW k \in Nat, Point(j) = Point(k)
    PROVE  j = k
<1>1. Point(j)["io"] = 3 * j + 1 /\ Point(k)["io"] = 3 * k + 1
  BY DEF Point, Channel
<1> QED
  BY <1>1

(* Sending, reading, and doing both, advance the digest of one party.      *)
LEMMA Exchanged ==
    ASSUME PoolTypes, NEW p \in Party, NEW s \in Nat, NEW r \in Nat, NEW msg,
           seen[p] = Digest(p, s, r)
    PROVE  /\ Send(p, send_io(p), msg) =>
                seen' = [seen EXCEPT ![p] = Digest(p, s + 1, r)]
           /\ Recv(p, recv_io(p)) =>
                seen' = [seen EXCEPT ![p] = Digest(p, s, r + 1)]
           /\ RecvSend(p, recv_io(p), send_io(p), msg) =>
                seen' = [seen EXCEPT ![p] = Digest(p, s + 1, r + 1)]
<1> DEFINE o == send_io(p)
           i == recv_io(p)
<1>1. o \in Channel /\ i \in Channel /\ o # i
  BY Directions
<1>2. seen \in [Party -> [Channel -> Nat]]
  BY DEF PoolTypes
<1> HIDE DEF o, i
<1>3. /\ [Digest(p, s, r) EXCEPT ![o] = @ + 1] = Digest(p, s + 1, r)
      /\ [Digest(p, s, r) EXCEPT ![i] = @ + 1] = Digest(p, s, r + 1)
      /\ [Digest(p, s, r) EXCEPT ![i] = @ + 1, ![o] = @ + 1] = Digest(p, s + 1, r + 1)
  <2>1. \A a, b : Digest(p, a, b) =
          [c \in Channel |-> IF c = o THEN a ELSE IF c = i THEN b ELSE 0]
    BY DEF Digest, o, i
  <2>2. [Digest(p, s, r) EXCEPT ![o] = @ + 1] = Digest(p, s + 1, r)
    BY <1>1, <2>1
  <2>3. [Digest(p, s, r) EXCEPT ![i] = @ + 1] = Digest(p, s, r + 1)
    BY <1>1, <2>1
  <2>4. [Digest(p, s, r) EXCEPT ![i] = @ + 1, ![o] = @ + 1] = Digest(p, s + 1, r + 1)
    BY <1>1, <2>1
  <2> QED
    BY <2>2, <2>3, <2>4
<1>4. ASSUME Send(p, o, msg) PROVE seen' = [seen EXCEPT ![p] = Digest(p, s + 1, r)]
  BY <1>2, <1>3, <1>4 DEF Send
<1>5. ASSUME Recv(p, i) PROVE seen' = [seen EXCEPT ![p] = Digest(p, s, r + 1)]
  BY <1>2, <1>3, <1>5 DEF Recv
<1>6. ASSUME RecvSend(p, i, o, msg)
      PROVE  seen' = [seen EXCEPT ![p] = Digest(p, s + 1, r + 1)]
  BY <1>1, <1>2, <1>3, <1>6 DEF RecvSend
<1> QED
  BY <1>4, <1>5, <1>6 DEF o, i

(* A digest is a count per channel.                                        *)
LEMMA DigestType ==
    ASSUME NEW p \in Party, NEW s \in Nat, NEW r \in Nat
    PROVE  Digest(p, s, r) \in [Channel -> Nat]
BY DEF Digest

(* A step of party p that takes no coin, to step a of layer l with digest  *)
(* d, keeps the invariant if these fit together.                           *)
LEMMA Moved ==
    ASSUME CoinInv, NEW p \in Party,
           NEW a \in Looping \cup After, NEW l \in Nat, NEW d \in [Channel -> Nat],
           at' = [at EXCEPT ![p] = a], layer' = [layer EXCEPT ![p] = l],
           seen' = [seen EXCEPT ![p] = d], UNCHANGED <<coin, shifts>>,
           a \in {"coin", "bucket"} => l # 0,
           a \in Looping => d = Digest(p, Sent(a, l), Read(a, l))
                            /\ Len(shifts[p]) = Shifted(a, l)
    PROVE  CoinInv'
<1>1. PoolTypes'
  BY DEF CoinInv, PoolTypes
<1>2. at'[p] = a /\ layer'[p] = l /\ seen'[p] = d
  BY DEF CoinInv, PoolTypes
<1>3. ASSUME NEW q \in Party, q # p
      PROVE  at'[q] = at[q] /\ layer'[q] = layer[q] /\ seen'[q] = seen[q]
  BY <1>3 DEF CoinInv, PoolTypes
<1>4. ASSUME NEW q \in Party PROVE PartyInv(q)'
  <2>1. PartyInv(q)
    BY DEF CoinInv
  <2>2. CASE q = p
    BY <1>2, <2>1, <2>2 DEF PartyInv
  <2>3. CASE q # p
    BY <1>3, <2>1, <2>3 DEF PartyInv
  <2> QED
    BY <2>2, <2>3
<1> QED
  BY <1>1, <1>4 DEF CoinInv

(* A step after the loop touches no coin and no layer.                     *)
LEMMA MovedAfter ==
    ASSUME CoinInv, NEW p \in Party, NEW a \in After, Goto(p, a),
           UNCHANGED <<layer, coin, shifts>>,
           NEW d \in [Channel -> Nat], seen' = [seen EXCEPT ![p] = d]
    PROVE  CoinInv'
<1>1. layer[p] \in Nat /\ layer' = [layer EXCEPT ![p] = layer[p]]
  BY DEF CoinInv, PoolTypes
<1>2. at' = [at EXCEPT ![p] = a] /\ a \notin Looping /\ a \notin {"coin", "bucket"}
  BY DEF Goto, Looping, After
<1> QED
  BY <1>1, <1>2, Moved

(* The digests of two channels stay counts.                                *)
LEMMA CountsUp ==
    ASSUME PoolTypes, NEW p \in Party, NEW c \in Channel, NEW e \in Channel, NEW msg,
           c # e, Send(p, c, msg) \/ Recv(p, c) \/ RecvSend(p, c, e, msg)
    PROVE  \E d \in [Channel -> Nat] : seen' = [seen EXCEPT ![p] = d]
<1>1. seen[p] \in [Channel -> Nat] /\ seen \in [Party -> [Channel -> Nat]]
  BY DEF PoolTypes
<1>2. CASE Send(p, c, msg) \/ Recv(p, c)
  <2>1. [seen[p] EXCEPT ![c] = @ + 1] \in [Channel -> Nat]
    BY <1>1
  <2>2. seen' = [seen EXCEPT ![p] = [seen[p] EXCEPT ![c] = @ + 1]]
    BY <1>1, <1>2 DEF Send, Recv
  <2> QED
    BY <2>1, <2>2
<1>3. CASE RecvSend(p, c, e, msg)
  <2>1. [seen[p] EXCEPT ![c] = @ + 1, ![e] = @ + 1] \in [Channel -> Nat]
    BY <1>1
  <2>2. seen' = [seen EXCEPT ![p] = [seen[p] EXCEPT ![c] = @ + 1, ![e] = @ + 1]]
    BY <1>1, <1>3 DEF RecvSend
  <2> QED
    BY <2>1, <2>2
<1> QED
  BY <1>2, <1>3

(* The coin of layer k: both parties have the same transcript when they    *)
(* get to it, and a transcript that was asked before keeps its answer.     *)
LEMMA CoinStep ==
    ASSUME CoinInv, NEW p \in Party, Coin(p)
    PROVE  CoinInv'
<1> DEFINE k == layer[p]
<1>1. /\ PoolTypes /\ PartyInv(p) /\ at[p] = "coin" /\ k \in Nat \ {0}
      /\ seen[p] = Digest(p, 3 * k + 1, 3 * k + 1) /\ Len(shifts[p]) = k - 1
  <2>1. PoolTypes /\ PartyInv(p) /\ at[p] = "coin" /\ k \in Nat \ {0}
    BY DEF CoinInv, PoolTypes, PartyInv, Coin, At
  <2>2. Sent("coin", k) = 3 * k + 1 /\ Read("coin", k) = 3 * k + 1 /\ Shifted("coin", k) = k - 1
    BY <2>1 DEF Sent, Read, Before, Shifted
  <2> QED
    BY <2>1, <2>2 DEF PartyInv, Looping
<1>2. Transcript(p) = Point(k)
  BY <1>1, DigestPoint DEF Transcript
<1>3. PICK r \in 0 .. (L - 1) :
        /\ Point(k) \in DOMAIN coin => r = coin[Point(k)]
        /\ coin' = [t \in DOMAIN coin \cup {Point(k)} |-> IF t = Point(k) THEN r ELSE coin[t]]
        /\ shifts' = [shifts EXCEPT ![p] = Append(@, <<Point(k), r>>)]
  <2>1. \E r \in 0 .. (L - 1) :
          /\ Transcript(p) \in DOMAIN coin => r = coin[Transcript(p)]
          /\ coin' = [t \in DOMAIN coin \cup {Transcript(p)} |->
                        IF t = Transcript(p) THEN r ELSE coin[t]]
          /\ shifts' = [shifts EXCEPT ![p] = Append(@, <<Transcript(p), r>>)]
    BY DEF Coin
  <2> QED
    BY <1>2, <2>1
<1>4. /\ seen' = [seen EXCEPT ![p] = Digest(p, 3 * k + 2, 3 * k + 1)]
      /\ at' = [at EXCEPT ![p] = "bucket"] /\ UNCHANGED layer
  <2>1. Send(p, send_io(p), held'[p]) /\ Goto(p, "bucket") /\ UNCHANGED layer
    BY DEF Coin
  <2>2. 3 * k + 1 \in Nat /\ (3 * k + 1) + 1 = 3 * k + 2
    BY <1>1
  <2> QED
    BY <1>1, <2>1, <2>2, Exchanged DEF Goto
<1>5. /\ \A t \in DOMAIN coin : t \in DOMAIN coin' /\ coin'[t] = coin[t]
      /\ Point(k) \in DOMAIN coin' /\ coin'[Point(k)] = r
  BY <1>3
<1>6. /\ shifts'[p] = Append(shifts[p], <<Point(k), r>>)
      /\ <<Point(k), r>> \in [Channel -> Nat] \X Int
      /\ shifts[p] \in Seq([Channel -> Nat] \X Int)
  <2>1. Point(k) \in [Channel -> Nat]
    BY <1>1 DEF Point
  <2>2. r \in Int
    BY <1>3
  <2> QED
    BY <1>1, <1>3, <2>1, <2>2 DEF PoolTypes
<1>7. /\ Len(shifts'[p]) = k
      /\ \A j \in 1 .. (k - 1) : shifts'[p][j] = shifts[p][j]
      /\ shifts'[p][k] = <<Point(k), r>>
      /\ shifts'[p] \in Seq([Channel -> Nat] \X Int)
  <2>1. k \in Nat /\ (k - 1) + 1 = k
    BY <1>1
  <2> HIDE DEF k
  <2> QED
    BY <1>1, <1>6, <2>1, AppendProperties
<1>8. PoolTypes'
  <2>1. Digest(p, 3 * k + 2, 3 * k + 1) \in [Channel -> Nat]
    <3>1. 3 * k + 2 \in Nat /\ 3 * k + 1 \in Nat
      BY <1>1
    <3> QED
      BY <3>1, DigestType
  <2>2. at' \in [Party -> Looping \cup After] /\ layer' \in [Party -> Nat]
    BY <1>1, <1>4 DEF PoolTypes, Looping
  <2>3. seen' \in [Party -> [Channel -> Nat]]
    BY <1>1, <1>4, <2>1 DEF PoolTypes
  <2>4. shifts' \in [Party -> Seq([Channel -> Nat] \X Int)]
    BY <1>1, <1>3, <1>6, <1>7 DEF PoolTypes
  <2> QED
    BY <2>2, <2>3, <2>4 DEF PoolTypes
<1>9. PartyInv(p)'
  <2>1. at'[p] = "bucket" /\ layer'[p] = k /\ seen'[p] = Digest(p, 3 * k + 2, 3 * k + 1)
    BY <1>1, <1>4 DEF PoolTypes
  <2>2. Sent("bucket", k) = 3 * k + 2 /\ Read("bucket", k) = 3 * k + 1 /\ Shifted("bucket", k) = k
    BY <1>1 DEF Sent, Read, Before, Shifted
  <2>3. ASSUME NEW j \in 1 .. k
        PROVE  Point(j) \in DOMAIN coin' /\ shifts'[p][j] = <<Point(j), coin'[Point(j)]>>
    <3>1. CASE j = k
      BY <1>5, <1>7, <3>1
    <3>2. CASE j \in 1 .. (k - 1)
      BY <1>1, <1>5, <1>7, <3>2 DEF PartyInv
    <3>3. j = k \/ j \in 1 .. (k - 1)
      BY <1>1
    <3> QED
      BY <3>1, <3>2, <3>3
  <2> QED
    BY <1>1, <1>7, <2>1, <2>2, <2>3 DEF PartyInv
<1>10. ASSUME NEW q \in Party, q # p PROVE PartyInv(q)'
  <2>1. /\ at'[q] = at[q] /\ layer'[q] = layer[q] /\ seen'[q] = seen[q]
        /\ shifts'[q] = shifts[q]
    BY <1>1, <1>3, <1>4, <1>10 DEF PoolTypes
  <2>2. PartyInv(q)
    BY DEF CoinInv
  <2> QED
    BY <1>5, <2>1, <2>2 DEF PartyInv
<1> QED
  BY <1>8, <1>9, <1>10 DEF CoinInv

(* The first step of both parties.                                         *)
LEMMA InitCoinInv == Init => CoinInv
<1> SUFFICES ASSUME Init PROVE CoinInv
  OBVIOUS
<1>1. PoolTypes
  BY DEF Init, CommInit, PoolTypes, Looping
<1>2. ASSUME NEW p \in Party PROVE PartyInv(p)
  <2>1. /\ at[p] = "mint" /\ layer[p] = 0 /\ shifts[p] = <<>>
        /\ seen[p] = [c \in Channel |-> 0]
    BY DEF Init, CommInit
  <2>2. Sent("mint", 0) = 0 /\ Read("mint", 0) = 0 /\ Shifted("mint", 0) = 0
    BY DEF Sent, Read, Before, Shifted
  <2>3. seen[p] = Digest(p, 0, 0)
    BY <2>1 DEF Digest
  <2> QED
    BY <2>1, <2>2, <2>3 DEF PartyInv
<1> QED
  BY <1>1, <1>2 DEF CoinInv

(* The counts of each step of the loop, and how a layer follows another.   *)
LEMMA Counts ==
    ASSUME NEW k \in Nat
    PROVE  /\ Before(k) \in Nat /\ Before(1) = Before(0) + 2
           /\ k # 0 => Before(k + 1) = Before(k) + 3
           /\ Sent("mint", k) = Before(k)      /\ Read("mint", k) = Before(k)
           /\ Sent("garble", k) = Before(k)    /\ Read("garble", k) = Before(k)
           /\ Sent("eval", k) = Before(k) + 1  /\ Read("eval", k) = Before(k)
           /\ Sent("sopen", k) = Before(k) + 2 /\ Read("sopen", k) = Before(k) + 1
           /\ Sent("coin", k) = Before(k) + 2  /\ Read("coin", k) = Before(k) + 2
           /\ Sent("bucket", k) = Before(k) + 3 /\ Read("bucket", k) = Before(k) + 2
BY DEF Before, Sent, Read

(* What the invariant says of a party inside the loop.                     *)
LEMMA Here ==
    ASSUME CoinInv, NEW p \in Party, at[p] \in Looping
    PROVE  /\ PoolTypes /\ layer[p] \in Nat /\ layer = [layer EXCEPT ![p] = layer[p]]
           /\ seen = [seen EXCEPT ![p] = seen[p]]
           /\ seen[p] = Digest(p, Sent(at[p], layer[p]), Read(at[p], layer[p]))
           /\ Len(shifts[p]) = Shifted(at[p], layer[p])
           /\ at[p] \in {"coin", "bucket"} => layer[p] # 0
BY DEF CoinInv, PoolTypes, PartyInv

(* A step within the loop that sends ds and reads dr vectors.              *)
LEMMA MovedLoop ==
    ASSUME CoinInv, NEW p \in Party, at[p] \in Looping,
           NEW a \in Looping, NEW l \in Nat,
           Goto(p, a), layer' = [layer EXCEPT ![p] = l], UNCHANGED <<coin, shifts>>,
           a \in {"coin", "bucket"} => l # 0,
           NEW ds \in {0, 1}, NEW dr \in {0, 1}, NEW msg,
           \/ ds = 0 /\ dr = 0 /\ UNCHANGED seen
           \/ ds = 1 /\ dr = 0 /\ Send(p, send_io(p), msg)
           \/ ds = 0 /\ dr = 1 /\ Recv(p, recv_io(p))
           \/ ds = 1 /\ dr = 1 /\ RecvSend(p, recv_io(p), send_io(p), msg),
           Sent(a, l) = Sent(at[p], layer[p]) + ds,
           Read(a, l) = Read(at[p], layer[p]) + dr,
           Shifted(a, l) = Shifted(at[p], layer[p])
    PROVE  CoinInv'
<1> DEFINE s == Sent(at[p], layer[p])
           r == Read(at[p], layer[p])
<1>1. /\ PoolTypes /\ seen[p] = Digest(p, s, r) /\ Len(shifts[p]) = Shifted(at[p], layer[p])
      /\ seen = [seen EXCEPT ![p] = seen[p]] /\ layer[p] \in Nat
  BY Here
<1>2. s \in Nat /\ r \in Nat
  <2>1. Before(layer[p]) \in Nat
    BY <1>1, Counts
  <2> QED
    BY <2>1 DEF Sent, Read
<1> HIDE DEF s, r
<1>3. seen' = [seen EXCEPT ![p] = Digest(p, s + ds, r + dr)]
  <2>1. CASE ds = 0 /\ dr = 0
    <3>1. seen' = seen /\ s + ds = s /\ r + dr = r
      BY <1>2, <2>1
    <3> QED
      BY <1>1, <3>1
  <2>2. CASE ds = 1 /\ dr = 0
    <3>1. Send(p, send_io(p), msg) /\ s + ds = s + 1 /\ r + dr = r
      BY <1>2, <2>2
    <3> QED
      BY <1>1, <1>2, <3>1, Exchanged
  <2>3. CASE ds = 0 /\ dr = 1
    <3>1. Recv(p, recv_io(p)) /\ s + ds = s /\ r + dr = r + 1
      BY <1>2, <2>3
    <3> QED
      BY <1>1, <1>2, <3>1, Exchanged
  <2>4. CASE ds = 1 /\ dr = 1
    <3>1. RecvSend(p, recv_io(p), send_io(p), msg) /\ s + ds = s + 1 /\ r + dr = r + 1
      BY <1>2, <2>4
    <3> QED
      BY <1>1, <1>2, <3>1, Exchanged
  <2> QED
    BY <2>1, <2>2, <2>3, <2>4
<1>4. Digest(p, s + ds, r + dr) \in [Channel -> Nat]
  <2>1. s + ds \in Nat /\ r + dr \in Nat
    BY <1>2
  <2> QED
    BY <2>1, DigestType
<1>5. Digest(p, s + ds, r + dr) = Digest(p, Sent(a, l), Read(a, l))
  BY DEF s, r
<1>6. at' = [at EXCEPT ![p] = a] /\ a \in Looping \cup After
  BY DEF Goto
<1> QED
  BY <1>1, <1>3, <1>4, <1>5, <1>6, Moved

(* Every step of either party keeps the invariant.                         *)
LEMMA StepCoinInv == CoinInv /\ [Next]_vars => CoinInv'
<1> SUFFICES ASSUME CoinInv, [Next]_vars PROVE CoinInv'
  OBVIOUS
<1>0. Looping = {"mint", "garble", "eval", "sopen", "coin", "bucket"}
  BY DEF Looping
<1>1. ASSUME NEW p \in Party, Mint(p) PROVE CoinInv'
  <2>1. at[p] = "mint" /\ Goto(p, "garble") /\ UNCHANGED <<layer, seen, coin, shifts>>
    BY <1>1 DEF Mint, At, comm
  <2>2. layer[p] \in Nat /\ layer' = [layer EXCEPT ![p] = layer[p]] /\ at[p] \in Looping
    BY <1>0, <2>1, Here
  <2>3. /\ Sent("garble", layer[p]) = Sent(at[p], layer[p]) + 0
        /\ Read("garble", layer[p]) = Read(at[p], layer[p]) + 0
        /\ Shifted("garble", layer[p]) = Shifted(at[p], layer[p])
    BY <2>1, <2>2, Counts DEF Shifted
  <2> QED
    BY <1>0, <2>1, <2>2, <2>3, MovedLoop
<1>2. ASSUME NEW p \in Party, Garble(p) PROVE CoinInv'
  <2>1. PICK msg : /\ at[p] = "garble" /\ Goto(p, "eval") /\ UNCHANGED <<layer, coin, shifts>>
                   /\ Send(p, send_io(p), msg)
    BY <1>2 DEF Garble, At
  <2>2. layer[p] \in Nat /\ layer' = [layer EXCEPT ![p] = layer[p]] /\ at[p] \in Looping
    BY <1>0, <2>1, Here
  <2>3. /\ Sent("eval", layer[p]) = Sent(at[p], layer[p]) + 1
        /\ Read("eval", layer[p]) = Read(at[p], layer[p]) + 0
        /\ Shifted("eval", layer[p]) = Shifted(at[p], layer[p])
    BY <2>1, <2>2, Counts DEF Shifted
  <2> QED
    BY <1>0, <2>1, <2>2, <2>3, MovedLoop
<1>3. ASSUME NEW p \in Party, Eval(p) PROVE CoinInv'
  <2>1. PICK msg : /\ at[p] = "eval" /\ Goto(p, "sopen") /\ UNCHANGED <<layer, coin, shifts>>
                   /\ RecvSend(p, recv_io(p), send_io(p), msg)
    BY <1>3 DEF Eval, At
  <2>2. layer[p] \in Nat /\ layer' = [layer EXCEPT ![p] = layer[p]] /\ at[p] \in Looping
    BY <1>0, <2>1, Here
  <2>3. /\ Sent("sopen", layer[p]) = Sent(at[p], layer[p]) + 1
        /\ Read("sopen", layer[p]) = Read(at[p], layer[p]) + 1
        /\ Shifted("sopen", layer[p]) = Shifted(at[p], layer[p])
    BY <2>1, <2>2, Counts DEF Shifted
  <2> QED
    BY <1>0, <2>1, <2>2, <2>3, MovedLoop
<1>4. ASSUME NEW p \in Party, SOpen(p) PROVE CoinInv'
  <2>1. /\ at[p] = "sopen" /\ Recv(p, recv_io(p)) /\ UNCHANGED <<coin, shifts>>
        /\ IF layer[p] = 0 THEN layer' = [layer EXCEPT ![p] = 1] /\ Goto(p, "mint")
                           ELSE Goto(p, "coin") /\ UNCHANGED layer
    BY <1>4 DEF SOpen, At
  <2>2. layer[p] \in Nat /\ layer = [layer EXCEPT ![p] = layer[p]] /\ at[p] \in Looping
    BY <1>0, <2>1, Here
  <2>3. CASE layer[p] = 0
    <3>1. /\ Sent("mint", 1) = Sent(at[p], layer[p]) + 0
          /\ Read("mint", 1) = Read(at[p], layer[p]) + 1
          /\ Shifted("mint", 1) = Shifted(at[p], layer[p])
      BY <2>1, <2>2, <2>3, Counts DEF Shifted
    <3> QED
      BY <1>0, <2>1, <2>2, <2>3, <3>1, MovedLoop
  <2>4. CASE layer[p] # 0
    <3>1. /\ Sent("coin", layer[p]) = Sent(at[p], layer[p]) + 0
          /\ Read("coin", layer[p]) = Read(at[p], layer[p]) + 1
          /\ Shifted("coin", layer[p]) = Shifted(at[p], layer[p])
      BY <2>1, <2>2, <2>4, Counts DEF Shifted
    <3> QED
      BY <1>0, <2>1, <2>2, <2>4, <3>1, MovedLoop
  <2> QED
    BY <2>3, <2>4
<1>5. ASSUME NEW p \in Party, Bucket(p) PROVE CoinInv'
  <2>1. /\ at[p] = "bucket" /\ Recv(p, recv_io(p)) /\ UNCHANGED <<coin, shifts>>
        /\ \/ layer' = [layer EXCEPT ![p] = @ + 1] /\ Goto(p, "mint")
           \/ Goto(p, "feq") /\ UNCHANGED layer
    BY <1>5 DEF Bucket, At
  <2>2. layer[p] \in Nat /\ layer[p] # 0 /\ at[p] \in Looping /\ PoolTypes
    BY <1>0, <2>1, Here
  <2>3. CASE layer' = [layer EXCEPT ![p] = @ + 1] /\ Goto(p, "mint")
    <3>1. /\ Sent("mint", layer[p] + 1) = Sent(at[p], layer[p]) + 0
          /\ Read("mint", layer[p] + 1) = Read(at[p], layer[p]) + 1
          /\ Shifted("mint", layer[p] + 1) = Shifted(at[p], layer[p])
      BY <2>1, <2>2, Counts DEF Shifted
    <3>2. layer' = [layer EXCEPT ![p] = layer[p] + 1] /\ layer[p] + 1 \in Nat
      BY <2>2, <2>3
    <3> QED
      BY <1>0, <2>1, <2>2, <2>3, <3>1, <3>2, MovedLoop
  <2>4. CASE Goto(p, "feq") /\ UNCHANGED layer
    <3>1. PICK d \in [Channel -> Nat] : seen' = [seen EXCEPT ![p] = d]
      BY <2>1, <2>2, CountsUp, Directions
    <3>2. "feq" \in After
      BY DEF After
    <3> QED
      BY <2>1, <2>4, <3>1, <3>2, MovedAfter
  <2> QED
    BY <2>1, <2>3, <2>4
<1>6. ASSUME NEW p \in Party, ReconcileSend(p) \/ Reconcile(p) PROVE CoinInv'
  <2>1. \E a \in {"sigma", "done"} : Goto(p, a)
    BY <1>6 DEF ReconcileSend, Reconcile
  <2>2. UNCHANGED <<layer, coin, shifts>>
    BY <1>6 DEF ReconcileSend, Reconcile
  <2>3. \E msg : Send(p, send_io(p), msg) \/ Recv(p, recv_io(p))
    BY <1>6 DEF ReconcileSend, Reconcile
  <2>4. PICK d \in [Channel -> Nat] : seen' = [seen EXCEPT ![p] = d]
    BY <2>3, CountsUp, Directions DEF CoinInv
  <2>5. {"sigma", "done"} \subseteq After
    BY DEF After
  <2> QED
    BY <2>1, <2>2, <2>4, <2>5, MovedAfter
<1>7. CASE FeqCommit \/ FeqAnswer \/ FeqOpen \/ FeqVerify
  <2>1. UNCHANGED <<layer, coin, shifts>>
    BY <1>7 DEF FeqCommit, FeqAnswer, FeqOpen, FeqVerify
  <2>2. PICK p \in Party : /\ \E a \in {"feq_answer", "feq_open", "reconcile", "abort"} : Goto(p, a)
                           /\ \E msg : \/ Send(p, "io", msg) \/ Recv(p, "io")
                                       \/ RecvSend(p, "io", "io_back", msg)
                                       \/ RecvSend(p, "io_back", "io", msg)
    BY <1>7 DEF FeqCommit, FeqAnswer, FeqOpen, FeqVerify, Verdict, Party
  <2>3. PICK d \in [Channel -> Nat] : seen' = [seen EXCEPT ![p] = d]
    <3>1. "io" \in Channel /\ "io_back" \in Channel /\ "io" # "io_back"
      BY DEF Channel
    <3> QED
      BY <2>2, <3>1, CountsUp DEF CoinInv
  <2>4. {"feq_answer", "feq_open", "reconcile", "abort"} \subseteq After
    BY DEF After
  <2> QED
    BY <2>1, <2>2, <2>3, <2>4, MovedAfter
<1>8. CASE UNCHANGED vars
  BY <1>8 DEF CoinInv, PoolTypes, PartyInv, vars, party, comm
<1> QED
  BY <1>1, <1>2, <1>3, <1>4, <1>5, <1>6, <1>7, <1>8, CoinStep DEF Next, Step, Finished

(* The two parties shift each layer by the same amount: however their      *)
(* messages interleave, both take the coin of layer k at one and the same  *)
(* point of the transcript, and no two layers share a point.               *)
THEOREM PoolCoinsAgree == Spec => []CoinsAgree
<1>1. CoinInv => CoinsAgree
  <2> SUFFICES ASSUME CoinInv PROVE CoinsAgree
    OBVIOUS
  <2>1. ASSUME NEW p \in Party
        PROVE  /\ DOMAIN shifts[p] = 1 .. Len(shifts[p]) /\ Len(shifts[p]) \in Nat
               /\ \A k \in 1 .. Len(shifts[p]) : shifts[p][k] = <<Point(k), coin[Point(k)]>>
    BY DEF CoinInv, PoolTypes, PartyInv
  <2>2. Garbler \in Party /\ Evaluator \in Party
    BY DEF Party
  <2>3. \A k \in DOMAIN shifts[Garbler] \cap DOMAIN shifts[Evaluator] :
          shifts[Garbler][k] = shifts[Evaluator][k]
    BY <2>1, <2>2
  <2>4. ASSUME NEW p \in Party
        PROVE  IsInjective([k \in DOMAIN shifts[p] |-> shifts[p][k][1]])
    <3> DEFINE f == [k \in DOMAIN shifts[p] |-> shifts[p][k][1]]
    <3>1. \A k \in DOMAIN f : k \in Nat /\ f[k] = Point(k)
      BY <2>1
    <3>2. \A j, k \in DOMAIN f : f[j] = f[k] => j = k
      BY <3>1, PointInjective
    <3> QED
      BY <3>2 DEF IsInjective
  <2> QED
    BY <2>3, <2>4 DEF CoinsAgree
<1> QED
  BY <1>1, InitCoinInv, StepCoinInv, PTL DEF Spec
-------------------------------------------------------------------------------
(* Powers of numbers are numbers, and l^(Ssp+1) exceeds 2^Ssp from l = 2   *)
(* on: the arithmetic get_bucket_size relies on for its loop to end.  The  *)
(* provers have no theory of exponentiation, so the theorem below carries  *)
(* these two facts of arithmetic as a hypothesis.                          *)
PowersGrow ==
    /\ \A l, n \in Nat : l ^ n \in Nat
    /\ \A l \in Nat \ {0, 1} : l ^ (Ssp + 1) > 2 ^ Ssp

(* The layers a party has folded, and how many there are to be.            *)
LayerInv ==
    /\ rep \in Reps
    /\ \A p \in Party : /\ layer[p] <= B - 1
                        /\ at[p] \in After => Len(shifts[p]) = B - 1

(* get_bucket_size finds the smallest number of layers that is enough.     *)
LEMMA BucketSize ==
    ASSUME PowersGrow, NEW size \in Nat
    PROVE  LET l == Max({size, Floor}) n == get_bucket_size(size)
           IN /\ n \in Nat /\ n >= 2
              /\ l ^ (n - 1) > 2 ^ Ssp
              /\ \A b \in 2 .. (n - 1) : l ^ (b - 1) <= 2 ^ Ssp
<1> DEFINE l == Max({size, Floor})
<1>1. Ssp \in Nat /\ Floor \in Nat \ {0, 1}
  BY TriplePoolAssumption
<1>2. l \in Nat \ {0, 1}
  <2>1. \E x \in {size, Floor} : \A y \in {size, Floor} : x >= y
    BY <1>1
  <2>2. l \in {size, Floor} /\ \A y \in {size, Floor} : l >= y
    BY <2>1 DEF Max
  <2> QED
    BY <1>1, <2>2
<1> HIDE DEF l
<1> DEFINE Enough(n) == l ^ (n - 1) > 2 ^ Ssp
           T == {n \in Nat : n >= 2 /\ Enough(n)}
<1>3. Ssp + 2 \in T
  <2>1. (Ssp + 2) - 1 = Ssp + 1 /\ Ssp + 2 \in Nat /\ Ssp + 2 >= 2
    BY <1>1
  <2>2. l ^ ((Ssp + 2) - 1) > 2 ^ Ssp
    BY <1>2, <2>1 DEF PowersGrow
  <2> QED
    BY <2>1, <2>2
<1>4. PICK m \in T : \A k \in T : ~(k < m)
  BY <1>3, LeastCount
<1>5. /\ m \in 2 .. (Ssp + 2) /\ Enough(m)
      /\ \A b \in 2 .. (m - 1) : l ^ (b - 1) <= 2 ^ Ssp
  <2>1. m \in Nat /\ m >= 2 /\ Enough(m) /\ m <= Ssp + 2
    BY <1>1, <1>3, <1>4
  <2>2. ASSUME NEW b \in 2 .. (m - 1) PROVE l ^ (b - 1) <= 2 ^ Ssp
    <3>1. ~ (l ^ (b - 1) > 2 ^ Ssp)
      BY <1>4, <2>1
    <3>2. l ^ (b - 1) \in Nat /\ 2 ^ Ssp \in Nat
      <4>1. b - 1 \in Nat /\ l \in Nat /\ 2 \in Nat /\ Ssp \in Nat
        BY <1>1, <1>2, <2>1
      <4> QED
        BY <4>1 DEF PowersGrow
    <3> QED
      BY <3>1, <3>2
  <2> QED
    BY <1>1, <2>1, <2>2
<1>6. get_bucket_size(size) =
        CHOOSE n \in 2 .. (Ssp + 2) :
          l ^ (n - 1) > 2 ^ Ssp /\ \A b \in 2 .. (n - 1) : l ^ (b - 1) <= 2 ^ Ssp
  BY DEF get_bucket_size, l
<1>7. /\ get_bucket_size(size) \in 2 .. (Ssp + 2)
      /\ l ^ (get_bucket_size(size) - 1) > 2 ^ Ssp
      /\ \A b \in 2 .. (get_bucket_size(size) - 1) : l ^ (b - 1) <= 2 ^ Ssp
  BY <1>5, <1>6
<1> QED
  BY <1>1, <1>7 DEF l

(* How a step moves the layers and enters or stays in the steps after the  *)
(* loop: only the last combined layer leads there.                         *)
LEMMA LayerMoves ==
    ASSUME CoinInv, Next
    PROVE  /\ rep' = rep
           /\ \A q \in Party :
                /\ \/ layer'[q] = layer[q]
                   \/ layer[q] = 0 /\ layer'[q] = 1
                   \/ layer[q] < B - 1 /\ layer'[q] = layer[q] + 1
                /\ at'[q] \in After =>
                     /\ shifts'[q] = shifts[q]
                     /\ \/ at[q] \in After
                        \/ at[q] = "bucket" /\ ~(layer[q] < B - 1)
<1>1. /\ at \in [Party -> Looping \cup After] /\ layer \in [Party -> Nat]
      /\ DOMAIN shifts = Party
  BY DEF CoinInv, PoolTypes
<1>2. ASSUME NEW p \in Party, NEW a, Goto(p, a), UNCHANGED <<rep, layer>>,
             a \notin After \/ at[p] \in After, a \in After => UNCHANGED shifts,
             \A q \in Party : q # p => shifts'[q] = shifts[q]
      PROVE  /\ rep' = rep
             /\ \A q \in Party : /\ layer'[q] = layer[q]
                                 /\ at'[q] \in After => /\ shifts'[q] = shifts[q]
                                                        /\ at[q] \in After
  BY <1>1, <1>2 DEF Goto
<1>3. ASSUME NEW p \in Party, Mint(p) \/ Garble(p) \/ Eval(p)
      PROVE  \E a \in {"garble", "eval", "sopen"} :
               Goto(p, a) /\ UNCHANGED <<rep, layer, shifts>>
  BY <1>3 DEF Mint, Garble, Eval
<1>4. ASSUME NEW p \in Party, Coin(p)
      PROVE  /\ Goto(p, "bucket") /\ UNCHANGED <<rep, layer>>
             /\ \A q \in Party : q # p => shifts'[q] = shifts[q]
  BY <1>1, <1>4 DEF Coin
<1>5. ASSUME NEW p \in Party, ReconcileSend(p) \/ Reconcile(p)
      PROVE  \E a \in {"sigma", "done"} :
               /\ Goto(p, a) /\ UNCHANGED <<rep, layer, shifts>>
               /\ at[p] \in {"reconcile", "sigma"}
  BY <1>5 DEF ReconcileSend, Reconcile, At
<1>6. ASSUME FeqCommit \/ FeqAnswer \/ FeqOpen \/ FeqVerify
      PROVE  \E p \in Party, a \in {"feq_answer", "feq_open", "reconcile", "abort"} :
               /\ Goto(p, a) /\ UNCHANGED <<rep, layer, shifts>>
               /\ at[p] \in {"feq", "feq_answer", "feq_open"}
  BY <1>6 DEF FeqCommit, FeqAnswer, FeqOpen, FeqVerify, Verdict, At, Party
<1>7. ASSUME NEW p \in Party, SOpen(p)
      PROVE  /\ rep' = rep
             /\ \A q \in Party : /\ layer'[q] = layer[q] \/ (layer[q] = 0 /\ layer'[q] = 1)
                                 /\ at'[q] \in After => shifts'[q] = shifts[q] /\ at[q] \in After
  <2>1. rep' = rep /\ shifts' = shifts
    BY <1>7 DEF SOpen
  <2>2. PICK a \in {"mint", "coin"} : /\ at' = [at EXCEPT ![p] = a]
                                      /\ \/ layer[p] = 0 /\ layer' = [layer EXCEPT ![p] = 1]
                                         \/ layer' = layer
    BY <1>7 DEF SOpen, Goto
  <2>3. a \notin After
    BY DEF After
  <2>4. ASSUME NEW q \in Party
        PROVE  /\ layer'[q] = layer[q] \/ (layer[q] = 0 /\ layer'[q] = 1)
               /\ at'[q] \in After => at[q] \in After
    BY <1>1, <2>2, <2>3
  <2> QED
    BY <2>1, <2>4
<1>8. ASSUME NEW p \in Party, Bucket(p)
      PROVE  /\ rep' = rep
             /\ \A q \in Party :
                  /\ \/ layer'[q] = layer[q]
                     \/ layer[q] < B - 1 /\ layer'[q] = layer[q] + 1
                  /\ at'[q] \in After =>
                       /\ shifts'[q] = shifts[q]
                       /\ at[q] \in After \/ (at[q] = "bucket" /\ ~(layer[q] < B - 1))
  <2>1. rep' = rep /\ shifts' = shifts /\ at[p] = "bucket"
    BY <1>8 DEF Bucket, At
  <2>2. CASE layer[p] < B - 1 /\ layer' = [layer EXCEPT ![p] = @ + 1] /\ Goto(p, "mint")
    <3>1. /\ at'[p] = "mint" /\ layer'[p] = layer[p] + 1
          /\ \A q \in Party : q # p => at'[q] = at[q] /\ layer'[q] = layer[q]
      BY <1>1, <2>2 DEF Goto
    <3> QED
      BY <2>1, <2>2, <3>1 DEF After
  <2>3. CASE ~(layer[p] < B - 1) /\ UNCHANGED layer /\ Goto(p, "feq")
    <3>1. \A q \in Party : q # p => at'[q] = at[q]
      BY <1>1, <2>3 DEF Goto
    <3> QED
      BY <2>1, <2>3, <3>1
  <2> QED
    BY <1>8, <2>2, <2>3 DEF Bucket
<1>9. /\ \A a \in {"garble", "eval", "sopen", "bucket"} : a \notin After
      /\ {"feq", "feq_answer", "feq_open", "reconcile", "sigma"} \subseteq After
  BY DEF After
<1>10. CASE \E p \in Party : Step(p)
  <2> PICK p \in Party : Step(p)
    BY <1>10
  <2>1. CASE Mint(p) \/ Garble(p) \/ Eval(p)
    BY <1>2, <1>3, <1>9, <2>1
  <2>2. CASE Coin(p)
    BY <1>2, <1>4, <1>9, <2>2
  <2>3. CASE ReconcileSend(p) \/ Reconcile(p)
    BY <1>2, <1>5, <1>9, <2>3
  <2> QED
    BY <1>7, <1>8, <2>1, <2>2, <2>3 DEF Step
<1>11. CASE FeqCommit \/ FeqAnswer \/ FeqOpen \/ FeqVerify
  BY <1>2, <1>6, <1>9, <1>11
<1>12. CASE Finished
  BY <1>1, <1>12 DEF Finished, vars, party, After
<1> QED
  BY <1>10, <1>11, <1>12 DEF Next

(* The layers are counted right: a party leaves the loop with B - 1 shifts *)
(* taken.                                                                  *)
LEMMA StepLayerInv ==
    ASSUME PowersGrow, CoinInv, LayerInv, [Next]_vars
    PROVE  LayerInv'
<1>1. B \in Nat /\ B >= 2
  <2>1. L \in Nat
    BY TriplePoolAssumption DEF LayerInv, L
  <2> QED
    BY <2>1, BucketSize DEF B
<1>2. layer \in [Party -> Nat]
  BY DEF CoinInv, PoolTypes
<1>3. CASE UNCHANGED vars
  BY <1>3 DEF LayerInv, vars, party, B, L
<1>4. CASE Next
  <2>1. rep' = rep /\ B' = B
    BY <1>4, LayerMoves DEF B, L
  <2>2. ASSUME NEW p \in Party PROVE layer'[p] <= B - 1
    BY <1>1, <1>2, <1>4, LayerMoves DEF LayerInv
  <2>3. ASSUME NEW p \in Party, at'[p] \in After PROVE Len(shifts'[p]) = B - 1
    <3>1. shifts'[p] = shifts[p]
      BY <1>4, <2>3, LayerMoves
    <3>2. CASE at[p] \in After
      BY <3>1, <3>2 DEF LayerInv
    <3>3. CASE at[p] = "bucket" /\ ~(layer[p] < B - 1)
      <4>1. layer[p] = B - 1
        BY <1>1, <1>2, <3>3 DEF LayerInv
      <4>2. Len(shifts[p]) = layer[p]
        BY <3>3, Here DEF Looping, Shifted
      <4> QED
        BY <3>1, <4>1, <4>2
    <3> QED
      BY <1>4, <2>3, <3>2, <3>3, LayerMoves
  <2> QED
    BY <2>1, <2>2, <2>3 DEF LayerInv
<1> QED
  BY <1>3, <1>4

(* A finished request has folded as many layers as its size requires, and  *)
(* not one more.                                                           *)
THEOREM PoolBucketBound ==
    ASSUME PowersGrow
    PROVE  Spec => []BucketBound
<1>1. Init => LayerInv
  <2> SUFFICES ASSUME Init PROVE LayerInv
    OBVIOUS
  <2>1. L \in Nat /\ rep \in Reps
    BY TriplePoolAssumption DEF Init, L
  <2>2. B \in Nat /\ B >= 2
    BY <2>1, BucketSize DEF B
  <2> QED
    BY <2>1, <2>2 DEF Init, LayerInv, After
<1>2. CoinInv /\ LayerInv /\ [Next]_vars => LayerInv'
  BY StepLayerInv
<1>3. CoinInv /\ LayerInv => BucketBound
  <2> SUFFICES ASSUME CoinInv, LayerInv, NEW p \in Party, at[p] = "done"
               PROVE  LET l == Max({L, Floor}) n == Len(shifts[p])
                      IN l ^ n > 2 ^ Ssp /\ (n > 1 => l ^ (n - 1) <= 2 ^ Ssp)
    BY DEF BucketBound
  <2>1. L \in Nat
    BY TriplePoolAssumption DEF LayerInv, L
  <2>2. Len(shifts[p]) = B - 1
    BY DEF LayerInv, After
  <2> DEFINE l == Max({L, Floor})
  <2>3. /\ B \in Nat /\ B >= 2 /\ l ^ (B - 1) > 2 ^ Ssp
        /\ \A b \in 2 .. (B - 1) : l ^ (b - 1) <= 2 ^ Ssp
    BY <2>1, BucketSize DEF B
  <2> HIDE DEF l
  <2>4. B - 1 > 1 => l ^ ((B - 1) - 1) <= 2 ^ Ssp
    BY <2>3
  <2> QED
    BY <2>2, <2>3, <2>4 DEF l
<1> QED
  BY <1>1, <1>2, <1>3, InitCoinInv, StepCoinInv, PTL DEF Spec
-------------------------------------------------------------------------------
(* The leaky AND of two shared bits x and y with a random shared bit r, at *)
(* party p, which holds x, y and r, and its peer, which holds the others.  *)
LEMMA OpenedBit ==
    ASSUME NEW p \in Party, NEW s, NEW t, Shared(p, s, t)
    PROVE  /\ IsBit(LSB(s.mac)) /\ IsBit(LSB(t.mac)) /\ IsBit(Opened(s, t))
           /\ Opened(s, t) = LSB(s.mac) ++ LSB(t.mac)
BY LSBLaws, BitClosed DEF Shared, Opened

(* The two Deltas together.                                                *)
Deltas(p) == Delta(p) ++ Delta(Peer(p))

LEMMA DeltasIs ==
    ASSUME NEW p \in Party
    PROVE  IsBlock(Deltas(p)) /\ Deltas(Peer(p)) = Deltas(p)
BY Peers, Variables, BlockClosed, XorIs DEF Deltas

(* A bit times blocks, and a sum of bits times a block.                    *)
LEMMA BitTimes ==
    /\ \A x, b, c : IsBit(x) /\ IsBlock(b) /\ IsBlock(c) =>
         x ** (b ++ c) = (x ** b) ++ (x ** c)
    /\ \A x, y, b : IsBit(x) /\ IsBit(y) /\ IsBlock(b) =>
         /\ (x ++ y) ** b = (x ** b) ++ (y ** b)
         /\ (x ** y) ** b = x ** (y ** b)
    /\ \A x, y, z : IsBit(x) /\ IsBit(y) /\ IsBit(z) =>
         /\ (x ++ y) ** z = (x ** z) ++ (y ** z)
         /\ x ** (y ++ z) = (x ** y) ++ (x ** z)
         /\ x ** y = y ** x
<1>1. \A x : IsBit(x) => IsPoly(x)
  BY BitClosed
<1>2. \A b : IsBlock(b) => IsPoly(b)
  BY BlockClosed
<1>3. \A x, b, c : IsBit(x) /\ IsBlock(b) /\ IsBlock(c) => x ** (b ++ c) = (x ** b) ++ (x ** c)
  BY <1>1, <1>2, Distribute
<1>4. \A x, y, b : IsBit(x) /\ IsBit(y) /\ IsBlock(b) =>
        (x ++ y) ** b = (x ** b) ++ (y ** b) /\ (x ** y) ** b = x ** (y ** b)
  BY <1>1, <1>2, Distribute, AndLaws
<1>5. \A x, y, z : IsBit(x) /\ IsBit(y) /\ IsBit(z) =>
        /\ (x ++ y) ** z = (x ** z) ++ (y ** z)
        /\ x ** (y ++ z) = (x ** y) ++ (x ** z)
        /\ x ** y = y ** x
  BY <1>1, Distribute, AndLaws
<1> QED
  BY <1>3, <1>4, <1>5

(* The parts of the ciphertext, and the hash of a MAC.                     *)
LEMMA HashOpens ==
    ASSUME NEW p \in Party, NEW s, NEW t, NEW n, Shared(p, s, t)
    PROVE  /\ HashOf(s.mac, Peer(p), n)
                = HashOf(t.key, Peer(p), n) ++ (LSB(s.mac) ** HashDiff(t.key, Peer(p), n))
           /\ HashOf(t.key, Peer(p), n) ++ HashOf(t.key ++ Delta(Peer(p)), Peer(p), n)
                = HashDiff(t.key, Peer(p), n)
           /\ IsBlock(HashOf(t.key, Peer(p), n)) /\ IsBlock(HashDiff(t.key, Peer(p), n))
<1> DEFINE k == t.key
           q == Peer(p)
           h == HashOf(k, q, n)
           e == HashDiff(k, q, n)
<1>1. IsBlock(k) /\ s.mac = k ++ (LSB(s.mac) ** Delta(q)) /\ IsBit(LSB(s.mac))
  BY SharedIs, OpenedBit
<1>2. IsBlock(h) /\ IsBlock(e) /\ \A x : IsBit(x) => HashOf(k ++ (x ** Delta(q)), q, n) = h ++ (x ** e)
  <2> HIDE DEF k, q
  <2> QED
    BY <1>1, HashShift DEF h, e
<1>3. HashOf(s.mac, q, n) = h ++ (LSB(s.mac) ** e)
  BY <1>1, <1>2
<1>4. h ++ HashOf(k ++ Delta(q), q, n) = e
  <2>1. One ** Delta(q) = Delta(q) /\ One ** e = e /\ IsBit(One)
    BY <1>2, AndLaws, BlockClosed, BitClosed, Variables
  <2>2. HashOf(k ++ Delta(q), q, n) = h ++ e
    BY <1>2, <2>1
  <2> HIDE DEF h, e
  <2>3. h ++ (h ++ e) = e
    BY XorIs
  <2> QED
    BY <2>2, <2>3
<1> QED
  BY <1>2, <1>3, <1>4

(* Both contributions of y: its Delta, selected by y.                      *)
LEMMA CTerms ==
    ASSUME NEW p \in Party, NEW y, NEW v, Shared(p, y, v)
    PROVE  /\ IsBlock(CTerm(p, y)) /\ IsBlock(CTerm(Peer(p), v))
           /\ CTerm(p, y) ++ CTerm(Peer(p), v) = Opened(y, v) ** Deltas(p)
<1> DEFINE q == Peer(p)
           m == LSB(y.mac)
           n == LSB(v.mac)
           d == Delta(p)
           e == Delta(q)
<1>1. /\ y.mac = v.key ++ (m ** e) /\ v.mac = y.key ++ (n ** d)
      /\ IsBlock(y.mac) /\ IsBlock(v.mac) /\ IsBlock(y.key) /\ IsBlock(v.key)
  BY SharedIs
<1>2. IsBit(m) /\ IsBit(n) /\ Opened(y, v) = m ++ n
  BY OpenedBit
<1>3. IsBlock(d) /\ IsBlock(e) /\ Deltas(p) = d ++ e
  BY Variables DEF Deltas
<1>4. CTerm(p, y) = ((m ** d) ++ y.key) ++ y.mac /\ CTerm(q, v) = ((n ** e) ++ v.key) ++ v.mac
  BY DEF CTerm
<1> HIDE DEF q, m, n, d, e
<1>5. IsBlock(CTerm(p, y)) /\ IsBlock(CTerm(q, v))
  BY <1>1, <1>2, <1>3, <1>4, BlockClosed
<1>6. (m ++ n) ** (d ++ e) = ((m ** d) ++ (m ** e)) ++ ((n ** d) ++ (n ** e))
  <2>1. (m ++ n) ** (d ++ e) = (m ** (d ++ e)) ++ (n ** (d ++ e))
    BY <1>2, <1>3, BitTimes, BlockClosed
  <2>2. m ** (d ++ e) = (m ** d) ++ (m ** e) /\ n ** (d ++ e) = (n ** d) ++ (n ** e)
    BY <1>2, <1>3, BitTimes
  <2> QED
    BY <2>1, <2>2
<1>7. \A a, b, c, f, j, k :
        (((a ++ j) ++ (k ++ b)) ++ ((f ++ k) ++ (j ++ c))) = (a ++ b) ++ (c ++ f)
  BY DEF ++, XorBit, SymDiff
<1>8. (((m ** d) ++ y.key) ++ (v.key ++ (m ** e))) ++ (((n ** e) ++ v.key) ++ (y.key ++ (n ** d)))
        = ((m ** d) ++ (m ** e)) ++ ((n ** d) ++ (n ** e))
  BY <1>7
<1> QED
  BY <1>1, <1>2, <1>3, <1>4, <1>5, <1>6, <1>8 DEF q

(* S at one party: the hashes under both zero labels, and its selections.  *)
LEMMA EvalSIs ==
    ASSUME NEW p \in Party, NEW x, NEW y, NEW r, NEW u, NEW v, NEW w, NEW n,
           Shared(p, x, u), Shared(p, y, v), Shared(p, r, w)
    PROVE  LET S == EvalS(p, x, y, r, Ciphertext(Peer(p), u, v, n), n)
               h == HashOf(x.key, p, n)
               k == HashOf(u.key, Peer(p), n)
           IN /\ IsBlock(S) /\ IsBlock(h) /\ IsBlock(k)
              /\ S = (h ++ k) ++ ((LSB(x.mac) ** (Opened(y, v) ** Deltas(p)))
                                  ++ ((r.key ++ w.key) ++ (LSB(r.mac) ** Deltas(p))))
<1> DEFINE q == Peer(p)
           a == LSB(x.mac)
           b == LSB(r.mac)
           h == HashOf(x.key, p, n)
           k == HashOf(u.key, q, n)
           e == HashDiff(u.key, q, n)
           c == CTerm(p, y)
           f == CTerm(q, v)
           m == HashOf(x.mac, q, n)
           S == EvalS(p, x, y, r, Ciphertext(q, u, v, n), n)
<1>1. q \in Party /\ Peer(q) = p /\ Shared(q, u, x)
  BY Peers, SharedIs
<1>2. m = k ++ (a ** e) /\ k ++ HashOf(u.key ++ Delta(q), q, n) = e /\ IsBlock(k) /\ IsBlock(e)
  BY HashOpens
<1>3. IsBlock(h)
  BY <1>1, HashOpens
<1>4. IsBit(a) /\ IsBit(b)
  BY OpenedBit
<1>5. IsBlock(c) /\ IsBlock(f) /\ c ++ f = Opened(y, v) ** Deltas(p)
  BY CTerms
<1>6. IsBlock(r.key) /\ IsBlock(w.key) /\ r.mac = w.key ++ (b ** Delta(q))
  BY SharedIs
<1>7. S = (((((h ++ m) ++ (a ** (e ++ f))) ++ r.key) ++ r.mac) ++ (a ** c)) ++ (b ** Delta(p))
  <2>1. Ciphertext(q, u, v, n) = e ++ f
    BY <1>2 DEF Ciphertext
  <2>2. S = (((((h ++ m) ++ (a ** (Ciphertext(q, u, v, n)))) ++ r.key) ++ r.mac) ++ (a ** c)) ++ (b ** Delta(p))
    BY XorIs DEF EvalS
  <2> QED
    BY <2>1, <2>2
<1>8. /\ a ** (e ++ f) = (a ** e) ++ (a ** f)
      /\ a ** (c ++ f) = (a ** c) ++ (a ** f)
      /\ b ** Deltas(p) = (b ** Delta(p)) ++ (b ** Delta(q))
  BY <1>2, <1>4, <1>5, BitTimes, Variables DEF Deltas
<1>9. IsBlock(S)
  <2>1. IsBlock(m)
    BY <1>2, <1>4, BlockClosed
  <2>2. IsBlock(a ** (e ++ f)) /\ IsBlock(a ** c) /\ IsBlock(b ** Delta(p))
    BY <1>2, <1>4, <1>5, BlockClosed, Variables
  <2>3. IsBlock(r.mac)
    BY SharedIs
  <2> HIDE DEF h, m, e, f, a, b, c, S
  <2>4. IsBlock((h ++ m) ++ (a ** (e ++ f)))
    BY <1>3, <2>1, <2>2, BlockClosed
  <2>5. IsBlock(((((h ++ m) ++ (a ** (e ++ f))) ++ r.key) ++ r.mac) ++ (a ** c))
    BY <1>6, <2>2, <2>3, <2>4, BlockClosed
  <2> QED
    BY <1>7, <2>2, <2>5, BlockClosed
<1>10. \A ae, af, ac, bd, bq, rk, wk :
         (((((h ++ (k ++ ae)) ++ (ae ++ af)) ++ rk) ++ (wk ++ bq)) ++ ac) ++ bd
           = (h ++ k) ++ ((ac ++ af) ++ ((rk ++ wk) ++ (bd ++ bq)))
  <2> HIDE DEF h, k
  <2> QED
    BY DEF ++, XorBit, SymDiff
<1> HIDE DEF q, a, b, h, k, e, c, f, m, S
<1>11. S = (h ++ k) ++ ((a ** (c ++ f)) ++ ((r.key ++ w.key) ++ (b ** Deltas(p))))
  BY <1>2, <1>6, <1>7, <1>8, <1>10
<1> QED
  BY <1>2, <1>3, <1>5, <1>9, <1>11 DEF q, a, b, h, k, S

(* The two S differ by both Deltas, selected by x y + r; this is what the  *)
(* s-open learns from bit 1, and what the two L-vectors then agree on.     *)
LEMMA LeakyAnd ==
    ASSUME NEW p \in Party, NEW x, NEW y, NEW r, NEW u, NEW v, NEW w, NEW n,
           Shared(p, x, u), Shared(p, y, v), Shared(p, r, w)
    PROVE  LET S == EvalS(p, x, y, r, Ciphertext(Peer(p), u, v, n), n)
               T == EvalS(Peer(p), u, v, w, Ciphertext(p, x, y, n), n)
               z == (Opened(x, u) ** Opened(y, v)) ++ Opened(r, w)
           IN IsBlock(S) /\ IsBlock(T) /\ IsBit(z) /\ S ++ T = z ** Deltas(p)
<1> DEFINE q == Peer(p)
           S == EvalS(p, x, y, r, Ciphertext(q, u, v, n), n)
           T == EvalS(q, u, v, w, Ciphertext(p, x, y, n), n)
           a == LSB(x.mac)
           b == LSB(u.mac)
           c == LSB(r.mac)
           d == LSB(w.mac)
           Y == Opened(y, v)
           D == Deltas(p)
           h == HashOf(x.key, p, n)
           k == HashOf(u.key, q, n)
<1>1. q \in Party /\ Peer(q) = p /\ Shared(q, u, x) /\ Shared(q, v, y) /\ Shared(q, w, r)
      /\ Deltas(q) = D /\ IsBlock(D)
  BY Peers, SharedIs, DeltasIs
<1>2. IsBlock(S) /\ S = (h ++ k) ++ ((a ** (Y ** D)) ++ ((r.key ++ w.key) ++ (c ** D)))
  BY EvalSIs
<1>3. IsBlock(T) /\ T = (k ++ h) ++ ((b ** (Opened(v, y) ** D)) ++ ((w.key ++ r.key) ++ (d ** D)))
  <2> HIDE DEF D, q
  <2> QED
    BY <1>1, EvalSIs
<1>4. /\ IsBit(a) /\ IsBit(b) /\ IsBit(c) /\ IsBit(d) /\ IsBit(Y)
      /\ Opened(x, u) = a ++ b /\ Opened(r, w) = c ++ d
  BY OpenedBit
<1>5. Opened(v, y) = Y
  BY XorIs DEF Opened
<1> HIDE DEF q, S, T, a, b, c, d, Y, D, h, k
<1>6. \A m, e, f, g : ((h ++ k) ++ (m ++ ((r.key ++ w.key) ++ f)))
                        ++ ((k ++ h) ++ (e ++ ((w.key ++ r.key) ++ g)))
                      = (m ++ e) ++ (f ++ g)
  BY DEF ++, XorBit, SymDiff
<1>7. S ++ T = ((a ** (Y ** D)) ++ (b ** (Y ** D))) ++ ((c ** D) ++ (d ** D))
  BY <1>2, <1>3, <1>5, <1>6
<1>8. /\ IsBlock(Y ** D) /\ IsBit(a ++ b) /\ IsBit(c ++ d) /\ IsBit((a ++ b) ** Y)
      /\ IsBit(((a ++ b) ** Y) ++ (c ++ d))
  BY <1>1, <1>4, BlockClosed, BitClosed
<1>9. (a ** (Y ** D)) ++ (b ** (Y ** D)) = ((a ++ b) ** Y) ** D
  <2>1. (a ** (Y ** D)) ++ (b ** (Y ** D)) = (a ++ b) ** (Y ** D)
    BY <1>4, <1>8, BitTimes
  <2>2. ((a ++ b) ** Y) ** D = (a ++ b) ** (Y ** D)
    BY <1>1, <1>4, <1>8, BitTimes
  <2> QED
    BY <2>1, <2>2
<1>10. (c ** D) ++ (d ** D) = (c ++ d) ** D
  BY <1>1, <1>4, BitTimes
<1>11. (((a ++ b) ** Y) ++ (c ++ d)) ** D = (((a ++ b) ** Y) ** D) ++ ((c ++ d) ** D)
  BY <1>1, <1>8, BitTimes
<1> QED
  BY <1>2, <1>3, <1>4, <1>7, <1>8, <1>9, <1>10, <1>11 DEF q, S, T, Y, D

LEMMA LeakyOpen ==
    ASSUME NEW S, NEW T, NEW z, IsBlock(S), IsBlock(T), IsBit(z),
           S ++ T = z ** Deltas(Garbler)
    PROVE  /\ LSB1(S) ++ LSB1(T) = z
           /\ S ++ (z ** Delta(Garbler)) = T ++ (z ** Delta(Evaluator))
<1> DEFINE a == z ** Delta(Garbler)
           b == z ** Delta(Evaluator)
<1>1. z ** Deltas(Garbler) = a ++ b /\ IsBlock(a) /\ IsBlock(b)
  BY Peers, BitTimes, Variables, BlockClosed DEF Deltas
<1>2. LSB1(S ++ T) = LSB1(S) ++ LSB1(T) /\ LSB1(a ++ b) = LSB1(a) ++ LSB1(b)
  BY <1>1, LSBLaws
<1>3. LSB1(a) = z /\ LSB1(b) = Zero
  BY LSBLaws
<1> HIDE DEF a, b
<1>4. LSB1(S) ++ LSB1(T) = z
  BY <1>1, <1>2, <1>3, XorIs
<1>5. S ++ T = a ++ b => S ++ a = T ++ b
  <2> SUFFICES ASSUME S ++ T = a ++ b, NEW m PROVE m \in S ++ a <=> m \in T ++ b
    OBVIOUS
  <2>1. m \in S ++ T <=> m \in a ++ b
    OBVIOUS
  <2> QED
    BY <2>1, XorIs
<1> QED
  BY <1>1, <1>4, <1>5 DEF a, b

(* Folding a public bit in: one party in its MAC, the other in its key.    *)
LEMMA FoldShared ==
    ASSUME NEW s, NEW t, NEW d, Shared(Garbler, s, t), IsBit(d),
           s = [mac |-> s.mac, key |-> s.key], t = [mac |-> t.mac, key |-> t.key]
    PROVE  /\ Shared(Garbler, FoldBit(Garbler, s, d), FoldBit(Evaluator, t, d))
           /\ Opened(FoldBit(Garbler, s, d), FoldBit(Evaluator, t, d)) = Opened(s, t) ++ d
<1> DEFINE a == FoldBit(Garbler, s, d)
           b == FoldBit(Evaluator, t, d)
           x == d ** bit0_mask
           e == d ** Delta(Evaluator)
<1>1. /\ a.mac = s.mac ++ x /\ a.key = s.key
      /\ b.mac = t.mac /\ b.key = t.key ++ (d ** (Delta(Evaluator) ++ bit0_mask))
  BY PartyAssumption DEF FoldBit
<1>2. d ** (Delta(Evaluator) ++ bit0_mask) = e ++ x /\ IsBlock(e) /\ IsBlock(x)
  BY BitTimes, Variables, BlockClosed
<1>3. /\ IsBlock(s.mac) /\ IsBlock(s.key) /\ IsBlock(t.mac) /\ IsBlock(t.key)
      /\ s.mac = t.key ++ (LSB(s.mac) ** Delta(Evaluator)) /\ LSB(t.key) = Zero
      /\ t.mac = s.key ++ (LSB(t.mac) ** Delta(Garbler)) /\ LSB(s.key) = Zero
  BY SharedIs, Peers
<1>4. LSB(x) = d /\ LSB(e) = d
  BY LSBLaws
<1> HIDE DEF a, b, x, e
<1>5. IsBlock(a.mac) /\ IsBlock(a.key) /\ IsBlock(b.mac) /\ IsBlock(b.key)
  BY <1>1, <1>2, <1>3, BlockClosed
<1>6. LSB(a.mac) = LSB(s.mac) ++ d /\ LSB(b.mac) = LSB(t.mac)
  BY <1>1, <1>2, <1>3, <1>4, LSBLaws
<1>7. LSB(b.key) = Zero
  <2>1. LSB(b.key) = LSB(t.key) ++ LSB(e ++ x) /\ LSB(e ++ x) = LSB(e) ++ LSB(x)
    BY <1>1, <1>2, <1>3, LSBLaws, BlockClosed
  <2> QED
    BY <1>3, <1>4, <2>1, XorIs
<1>8. a.mac = b.key ++ (LSB(a.mac) ** Delta(Evaluator))
  <2>1. LSB(a.mac) ** Delta(Evaluator) = (LSB(s.mac) ** Delta(Evaluator)) ++ e
    BY <1>3, <1>6, BitTimes, Variables, LSBLaws DEF e
  <2>2. \A k, m : (k ++ m) ++ x = (k ++ (e ++ x)) ++ (m ++ e)
    BY DEF ++, XorBit, SymDiff
  <2> QED
    BY <1>1, <1>2, <1>3, <2>1, <2>2
<1>9. Shared(Garbler, a, b)
  BY <1>1, <1>3, <1>5, <1>6, <1>7, <1>8, SharedIs, Peers
<1>10. Opened(a, b) = Opened(s, t) ++ d
  <2>1. \A k, m : (k ++ d) ++ m = (k ++ m) ++ d
    BY DEF ++, XorBit, SymDiff
  <2> QED
    BY <1>6, <2>1 DEF Opened
<1> QED
  BY <1>9, <1>10 DEF a, b
-------------------------------------------------------------------------------
(* The values of a request R, whatever the order of the steps: each vector *)
(* a party computes is a function of the request and the layer, and of the *)
(* shifts for what comes after a coin.  They are stated of R, not of the   *)
(* variable rep, so that no step can change them.                          *)
LanesOf(R) == 1 .. Len(R)
PadOf(R)   == Batch * ((Len(R) + Batch - 1) \div Batch)
FreeDraw(R) == Max({0} \cup UNION UNION {{R[i][1], R[i][2]} : i \in LanesOf(R)})
SrcOf(R, i, r) == IF i + r <= Len(R) THEN i + r ELSE i + r - Len(R)

MintOf(R, p, n)   == [i \in LanesOf(R) |-> CotShare(p, n + i)]
Operands(R, p, j) == [i \in LanesOf(R) |-> WireShare(p, R[i][j])]

(* Layer k of party p as it is garbled.                                    *)
Raw(R, p, k) ==
    IF k = 0
    THEN [a |-> Operands(R, p, 1), b |-> Operands(R, p, 2), c |-> MintOf(R, p, FreeDraw(R))]
    ELSE [a |-> MintOf(R, p, FreeDraw(R) + (3 * k - 2) * Len(R)),
          b |-> MintOf(R, p, (FreeDraw(R) + (3 * k - 2) * Len(R)) + Len(R)),
          c |-> MintOf(R, p, (FreeDraw(R) + (3 * k - 2) * Len(R)) + 2 * Len(R))]

Tweak(R, k, i) == k * PadOf(R) + i

CipherOf(R, p, k) ==
    [i \in LanesOf(R) |-> Ciphertext(p, Raw(R, p, k).a[i], Raw(R, p, k).b[i], Tweak(R, k, i))]

SOf(R, p, k) ==
    [i \in LanesOf(R) |-> EvalS(p, Raw(R, p, k).a[i], Raw(R, p, k).b[i], Raw(R, p, k).c[i],
                                CipherOf(R, Peer(p), k)[i], Tweak(R, k, i))]

SBits(R, p, k) == [i \in LanesOf(R) |-> LSB1(SOf(R, p, k)[i])]

(* What the s-open of layer k opens, and what it makes of the layer.       *)
Opening(R, p, k) == [i \in LanesOf(R) |-> SBits(R, p, k)[i] ++ SBits(R, Peer(p), k)[i]]

LOf(R, p, k) == [i \in LanesOf(R) |-> SOf(R, p, k)[i] ++ (Opening(R, p, k)[i] ** Delta(p))]

Folded(R, p, k) ==
    [a |-> Raw(R, p, k).a, b |-> Raw(R, p, k).b,
     c |-> [i \in LanesOf(R) |-> FoldBit(p, Raw(R, p, k).c[i], Opening(R, p, k)[i])]]

(* Layer m absorbing sacrifice layer n under shift r, with the gap of the  *)
(* b-shares: one party's share of it, and the opened one.                  *)
GapOf(R, m, n, r) ==
    [i \in LanesOf(R) |-> LSB(m.b[i].mac) ++ LSB(n.b[SrcOf(R, i, r)].mac)]

AbsorbedOf(R, m, n, r) ==
    [a |-> [i \in LanesOf(R) |-> XorBundles(m.a[i], n.a[SrcOf(R, i, r)])], b |-> m.b,
     c |-> [i \in LanesOf(R) |-> XorBundles(m.c[i], n.c[SrcOf(R, i, r)])]]

CombinedOf(R, m, n, r, d) ==
    [a |-> m.a, b |-> m.b,
     c |-> [i \in LanesOf(R) |-> XorBundles(m.c[i], AndBundle(d[i], n.a[SrcOf(R, i, r)]))]]

(* The opened differences of operands and triple, and the result.          *)
OpenOf(R, p, m) ==
    [x |-> [i \in LanesOf(R) |-> LSB(WireShare(p, R[i][1]).mac) ++ LSB(m.a[i].mac)],
     y |-> [i \in LanesOf(R) |-> LSB(WireShare(p, R[i][2]).mac) ++ LSB(m.b[i].mac)]]

ResultOf(R, p, m, u, v) ==
    [i \in LanesOf(R) |->
       FoldBit(p, XorBundles(m.c[i], XorBundles(AndBundle(u.x[i] ++ v.x[i], m.b[i]),
                                                AndBundle(u.y[i] ++ v.y[i], m.a[i]))),
               (u.x[i] ++ v.x[i]) ** (u.y[i] ++ v.y[i]))]
-------------------------------------------------------------------------------
(* Lane i of the layers m and n of the two parties holds a triple.         *)
LaneGood(m, n, i) ==
    /\ Shared(Garbler, m.a[i], n.a[i]) /\ Shared(Garbler, m.b[i], n.b[i])
    /\ Shared(Garbler, m.c[i], n.c[i])
    /\ Opened(m.c[i], n.c[i]) = Opened(m.a[i], n.a[i]) ** Opened(m.b[i], n.b[i])

(* The shares of a request's operands are finite XORs of draws.            *)
LEMMA RequestIs ==
    ASSUME NEW R \in Reps
    PROVE  /\ Len(R) \in Nat \ {0} /\ PadOf(R) \in Nat
           /\ \A i \in LanesOf(R) : IsFiniteSet(R[i][1]) /\ IsFiniteSet(R[i][2])
<1>1. /\ R # <<>> /\ R \in Seq((SUBSET Nat) \X (SUBSET Nat)) /\ Batch \in Nat \ {0}
      /\ \A i \in DOMAIN R : IsFiniteSet(R[i][1]) /\ IsFiniteSet(R[i][2])
  BY TriplePoolAssumption
<1>2. Len(R) \in Nat /\ DOMAIN R = 1 .. Len(R) /\ Len(R) # 0
  BY <1>1
<1>3. (Len(R) + Batch - 1) \div Batch \in Nat
  <2>1. \A n \in Nat, b \in Nat \ {0} : n \div b \in Nat
    OBVIOUS
  <2>2. Len(R) + Batch - 1 \in Nat
    BY <1>1, <1>2
  <2> QED
    BY <1>1, <2>1, <2>2
<1>4. PadOf(R) \in Nat
  <2>1. \A m, n \in Nat : m * n \in Nat
    OBVIOUS
  <2> QED
    BY <1>1, <1>3, <2>1 DEF PadOf
<1> QED
  BY <1>1, <1>2, <1>4 DEF LanesOf

(* Before the fold the shares of a layer are shares of one draw or wire.   *)
LEMMA RawShared ==
    ASSUME NEW R \in Reps, NEW p \in Party, NEW k, NEW i \in LanesOf(R)
    PROVE  /\ Shared(p, Raw(R, p, k).a[i], Raw(R, Peer(p), k).a[i])
           /\ Shared(p, Raw(R, p, k).b[i], Raw(R, Peer(p), k).b[i])
           /\ Shared(p, Raw(R, p, k).c[i], Raw(R, Peer(p), k).c[i])
           /\ \A q : Raw(R, q, k).c[i] = [mac |-> Raw(R, q, k).c[i].mac,
                                          key |-> Raw(R, q, k).c[i].key]
<1>1. \A n : Shared(p, MintOf(R, p, n)[i], MintOf(R, Peer(p), n)[i])
  BY CotShared DEF MintOf
<1>2. \A j \in {1, 2} : Shared(p, Operands(R, p, j)[i], Operands(R, Peer(p), j)[i])
  BY RequestIs, WireShared DEF Operands
<1>3. \A q, n : MintOf(R, q, n)[i] = [mac |-> MintOf(R, q, n)[i].mac, key |-> MintOf(R, q, n)[i].key]
  BY DEF MintOf, CotShare
<1>4. CASE k = 0
  BY <1>1, <1>2, <1>3, <1>4 DEF Raw
<1>5. CASE k # 0
  BY <1>1, <1>3, <1>5 DEF Raw
<1> QED
  BY <1>4, <1>5

(* The s-open of layer k at either party: the same bit per lane, which is  *)
(* x y + r of the lane.                                                    *)
LEMMA OpeningIs ==
    ASSUME NEW R \in Reps, NEW k, NEW i \in LanesOf(R)
    PROVE  LET m == Raw(R, Garbler, k) n == Raw(R, Evaluator, k)
               z == (Opened(m.a[i], n.a[i]) ** Opened(m.b[i], n.b[i])) ++ Opened(m.c[i], n.c[i])
           IN /\ IsBit(z) /\ \A p \in Party : Opening(R, p, k)[i] = z
              /\ LOf(R, Garbler, k)[i] = LOf(R, Evaluator, k)[i]
<1> DEFINE m == Raw(R, Garbler, k)
           n == Raw(R, Evaluator, k)
           z == (Opened(m.a[i], n.a[i]) ** Opened(m.b[i], n.b[i])) ++ Opened(m.c[i], n.c[i])
           S == SOf(R, Garbler, k)[i]
           T == SOf(R, Evaluator, k)[i]
<1>1. /\ Shared(Garbler, m.a[i], n.a[i]) /\ Shared(Garbler, m.b[i], n.b[i])
      /\ Shared(Garbler, m.c[i], n.c[i])
  BY Peers, RawShared
<1>2. /\ S = EvalS(Garbler, m.a[i], m.b[i], m.c[i],
                   Ciphertext(Evaluator, n.a[i], n.b[i], Tweak(R, k, i)), Tweak(R, k, i))
      /\ T = EvalS(Evaluator, n.a[i], n.b[i], n.c[i],
                   Ciphertext(Garbler, m.a[i], m.b[i], Tweak(R, k, i)), Tweak(R, k, i))
  BY Peers DEF SOf, CipherOf
<1>3. IsBlock(S) /\ IsBlock(T) /\ IsBit(z) /\ S ++ T = z ** Deltas(Garbler)
  <2> HIDE DEF m, n, S, T
  <2> QED
    BY <1>1, <1>2, Peers, LeakyAnd
<1>4. LSB1(S) ++ LSB1(T) = z /\ S ++ (z ** Delta(Garbler)) = T ++ (z ** Delta(Evaluator))
  <2> HIDE DEF S, T, z
  <2> QED
    BY <1>3, LeakyOpen
<1>5. Opening(R, Garbler, k)[i] = z /\ Opening(R, Evaluator, k)[i] = z
  <2>1. /\ Opening(R, Garbler, k)[i] = LSB1(S) ++ LSB1(T)
        /\ Opening(R, Evaluator, k)[i] = LSB1(T) ++ LSB1(S)
    BY Peers DEF Opening, SBits
  <2> HIDE DEF S, T, z
  <2> QED
    BY <1>4, <2>1, XorIs
<1>6. LOf(R, Garbler, k)[i] = LOf(R, Evaluator, k)[i]
  <2>1. /\ LOf(R, Garbler, k)[i] = S ++ (Opening(R, Garbler, k)[i] ** Delta(Garbler))
        /\ LOf(R, Evaluator, k)[i] = T ++ (Opening(R, Evaluator, k)[i] ** Delta(Evaluator))
    BY DEF LOf
  <2> HIDE DEF S, T, z
  <2> QED
    BY <1>4, <1>5, <2>1
<1> HIDE DEF z
<1>7. \A p \in Party : Opening(R, p, k)[i] = z
  BY <1>5 DEF Party
<1> QED
  BY <1>3, <1>6, <1>7 DEF z

(* Both parties hash the same L-vector, and the folded layer is a triple.  *)
LEMMA VectorsAgree ==
    ASSUME NEW R \in Reps, NEW k
    PROVE  LOf(R, Garbler, k) = LOf(R, Evaluator, k)
<1>1. \A i \in LanesOf(R) : LOf(R, Garbler, k)[i] = LOf(R, Evaluator, k)[i]
  BY OpeningIs
<1>2. \A p : LOf(R, p, k) = [i \in LanesOf(R) |-> LOf(R, p, k)[i]]
  BY DEF LOf
<1> QED
  BY <1>1, <1>2

LEMMA FoldedGood ==
    ASSUME NEW R \in Reps, NEW k, NEW i \in LanesOf(R)
    PROVE  LaneGood(Folded(R, Garbler, k), Folded(R, Evaluator, k), i)
<1> DEFINE m == Raw(R, Garbler, k)
           n == Raw(R, Evaluator, k)
           x == Opened(m.a[i], n.a[i]) ** Opened(m.b[i], n.b[i])
           r == Opened(m.c[i], n.c[i])
           z == x ++ r
           s == m.c[i]
           t == n.c[i]
           f == Folded(R, Garbler, k)
           g == Folded(R, Evaluator, k)
<1>1. /\ Shared(Garbler, m.a[i], n.a[i]) /\ Shared(Garbler, m.b[i], n.b[i])
      /\ Shared(Garbler, s, t)
      /\ s = [mac |-> s.mac, key |-> s.key] /\ t = [mac |-> t.mac, key |-> t.key]
  BY Peers, RawShared
<1>2. IsBit(z) /\ Opening(R, Garbler, k)[i] = z /\ Opening(R, Evaluator, k)[i] = z
  BY OpeningIs, Peers
<1>3. /\ f.a[i] = m.a[i] /\ f.b[i] = m.b[i] /\ g.a[i] = n.a[i] /\ g.b[i] = n.b[i]
      /\ f.c[i] = FoldBit(Garbler, s, z) /\ g.c[i] = FoldBit(Evaluator, t, z)
  BY <1>2 DEF Folded
<1>4. Shared(Garbler, f.c[i], g.c[i]) /\ Opened(f.c[i], g.c[i]) = r ++ z
  <2>1. r = Opened(s, t)
    OBVIOUS
  <2> HIDE DEF f, g, s, t, z, r
  <2> QED
    BY <1>1, <1>2, <1>3, <2>1, FoldShared
<1>5. r ++ (x ++ r) = x
  <2> HIDE DEF x, r
  <2> QED
    BY XorIs
<1>6. /\ Opened(f.a[i], g.a[i]) = Opened(m.a[i], n.a[i])
      /\ Opened(f.b[i], g.b[i]) = Opened(m.b[i], n.b[i])
  BY <1>3
<1>7. Opened(f.c[i], g.c[i]) = Opened(f.a[i], g.a[i]) ** Opened(f.b[i], g.b[i])
  <2>1. Opened(f.c[i], g.c[i]) = x
    BY <1>4, <1>5
  <2> HIDE DEF f, g, m, n
  <2> QED
    BY <1>6, <2>1
<1>8. LaneGood(f, g, i)
  <2> HIDE DEF f, g, m, n
  <2> QED
    BY <1>1, <1>3, <1>4, <1>7 DEF LaneGood
<1> QED
  BY <1>8

(* Absorbing and combining two triples gives a triple again: with d the    *)
(* opened difference of the b's, z + z' + d x' = (x + x') y.               *)
LEMMA CombineBits ==
    ASSUME NEW x, NEW y, NEW u, NEW v, IsBit(x), IsBit(y), IsBit(u), IsBit(v)
    PROVE  ((x ** y) ++ (u ** v)) ++ ((y ++ v) ** u) = (x ++ u) ** y
<1>1. (y ++ v) ** u = (y ** u) ++ (v ** u) /\ (x ++ u) ** y = (x ** y) ++ (u ** y)
  BY BitTimes
<1>2. v ** u = u ** v /\ y ** u = u ** y
  BY BitTimes
<1>3. \A a, b, c : (a ++ b) ++ (c ++ b) = a ++ c
  BY DEF ++, XorBit, SymDiff
<1> QED
  BY <1>1, <1>2, <1>3

(* The bits of a XOR of shares, and of a share AND a public bit.           *)
LEMMA XorOpens ==
    ASSUME NEW p \in Party, NEW s, NEW t, NEW u, NEW v, Shared(p, s, t), Shared(p, u, v)
    PROVE  /\ Shared(p, XorBundles(s, u), XorBundles(t, v))
           /\ Opened(XorBundles(s, u), XorBundles(t, v)) = Opened(s, t) ++ Opened(u, v)
<1>1. \A a, b, c, d : (a ++ b) ++ (c ++ d) = (a ++ c) ++ (b ++ d)
  BY DEF ++, XorBit, SymDiff
<1>2. /\ Shared(p, XorBundles(s, u), XorBundles(t, v))
      /\ LSB(XorBundles(s, u).mac) = LSB(s.mac) ++ LSB(u.mac)
      /\ LSB(XorBundles(t, v).mac) = LSB(t.mac) ++ LSB(v.mac)
  BY SharedXor
<1> QED
  BY <1>1, <1>2 DEF Opened

LEMMA AndOpens ==
    ASSUME NEW p \in Party, NEW s, NEW t, NEW d, Shared(p, s, t), IsBit(d)
    PROVE  /\ Shared(p, AndBundle(d, s), AndBundle(d, t))
           /\ Opened(AndBundle(d, s), AndBundle(d, t)) = d ** Opened(s, t)
<1>1. /\ Shared(p, AndBundle(d, s), AndBundle(d, t))
      /\ LSB(AndBundle(d, s).mac) = d ** LSB(s.mac)
      /\ LSB(AndBundle(d, t).mac) = d ** LSB(t.mac)
  BY SharedAnd
<1>2. d ** (LSB(s.mac) ++ LSB(t.mac)) = (d ** LSB(s.mac)) ++ (d ** LSB(t.mac))
  BY OpenedBit, BitTimes
<1> QED
  BY <1>1, <1>2 DEF Opened

LEMMA CombinedGood ==
    ASSUME NEW R, NEW r, NEW i \in LanesOf(R), NEW m, NEW n, NEW s, NEW t,
           LaneGood(m, n, i), LaneGood(s, t, SrcOf(R, i, r)),
           NEW d, d[i] = GapOf(R, m, s, r)[i] ++ GapOf(R, n, t, r)[i]
    PROVE  LaneGood(CombinedOf(R, AbsorbedOf(R, m, s, r), s, r, d),
                    CombinedOf(R, AbsorbedOf(R, n, t, r), t, r, d), i)
<1> DEFINE j == SrcOf(R, i, r)
           f == CombinedOf(R, AbsorbedOf(R, m, s, r), s, r, d)
           g == CombinedOf(R, AbsorbedOf(R, n, t, r), t, r, d)
           x == Opened(m.a[i], n.a[i])
           y == Opened(m.b[i], n.b[i])
           u == Opened(s.a[j], t.a[j])
           v == Opened(s.b[j], t.b[j])
           e == d[i]
           cm == XorBundles(m.c[i], s.c[j])
           cn == XorBundles(n.c[i], t.c[j])
           em == AndBundle(e, s.a[j])
           en == AndBundle(e, t.a[j])
<1>1. /\ f.a[i] = XorBundles(m.a[i], s.a[j]) /\ g.a[i] = XorBundles(n.a[i], t.a[j])
      /\ f.b[i] = m.b[i] /\ g.b[i] = n.b[i]
      /\ f.c[i] = XorBundles(cm, em) /\ g.c[i] = XorBundles(cn, en)
  BY DEF CombinedOf, AbsorbedOf
<1>2. /\ Shared(Garbler, m.a[i], n.a[i]) /\ Shared(Garbler, m.b[i], n.b[i])
      /\ Shared(Garbler, m.c[i], n.c[i]) /\ Opened(m.c[i], n.c[i]) = x ** y
      /\ Shared(Garbler, s.a[j], t.a[j]) /\ Shared(Garbler, s.b[j], t.b[j])
      /\ Shared(Garbler, s.c[j], t.c[j]) /\ Opened(s.c[j], t.c[j]) = u ** v
  BY DEF LaneGood
<1>3. /\ Garbler \in Party /\ IsBit(x) /\ IsBit(y) /\ IsBit(u) /\ IsBit(v)
  BY <1>2, Peers, OpenedBit
<1>4. e = y ++ v /\ IsBit(e)
  <2>1. e = (LSB(m.b[i].mac) ++ LSB(s.b[j].mac)) ++ (LSB(n.b[i].mac) ++ LSB(t.b[j].mac))
    BY DEF GapOf
  <2>2. \A a, b, c, k : (a ++ b) ++ (c ++ k) = (a ++ c) ++ (b ++ k)
    BY DEF ++, XorBit, SymDiff
  <2>3. e = y ++ v
    BY <2>1, <2>2 DEF Opened
  <2> QED
    BY <1>3, <2>3, BitClosed
<1> HIDE DEF j, e
<1>5. /\ Shared(Garbler, f.a[i], g.a[i]) /\ Opened(f.a[i], g.a[i]) = x ++ u
  <2> HIDE DEF f, g
  <2> QED
    BY <1>1, <1>2, <1>3, XorOpens
<1>6. /\ Shared(Garbler, cm, cn) /\ Opened(cm, cn) = (x ** y) ++ (u ** v)
  BY <1>2, <1>3, XorOpens
<1>7. /\ Shared(Garbler, em, en) /\ Opened(em, en) = e ** u
  BY <1>2, <1>3, <1>4, AndOpens
<1>8. /\ Shared(Garbler, f.c[i], g.c[i])
      /\ Opened(f.c[i], g.c[i]) = ((x ** y) ++ (u ** v)) ++ (e ** u)
  <2> HIDE DEF f, g, cm, cn, em, en
  <2> QED
    BY <1>1, <1>3, <1>6, <1>7, XorOpens
<1>9. ((x ** y) ++ (u ** v)) ++ (e ** u) = (x ++ u) ** y
  <2> HIDE DEF x, y, u, v
  <2> QED
    BY <1>3, <1>4, CombineBits
<1>10. LaneGood(f, g, i)
  <2>1. Opened(f.b[i], g.b[i]) = y
    BY <1>1
  <2>2. Opened(f.c[i], g.c[i]) = Opened(f.a[i], g.a[i]) ** Opened(f.b[i], g.b[i])
    <3> HIDE DEF f, g, x, y, u, v
    <3> QED
      BY <1>5, <1>8, <1>9, <2>1
  <2> HIDE DEF f, g
  <2> QED
    BY <1>1, <1>2, <1>5, <1>8, <2>2 DEF LaneGood
<1> QED
  BY <1>10

(* The Beaver identity: with p = a + X and q = b + Y,                      *)
(* XY + p Y + q X + p q = a b.                                             *)
LEMMA BeaverBits ==
    ASSUME NEW a, NEW b, NEW X, NEW Y, IsBit(a), IsBit(b), IsBit(X), IsBit(Y)
    PROVE  ((X ** Y) ++ (((a ++ X) ** Y) ++ ((b ++ Y) ** X))) ++ ((a ++ X) ** (b ++ Y)) = a ** b
<1>1. (a ++ X) ** Y = (a ** Y) ++ (X ** Y) /\ (b ++ Y) ** X = (b ** X) ++ (Y ** X)
  BY BitTimes
<1>2. (a ++ X) ** (b ++ Y) = (a ** (b ++ Y)) ++ (X ** (b ++ Y))
  BY BitTimes, BitClosed
<1>3. a ** (b ++ Y) = (a ** b) ++ (a ** Y) /\ X ** (b ++ Y) = (X ** b) ++ (X ** Y)
  BY BitTimes
<1>4. Y ** X = X ** Y /\ b ** X = X ** b
  BY BitTimes
<1>5. \A ab, ay, xb, xy : (xy ++ ((ay ++ xy) ++ (xb ++ xy))) ++ ((ab ++ ay) ++ (xb ++ xy)) = ab
  BY DEF ++, XorBit, SymDiff
<1> QED
  BY <1>1, <1>2, <1>3, <1>4, <1>5

LEMMA ResultGood ==
    ASSUME NEW R \in Reps, NEW i \in LanesOf(R), NEW m, NEW n, LaneGood(m, n, i)
    PROVE  LET u == OpenOf(R, Garbler, m)
               v == OpenOf(R, Evaluator, n)
               s == ResultOf(R, Garbler, m, u, v)[i]
               t == ResultOf(R, Evaluator, n, v, u)[i]
           IN Shared(Garbler, s, t) /\ Opened(s, t) = MaskOf(R[i][1]) ** MaskOf(R[i][2])
<1> DEFINE u == OpenOf(R, Garbler, m)
           v == OpenOf(R, Evaluator, n)
           s == ResultOf(R, Garbler, m, u, v)[i]
           t == ResultOf(R, Evaluator, n, v, u)[i]
           a == MaskOf(R[i][1])
           b == MaskOf(R[i][2])
           X == Opened(m.a[i], n.a[i])
           Y == Opened(m.b[i], n.b[i])
           xb == a ++ X
           yb == b ++ Y
           cm == XorBundles(m.c[i], XorBundles(AndBundle(xb, m.b[i]), AndBundle(yb, m.a[i])))
           cn == XorBundles(n.c[i], XorBundles(AndBundle(xb, n.b[i]), AndBundle(yb, n.a[i])))
<1>1. /\ Shared(Garbler, m.a[i], n.a[i]) /\ Shared(Garbler, m.b[i], n.b[i])
      /\ Shared(Garbler, m.c[i], n.c[i]) /\ Opened(m.c[i], n.c[i]) = X ** Y
  BY DEF LaneGood
<1>2. Garbler \in Party /\ IsBit(X) /\ IsBit(Y) /\ IsBit(a) /\ IsBit(b)
  BY <1>1, Peers, OpenedBit, RequestIs, MaskIs
<1>3. IsBit(xb) /\ IsBit(yb) /\ IsBit(xb ** yb)
  BY <1>2, BitClosed
<1>4. /\ u.x[i] ++ v.x[i] = xb /\ v.x[i] ++ u.x[i] = xb
      /\ u.y[i] ++ v.y[i] = yb /\ v.y[i] ++ u.y[i] = yb
  <2>1. \A g, h, k, l : /\ (g ++ h) ++ (k ++ l) = (g ++ k) ++ (h ++ l)
                        /\ (k ++ l) ++ (g ++ h) = (g ++ k) ++ (h ++ l)
    BY DEF ++, XorBit, SymDiff
  <2>2. /\ u.x[i] = LSB(WireShare(Garbler, R[i][1]).mac) ++ LSB(m.a[i].mac)
        /\ u.y[i] = LSB(WireShare(Garbler, R[i][2]).mac) ++ LSB(m.b[i].mac)
        /\ v.x[i] = LSB(WireShare(Evaluator, R[i][1]).mac) ++ LSB(n.a[i].mac)
        /\ v.y[i] = LSB(WireShare(Evaluator, R[i][2]).mac) ++ LSB(n.b[i].mac)
    BY DEF OpenOf
  <2>3. /\ xb = (LSB(WireShare(Garbler, R[i][1]).mac) ++ LSB(WireShare(Evaluator, R[i][1]).mac))
                  ++ (LSB(m.a[i].mac) ++ LSB(n.a[i].mac))
        /\ yb = (LSB(WireShare(Garbler, R[i][2]).mac) ++ LSB(WireShare(Evaluator, R[i][2]).mac))
                  ++ (LSB(m.b[i].mac) ++ LSB(n.b[i].mac))
    BY DEF MaskOf, Opened
  <2> HIDE DEF xb, yb, u, v
  <2> QED
    BY <2>1, <2>2, <2>3, SMTT(20), ZenonT(60)
<1>5. s = FoldBit(Garbler, cm, xb ** yb) /\ t = FoldBit(Evaluator, cn, xb ** yb)
  <2>1. /\ s = FoldBit(Garbler, XorBundles(m.c[i],
                         XorBundles(AndBundle(u.x[i] ++ v.x[i], m.b[i]),
                                    AndBundle(u.y[i] ++ v.y[i], m.a[i]))),
                       (u.x[i] ++ v.x[i]) ** (u.y[i] ++ v.y[i]))
        /\ t = FoldBit(Evaluator, XorBundles(n.c[i],
                         XorBundles(AndBundle(v.x[i] ++ u.x[i], n.b[i]),
                                    AndBundle(v.y[i] ++ u.y[i], n.a[i]))),
                       (v.x[i] ++ u.x[i]) ** (v.y[i] ++ u.y[i]))
    BY DEF ResultOf
  <2> HIDE DEF u, v, xb, yb, s, t
  <2> QED
    BY <1>4, <2>1
<1>6. Shared(Garbler, cm, cn) /\ Opened(cm, cn) = (X ** Y) ++ ((xb ** Y) ++ (yb ** X))
  <2> HIDE DEF xb, yb
  <2>1. /\ Shared(Garbler, AndBundle(xb, m.b[i]), AndBundle(xb, n.b[i]))
        /\ Opened(AndBundle(xb, m.b[i]), AndBundle(xb, n.b[i])) = xb ** Y
        /\ Shared(Garbler, AndBundle(yb, m.a[i]), AndBundle(yb, n.a[i]))
        /\ Opened(AndBundle(yb, m.a[i]), AndBundle(yb, n.a[i])) = yb ** X
    BY <1>1, <1>2, <1>3, AndOpens
  <2> QED
    BY <1>1, <1>2, <2>1, XorOpens
<1>7. Shared(Garbler, s, t) /\ Opened(s, t) = Opened(cm, cn) ++ (xb ** yb)
  <2>1. cm = [mac |-> cm.mac, key |-> cm.key] /\ cn = [mac |-> cn.mac, key |-> cn.key]
    BY DEF XorBundles
  <2> HIDE DEF s, t, cm, cn, xb, yb
  <2> QED
    BY <1>3, <1>5, <1>6, <2>1, FoldShared
<1>8. ((X ** Y) ++ ((xb ** Y) ++ (yb ** X))) ++ (xb ** yb) = a ** b
  <2> HIDE DEF X, Y, a, b
  <2> QED
    BY <1>2, BeaverBits
<1> HIDE DEF s, t, cm, cn, xb, yb, X, Y, a, b
<1>9. Opened(s, t) = a ** b
  BY <1>6, <1>7, <1>8
<1> QED
  BY <1>7, <1>9 DEF s, t, a, b
-------------------------------------------------------------------------------
(* The invariant of the whole exchange.  A history H records, for each     *)
(* layer k whose coin was taken, the shift r and what the layers up to k   *)
(* are combined into at each party; H[0] is the representative layer.      *)
(* Every buffer of a party is a value of the history and of where the      *)
(* party is, and every message in flight one of its number in the channel. *)
Prior(H, p, k) == H[k - 1].of[p]

Gap(R, H, p, k, r)      == GapOf(R, Prior(H, p, k), Folded(R, p, k), r)
Absorption(R, H, p, k, r) == AbsorbedOf(R, Prior(H, p, k), Folded(R, p, k), r)

Difference(R, H, p, k, r) ==
    [i \in LanesOf(R) |-> Gap(R, H, p, k, r)[i] ++ Gap(R, H, Peer(p), k, r)[i]]

Combination(R, H, p, k, r) ==
    CombinedOf(R, Absorption(R, H, p, k, r), Folded(R, p, k), r, Difference(R, H, p, k, r))

HistoryOk(R, H) ==
    /\ 0 \in DOMAIN H /\ DOMAIN H \subseteq Nat
    /\ \A p \in Party : H[0].of[p] = Folded(R, p, 0)
    /\ \A k \in DOMAIN H : k # 0 =>
         /\ k - 1 \in DOMAIN H
         /\ \A p \in Party : H[k].of[p] = Combination(R, H, p, k, H[k].r)
    /\ \A k \in DOMAIN H, i \in LanesOf(R) :
         LaneGood(H[k].of[Garbler], H[k].of[Evaluator], i)

(* The history holds the layers whose coin the oracle has been asked for.  *)
CoinsAsked(H) ==
    \A k \in Nat : k # 0 => /\ Point(k) \in DOMAIN coin <=> k \in DOMAIN H
                            /\ k \in DOMAIN H => H[k].r = coin[Point(k)]

(* A later history agrees with H on what H has.                            *)
Later(H, K) == \A k \in DOMAIN H : k \in DOMAIN K /\ K[k] = H[k]

(* The layers there are, and the last one.                                 *)
Continues(R, k) == k < get_bucket_size(Len(R)) - 1
IsLayer(R, k) == k \in Nat /\ \A j \in 1 .. (k - 1) : Continues(R, j)
IsLast(R, k)  == k # 0 /\ IsLayer(R, k) /\ ~Continues(R, k)

FeqOf(R, p, n) == [j \in 1 .. n |-> LOf(R, p, j - 1)]
OpenedBy(R, H, p, k) == OpenOf(R, p, H[k].of[p])
ResultBy(R, H, p, k) ==
    ResultOf(R, p, H[k].of[p], OpenedBy(R, H, p, k), OpenedBy(R, H, Peer(p), k))

Writer(c) == IF c = "io" THEN Garbler ELSE Evaluator
Reader(c) == Peer(Writer(c))

(* msg can be message number n of channel c.                               *)
LoopMessage(R, H, p, n, msg) ==
    \A k \in Nat : IsLayer(R, k) =>
      /\ n = Before(k) + 1 => msg = CipherOf(R, p, k)
      /\ n = Before(k) + 2 => msg = SBits(R, p, k)
      /\ n = Before(k) + 3 /\ k # 0 => k \in DOMAIN H /\ msg = Gap(R, H, p, k, H[k].r)

LastMessage(R, H, c, n, msg) ==
    \A k \in Nat : IsLast(R, k) =>
      /\ c = "io" /\ n = Before(k) + 4 => msg = <<"com", FeqOf(R, Garbler, k + 1)>>
      /\ c = "io" /\ n = Before(k) + 5 => msg = FeqOf(R, Garbler, k + 1)
      /\ c = "io" /\ n = Before(k) + 6 => k \in DOMAIN H /\ msg = OpenedBy(R, H, Garbler, k)
      /\ c = "sib" /\ n = Before(k) + 4 => k \in DOMAIN H /\ msg = OpenedBy(R, H, Evaluator, k)
      /\ c = "io_back" /\ n = 1 => msg = FeqOf(R, Evaluator, k + 1)

Message(R, H, c, n, msg) ==
    /\ c # "io_back" => LoopMessage(R, H, Writer(c), n, msg)
    /\ LastMessage(R, H, c, n, msg)

(* Queue w of channel c, of which s messages were sent and r read.         *)
IsQueue(w) == \E S : w \in Seq(S)

Carries(R, H, c, w, s, r) ==
    /\ IsQueue(w) /\ r + Len(w) = s
    /\ \A j \in 1 .. Len(w) : Message(R, H, c, r + j, w[j])

ChannelsOk(R, H) ==
    \A c \in Channel : Carries(R, H, c, wire[c], seen[Writer(c)][c], seen[Reader(c)][c])
-------------------------------------------------------------------------------
(* The steps of party p after the loop, and what it has sent and read in   *)
(* them when it is about to take step a.                                   *)
Ending(p) == {"feq", IF p = Garbler THEN "feq_answer" ELSE "feq_open",
              "reconcile", "sigma", "done"}

SentAfter(p, a) ==
    IF p = Garbler
    THEN CASE a = "feq" -> 0 [] a = "feq_answer" -> 1 [] a = "reconcile" -> 2 [] OTHER -> 3
    ELSE IF a \in {"sigma", "done"} THEN 1 ELSE 0

ReadAfter(p, a) ==
    IF p = Garbler
    THEN IF a = "done" THEN 1 ELSE 0
    ELSE CASE a = "feq" -> 0 [] a = "feq_open" -> 1 [] a = "done" -> 3 [] OTHER -> 2

BackAfter(p, a) == IF a \in {"feq", "feq_answer"} THEN 0 ELSE 1

(* The layers a party has folded, and hashed.                              *)
Folds(a, k)  == IF a \in {"mint", "garble", "eval", "sopen"} THEN k ELSE k + 1
Hashed(a, k) == IF a \in {"mint", "garble", "eval"} THEN k ELSE k + 1

AccOf(R, H, p, a, k) ==
    IF a \in After THEN H[k].of[p]
    ELSE IF a = "bucket" THEN Absorption(R, H, p, k, H[k].r)
    ELSE IF k # 0 THEN H[k - 1].of[p]
    ELSE IF a = "mint" THEN [a |-> Operands(R, p, 1), b |-> Operands(R, p, 2), c |-> <<>>]
    ELSE Raw(R, p, 0)

(* Where a party can be.                                                   *)
Stage(R, H, p, a, k) ==
    /\ a \in Looping \cup Ending(p) /\ IsLayer(R, k)
    /\ a \in {"coin", "bucket"} => k # 0
    /\ a \in After => IsLast(R, k)
    /\ k # 0 => k - 1 \in DOMAIN H
    /\ a \in After \cup {"bucket"} => k \in DOMAIN H

(* What its buffers hold there.                                            *)
Buffers(R, H, p, a, k) ==
    /\ acc[p] = AccOf(R, H, p, a, k)
    /\ a \in {"garble", "eval", "sopen"} /\ k # 0 => sac[p] = Raw(R, p, k)
    /\ a \in {"coin", "bucket"} => sac[p] = Folded(R, p, k)
    /\ a = "sopen" => Sout[p] = SOf(R, p, k) /\ held[p] = SBits(R, p, k)
    /\ a = "bucket" => held[p] = Gap(R, H, p, k, H[k].r)
    /\ a = "feq_open" => held[p] = <<"com", FeqOf(R, Garbler, k + 1)>>
    /\ a = "sigma" => held[p] = OpenedBy(R, H, p, k)
    /\ a = "done" => sigma[p] = ResultBy(R, H, p, k)
    /\ feq[p] = FeqOf(R, p, Folds(a, k))
    /\ gid[p] = Hashed(a, k) * PadOf(R)

(* How much it has sent and read after the loop.                           *)
CountedAfter(p, a, k) ==
    a \in After =>
      /\ seen[p][send_io(p)] = (Before(k) + 3) + SentAfter(p, a)
      /\ seen[p][recv_io(p)] = (Before(k) + 3) + ReadAfter(p, a)
      /\ seen[p]["io_back"] = BackAfter(p, a)

Local(R, H, p, a, k) ==
    Stage(R, H, p, a, k) /\ Buffers(R, H, p, a, k) /\ CountedAfter(p, a, k)

Indexed ==
    /\ DOMAIN acc = Party /\ DOMAIN sac = Party /\ DOMAIN Sout = Party /\ DOMAIN held = Party
    /\ DOMAIN feq = Party /\ DOMAIN gid = Party /\ DOMAIN sigma = Party
    /\ DOMAIN wire = Channel

ExchangeInv(R, H) ==
    /\ rep = R /\ R \in Reps /\ Indexed
    /\ HistoryOk(R, H) /\ CoinsAsked(H)
    /\ ChannelsOk(R, H)
    /\ \A p \in Party : Local(R, H, p, at[p], layer[p])

PoolInv == \E R, H : ExchangeInv(R, H)
-------------------------------------------------------------------------------
(* Layers: the next one exists if the loop continues, and the last one is  *)
(* the greatest.                                                           *)
LEMMA Layers ==
    ASSUME NEW R
    PROVE  /\ IsLayer(R, 0) /\ IsLayer(R, 1)
           /\ \A k : IsLayer(R, k) /\ k # 0 /\ Continues(R, k) => IsLayer(R, k + 1)
           /\ \A j, k : IsLayer(R, j) /\ IsLast(R, k) => j <= k
           /\ \A j, k : IsLast(R, j) /\ IsLast(R, k) => j = k
<1>1. \A k \in Nat : IsLayer(R, k) <=> \A j \in 1 .. (k - 1) : Continues(R, j)
  BY DEF IsLayer
<1>2. \A k : IsLayer(R, k) => k \in Nat
  BY DEF IsLayer
<1>3. IsLayer(R, 0) /\ IsLayer(R, 1)
  BY <1>1
<1>4. ASSUME NEW k, IsLayer(R, k), k # 0, Continues(R, k) PROVE IsLayer(R, k + 1)
  <2>1. k \in Nat
    BY <1>2, <1>4
  <2>2. \A j \in 1 .. ((k + 1) - 1) : j \in 1 .. (k - 1) \/ j = k
    BY <2>1
  <2>3. \A j \in 1 .. (k - 1) : Continues(R, j)
    BY <1>1, <1>4, <2>1
  <2> QED
    BY <1>1, <1>4, <2>1, <2>2, <2>3
<1>5. ASSUME NEW j, NEW k, IsLayer(R, j), IsLast(R, k) PROVE j <= k
  <2>1. j \in Nat /\ k \in Nat /\ k # 0 /\ ~Continues(R, k)
    BY <1>2, <1>5 DEF IsLast
  <2>2. ~(k \in 1 .. (j - 1))
    BY <1>1, <1>5, <2>1
  <2> QED
    BY <2>1, <2>2
<1>6. ASSUME NEW j, NEW k, IsLast(R, j), IsLast(R, k) PROVE j = k
  <2>1. IsLayer(R, j) /\ IsLayer(R, k)
    BY <1>6 DEF IsLast
  <2>2. j <= k /\ k <= j /\ j \in Nat /\ k \in Nat
    BY <1>2, <1>5, <1>6, <2>1
  <2> QED
    BY <2>2
<1> QED
  BY <1>3, <1>4, <1>5, <1>6

(* Sending to and reading from a channel.                                  *)
LEMMA QueueAppend ==
    ASSUME NEW R, NEW H, NEW c, NEW w, NEW s \in Nat, NEW r \in Nat, NEW msg,
           Carries(R, H, c, w, s, r), Message(R, H, c, s + 1, msg)
    PROVE  Carries(R, H, c, Append(w, msg), s + 1, r)
<1>1. PICK S : w \in Seq(S)
  BY DEF Carries, IsQueue
<1> DEFINE T == S \cup {msg}
           v == Append(w, msg)
<1>2. w \in Seq(T) /\ msg \in T /\ Len(w) \in Nat
  BY <1>1
<1> HIDE DEF T
<1>3. /\ v \in Seq(T) /\ Len(v) = Len(w) + 1
      /\ \A j \in 1 .. Len(w) : v[j] = w[j]
      /\ v[Len(w) + 1] = msg
  BY <1>2, AppendProperties
<1>4. r + Len(w) = s
  BY DEF Carries
<1>5. ASSUME NEW j \in 1 .. Len(v) PROVE Message(R, H, c, r + j, v[j])
  <2>1. CASE j \in 1 .. Len(w)
    BY <1>3, <2>1 DEF Carries
  <2>2. CASE j = Len(w) + 1
    <3>1. r + j = s + 1
      BY <1>2, <1>4, <2>2
    <3> QED
      BY <1>3, <2>2, <3>1
  <2> QED
    BY <1>2, <1>3, <2>1, <2>2
<1>6. r + Len(v) = s + 1
  BY <1>2, <1>3, <1>4
<1> QED
  BY <1>3, <1>5, <1>6 DEF Carries, IsQueue

LEMMA QueueTail ==
    ASSUME NEW R, NEW H, NEW c, NEW w, NEW s \in Nat, NEW r \in Nat,
           Carries(R, H, c, w, s, r), w # <<>>
    PROVE  Carries(R, H, c, Tail(w), s, r + 1) /\ Message(R, H, c, r + 1, Head(w))
<1>1. PICK S : w \in Seq(S)
  BY DEF Carries, IsQueue
<1> DEFINE v == Tail(w)
<1>2. /\ v \in Seq(S) /\ Head(w) = w[1] /\ Len(v) = Len(w) - 1
      /\ Len(w) \in Nat /\ Len(w) >= 1
      /\ \A j \in 1 .. Len(v) : v[j] = w[j + 1]
  <2>1. Len(w) \in Nat /\ (Len(w) = 0 => w = <<>>)
    BY <1>1, EmptySeq
  <2>2. v \in Seq(S) /\ Head(w) = w[1] /\ Len(v) = Len(w) - 1
        /\ \A j \in 1 .. Len(v) : v[j] = w[j + 1]
    BY <1>1, HeadTailProperties
  <2> QED
    BY <2>1, <2>2
<1>3. r + Len(w) = s
  BY DEF Carries
<1> HIDE DEF v
<1>4. ASSUME NEW j \in 1 .. Len(v) PROVE Message(R, H, c, (r + 1) + j, v[j])
  <2>1. j + 1 \in 1 .. Len(w) /\ r + (j + 1) = (r + 1) + j
    BY <1>2
  <2>2. Message(R, H, c, r + (j + 1), w[j + 1])
    BY <2>1 DEF Carries
  <2> QED
    BY <1>2, <2>1, <2>2
<1>5. (r + 1) + Len(v) = s
  <2>1. \A x, y \in Nat : x >= 1 /\ r + x = s /\ y = x - 1 => (r + 1) + y = s
    OBVIOUS
  <2>2. Len(v) \in Nat
    BY <1>2
  <2> QED
    BY <1>2, <1>3, <2>1, <2>2
<1>6. Message(R, H, c, r + 1, w[1])
  BY <1>2 DEF Carries
<1> QED
  BY <1>2, <1>4, <1>5, <1>6 DEF Carries, IsQueue, v

(* What a later history says is what H says, where H says something.       *)
LEMMA LaterValues ==
    ASSUME NEW R, NEW H, NEW K, HistoryOk(R, H), Later(H, K)
    PROVE  /\ \A c, n, msg : Message(R, H, c, n, msg) => Message(R, K, c, n, msg)
           /\ \A p \in Party, k \in DOMAIN H :
                /\ H[k].of[p] = K[k].of[p]
                /\ OpenedBy(R, K, p, k) = OpenedBy(R, H, p, k)
                /\ ResultBy(R, K, p, k) = ResultBy(R, H, p, k)
           /\ \A p \in Party, k \in DOMAIN H : \A r : k # 0 =>
                /\ Gap(R, K, p, k, r) = Gap(R, H, p, k, r)
                /\ Absorption(R, K, p, k, r) = Absorption(R, H, p, k, r)
                /\ Combination(R, K, p, k, r) = Combination(R, H, p, k, r)
<1>1. \A k \in DOMAIN H : k \in DOMAIN K /\ K[k] = H[k]
  BY DEF Later
<1>2. \A k \in DOMAIN H : k # 0 => k - 1 \in DOMAIN H
  BY DEF HistoryOk
<1>3. ASSUME NEW p \in Party, NEW k \in DOMAIN H
      PROVE  /\ H[k].of[p] = K[k].of[p]
             /\ OpenedBy(R, K, p, k) = OpenedBy(R, H, p, k)
             /\ ResultBy(R, K, p, k) = ResultBy(R, H, p, k)
  BY <1>1, Peers DEF OpenedBy, ResultBy
<1>4. ASSUME NEW p \in Party, NEW k \in DOMAIN H, NEW r, k # 0
      PROVE  /\ Gap(R, K, p, k, r) = Gap(R, H, p, k, r)
             /\ Absorption(R, K, p, k, r) = Absorption(R, H, p, k, r)
             /\ Combination(R, K, p, k, r) = Combination(R, H, p, k, r)
  <2>1. \A q : Prior(K, q, k) = Prior(H, q, k)
    BY <1>1, <1>2, <1>4 DEF Prior
  <2>2. /\ \A q : Gap(R, K, q, k, r) = Gap(R, H, q, k, r)
        /\ \A q : Absorption(R, K, q, k, r) = Absorption(R, H, q, k, r)
    BY <2>1 DEF Gap, Absorption
  <2>3. Difference(R, K, p, k, r) = Difference(R, H, p, k, r)
    BY <2>2 DEF Difference
  <2> QED
    BY <2>2, <2>3 DEF Combination
<1>5. ASSUME NEW p \in Party, NEW n, NEW msg, LoopMessage(R, H, p, n, msg)
      PROVE  LoopMessage(R, K, p, n, msg)
  BY <1>1, <1>4, <1>5 DEF LoopMessage
<1>6. ASSUME NEW c, NEW n, NEW msg, LastMessage(R, H, c, n, msg)
      PROVE  LastMessage(R, K, c, n, msg)
  BY <1>1, <1>3, <1>6, Peers DEF LastMessage
<1>7. \A c : Writer(c) \in Party
  BY Peers DEF Writer
<1>8. ASSUME NEW c, NEW n, NEW msg, Message(R, H, c, n, msg) PROVE Message(R, K, c, n, msg)
  BY <1>5, <1>6, <1>7, <1>8 DEF Message
<1> QED
  BY <1>3, <1>4, <1>8

LEMMA LaterChannels ==
    ASSUME NEW R, NEW H, NEW K, HistoryOk(R, H), Later(H, K), ChannelsOk(R, H)
    PROVE  ChannelsOk(R, K)
BY LaterValues DEF ChannelsOk, Carries

LEMMA LaterLocal ==
    ASSUME NEW R, NEW H, NEW K, HistoryOk(R, H), Later(H, K),
           NEW p \in Party, NEW a, NEW k, Local(R, H, p, a, k)
    PROVE  Local(R, K, p, a, k)
<1>1. \A j \in DOMAIN H : j \in DOMAIN K /\ K[j] = H[j]
  BY DEF Later
<1>2. Stage(R, K, p, a, k)
  BY <1>1 DEF Local, Stage
<1>3. AccOf(R, K, p, a, k) = AccOf(R, H, p, a, k)
  <2>1. CASE a \in After
    BY <1>1, <2>1 DEF Local, Stage, AccOf
  <2>2. CASE a = "bucket"
    <3>1. k \in DOMAIN H /\ k # 0
      BY <2>2 DEF Local, Stage
    <3>2. K[k].r = H[k].r /\ \A r : Absorption(R, K, p, k, r) = Absorption(R, H, p, k, r)
      BY <1>1, <3>1, LaterValues
    <3>3. a \notin After
      BY <2>2 DEF After
    <3> QED
      BY <2>2, <3>2, <3>3 DEF AccOf
  <2>3. CASE a \notin After /\ a # "bucket"
    BY <1>1, <2>3 DEF Local, Stage, AccOf
  <2> QED
    BY <2>1, <2>2, <2>3
<1>4. Buffers(R, K, p, a, k)
  <2>1. Buffers(R, H, p, a, k) /\ Stage(R, H, p, a, k)
    BY DEF Local
  <2>2. a = "bucket" => Gap(R, K, p, k, K[k].r) = Gap(R, H, p, k, H[k].r)
    BY <1>1, <2>1, LaterValues DEF Stage
  <2>3. a \in {"sigma", "done"} => /\ OpenedBy(R, K, p, k) = OpenedBy(R, H, p, k)
                                  /\ ResultBy(R, K, p, k) = ResultBy(R, H, p, k)
    BY <2>1, LaterValues DEF Stage, After
  <2> QED
    BY <1>3, <2>1, <2>2, <2>3 DEF Buffers
<1> QED
  BY <1>2, <1>4 DEF Local

(* Party q keeps all it has.                                               *)
Same(q) ==
    /\ at'[q] = at[q] /\ layer'[q] = layer[q] /\ acc'[q] = acc[q] /\ sac'[q] = sac[q]
    /\ Sout'[q] = Sout[q] /\ held'[q] = held[q] /\ feq'[q] = feq[q] /\ gid'[q] = gid[q]
    /\ sigma'[q] = sigma[q] /\ seen'[q] = seen[q]

LEMMA SameLocal ==
    ASSUME NEW R, NEW H, NEW q, Same(q), Local(R, H, q, at[q], layer[q])
    PROVE  Local(R, H, q, at[q], layer[q])'
<1>1. Stage(R, H, q, at'[q], layer'[q])
  BY DEF Local, Same
<1>2. Buffers(R, H, q, at[q], layer[q])'
  BY DEF Local, Same, Buffers
<1>3. CountedAfter(q, at[q], layer[q])'
  BY DEF Local, Same, CountedAfter
<1> QED
  BY <1>1, <1>2, <1>3 DEF Local

(* A step that takes party p to step a of layer k.                         *)
LEMMA Stepped ==
    ASSUME NEW R, NEW H, ExchangeInv(R, H), NEW K, HistoryOk(R, K), Later(H, K),
           CoinsAsked(K)', Indexed', rep' = rep, ChannelsOk(R, K)',
           NEW p \in Party, \A q \in Party : q # p => Same(q),
           NEW a, NEW k, at'[p] = a, layer'[p] = k,
           Stage(R, K, p, a, k), Buffers(R, K, p, a, k)', CountedAfter(p, a, k)'
    PROVE  ExchangeInv(R, K)'
<1>1. Local(R, K, p, a, k)'
  BY DEF Local
<1>2. Local(R, K, p, at[p], layer[p])'
  BY <1>1
<1>3. ASSUME NEW q \in Party, q # p PROVE Local(R, K, q, at[q], layer[q])'
  <2>1. Local(R, K, q, at[q], layer[q])
    BY LaterLocal DEF ExchangeInv
  <2> QED
    BY <1>3, <2>1, SameLocal
<1> QED
  BY <1>2, <1>3 DEF ExchangeInv

(* The messages a party sends and reads.                                   *)
LEMMA Ends ==
    /\ \A c \in Channel : Writer(c) \in Party /\ Reader(c) \in Party /\ Writer(c) # Reader(c)
    /\ \A p \in Party : /\ send_io(p) \in Channel /\ Writer(send_io(p)) = p
                        /\ recv_io(p) \in Channel /\ Reader(recv_io(p)) = p
                        /\ Writer(recv_io(p)) = Peer(p)
                        /\ send_io(p) # recv_io(p)
                        /\ send_io(p) \in {"io", "sib"} /\ recv_io(p) \in {"io", "sib"}
                        /\ send_io(p) # "io_back" /\ recv_io(p) # "io_back"
    /\ {"io", "io_back", "sib"} \subseteq Channel
    /\ send_io(Garbler) = "io" /\ recv_io(Garbler) = "sib"
    /\ send_io(Evaluator) = "sib" /\ recv_io(Evaluator) = "io"
    /\ Writer("io") = Garbler /\ Reader("io") = Evaluator
    /\ Writer("sib") = Evaluator /\ Reader("sib") = Garbler
    /\ Writer("io_back") = Evaluator /\ Reader("io_back") = Garbler
BY PartyAssumption DEF Channel, Writer, Reader, Party, Peer, send_io, recv_io

LEMMA SendOk ==
    ASSUME NEW R, NEW H, ChannelsOk(R, H), Indexed, PoolTypes,
           NEW p, NEW c \in Channel, p = Writer(c), NEW msg,
           Send(p, c, msg), Message(R, H, c, seen[p][c] + 1, msg)
    PROVE  ChannelsOk(R, H)'
<1>1. \A e \in Channel : Writer(e) \in Party /\ Reader(e) \in Party /\ Writer(e) # Reader(e)
  BY Ends
<1>2. seen \in [Party -> [Channel -> Nat]] /\ DOMAIN wire = Channel
  BY DEF PoolTypes, Indexed
<1>3. /\ wire' = [wire EXCEPT ![c] = Append(@, msg)]
      /\ seen' = [seen EXCEPT ![p][c] = @ + 1]
  BY DEF Send
<1>4. ASSUME NEW e \in Channel
      PROVE  Carries(R, H, e, wire'[e], seen'[Writer(e)][e], seen'[Reader(e)][e])
  <2>1. Carries(R, H, e, wire[e], seen[Writer(e)][e], seen[Reader(e)][e])
    BY DEF ChannelsOk
  <2>2. CASE e # c
    <3>1. wire'[e] = wire[e] /\ \A q \in Party : seen'[q][e] = seen[q][e]
      BY <1>2, <1>3, <2>2
    <3> QED
      BY <1>1, <2>1, <3>1
  <2>3. CASE e = c
    <3>1. /\ wire'[c] = Append(wire[c], msg) /\ seen'[p][c] = seen[p][c] + 1
          /\ seen'[Reader(c)][c] = seen[Reader(c)][c]
      BY <1>1, <1>2, <1>3
    <3>2. seen[p][c] \in Nat /\ seen[Reader(c)][c] \in Nat
      BY <1>1, <1>2
    <3> QED
      BY <2>1, <2>3, <3>1, <3>2, QueueAppend
  <2> QED
    BY <2>2, <2>3
<1> QED
  BY <1>4 DEF ChannelsOk

LEMMA RecvOk ==
    ASSUME NEW R, NEW H, ChannelsOk(R, H), Indexed, PoolTypes,
           NEW p, NEW c \in Channel, p = Reader(c), Arrived(c)
    PROVE  /\ Message(R, H, c, seen[p][c] + 1, Head(wire[c]))
           /\ Recv(p, c) => ChannelsOk(R, H)'
<1>1. \A e \in Channel : Writer(e) \in Party /\ Reader(e) \in Party /\ Writer(e) # Reader(e)
  BY Ends
<1>2. seen \in [Party -> [Channel -> Nat]] /\ DOMAIN wire = Channel
  BY DEF PoolTypes, Indexed
<1>3. /\ Message(R, H, c, seen[p][c] + 1, Head(wire[c]))
      /\ Carries(R, H, c, Tail(wire[c]), seen[Writer(c)][c], seen[p][c] + 1)
  <2>1. Carries(R, H, c, wire[c], seen[Writer(c)][c], seen[p][c])
    BY DEF ChannelsOk
  <2>2. seen[Writer(c)][c] \in Nat /\ seen[p][c] \in Nat /\ wire[c] # <<>>
    BY <1>1, <1>2 DEF Arrived
  <2> QED
    BY <2>1, <2>2, QueueTail
<1>4. ASSUME Recv(p, c) PROVE ChannelsOk(R, H)'
  <2>1. wire' = [wire EXCEPT ![c] = Tail(@)] /\ seen' = [seen EXCEPT ![p][c] = @ + 1]
    BY <1>4 DEF Recv
  <2>2. ASSUME NEW e \in Channel
        PROVE  Carries(R, H, e, wire'[e], seen'[Writer(e)][e], seen'[Reader(e)][e])
    <3>1. CASE e # c
      <4>1. Carries(R, H, e, wire[e], seen[Writer(e)][e], seen[Reader(e)][e])
        BY DEF ChannelsOk
      <4>2. wire'[e] = wire[e] /\ \A q \in Party : seen'[q][e] = seen[q][e]
        BY <1>2, <2>1, <3>1
      <4> QED
        BY <1>1, <4>1, <4>2
    <3>2. CASE e = c
      <4>1. /\ wire'[c] = Tail(wire[c]) /\ seen'[p][c] = seen[p][c] + 1
            /\ seen'[Writer(c)][c] = seen[Writer(c)][c]
        BY <1>1, <1>2, <2>1
      <4> QED
        BY <1>3, <3>2, <4>1
    <3> QED
      BY <3>1, <3>2
  <2> QED
    BY <2>2 DEF ChannelsOk
<1> QED
  BY <1>3, <1>4

LEMMA RecvSendOk ==
    ASSUME NEW R, NEW H, ChannelsOk(R, H), Indexed, PoolTypes,
           NEW p, NEW c \in Channel, NEW d \in Channel, p = Reader(c), p = Writer(d), Arrived(c),
           NEW msg, RecvSend(p, c, d, msg), Message(R, H, d, seen[p][d] + 1, msg)
    PROVE  ChannelsOk(R, H)'
<1>1. \A e \in Channel : Writer(e) \in Party /\ Reader(e) \in Party /\ Writer(e) # Reader(e)
  BY Ends
<1>2. seen \in [Party -> [Channel -> Nat]] /\ DOMAIN wire = Channel /\ c # d
  BY <1>1 DEF PoolTypes, Indexed
<1>3. /\ wire' = [wire EXCEPT ![c] = Tail(@), ![d] = Append(@, msg)]
      /\ seen' = [seen EXCEPT ![p][c] = @ + 1, ![p][d] = @ + 1]
  BY DEF RecvSend
<1>4. /\ Carries(R, H, c, Tail(wire[c]), seen[Writer(c)][c], seen[p][c] + 1)
      /\ Carries(R, H, d, Append(wire[d], msg), seen[p][d] + 1, seen[Reader(d)][d])
  <2>1. /\ Carries(R, H, c, wire[c], seen[Writer(c)][c], seen[p][c])
        /\ Carries(R, H, d, wire[d], seen[p][d], seen[Reader(d)][d])
    BY DEF ChannelsOk
  <2>2. /\ seen[Writer(c)][c] \in Nat /\ seen[p][c] \in Nat /\ wire[c] # <<>>
        /\ seen[Reader(d)][d] \in Nat /\ seen[p][d] \in Nat
    BY <1>1, <1>2 DEF Arrived
  <2> QED
    BY <2>1, <2>2, QueueTail, QueueAppend
<1>5. ASSUME NEW e \in Channel
      PROVE  Carries(R, H, e, wire'[e], seen'[Writer(e)][e], seen'[Reader(e)][e])
  <2>1. CASE e # c /\ e # d
    <3>1. Carries(R, H, e, wire[e], seen[Writer(e)][e], seen[Reader(e)][e])
      BY DEF ChannelsOk
    <3>2. wire'[e] = wire[e] /\ \A q \in Party : seen'[q][e] = seen[q][e]
      BY <1>2, <1>3, <2>1
    <3> QED
      BY <1>1, <3>1, <3>2
  <2>2. CASE e = c
    <3>1. /\ wire'[c] = Tail(wire[c]) /\ seen'[p][c] = seen[p][c] + 1
          /\ seen'[Writer(c)][c] = seen[Writer(c)][c]
      BY <1>1, <1>2, <1>3
    <3> QED
      BY <1>4, <2>2, <3>1
  <2>3. CASE e = d
    <3>1. /\ wire'[d] = Append(wire[d], msg) /\ seen'[p][d] = seen[p][d] + 1
          /\ seen'[Reader(d)][d] = seen[Reader(d)][d]
      BY <1>1, <1>2, <1>3
    <3> QED
      BY <1>4, <2>3, <3>1
  <2> QED
    BY <2>1, <2>2, <2>3
<1> QED
  BY <1>5 DEF ChannelsOk

(* No two messages of one direction have the same number.                  *)
LEMMA Numbers ==
    ASSUME NEW j \in Nat, NEW k \in Nat
    PROVE  /\ \A s, t \in 1 .. 3 :
                Before(j) + s = Before(k) + t /\ (s = 3 => j # 0) /\ (t = 3 => k # 0)
                  => j = k /\ s = t
           /\ \A s \in 1 .. 3, t \in 4 .. 6 :
                Before(j) + s = Before(k) + t /\ (s = 3 => j # 0) /\ k # 0 => j > k
BY DEF Before

LEMMA LoopSends ==
    ASSUME NEW R, NEW H, NEW k, IsLayer(R, k), NEW c \in {"io", "sib"}, NEW s \in 1 .. 3, NEW msg,
           s = 1 => msg = CipherOf(R, Writer(c), k),
           s = 2 => msg = SBits(R, Writer(c), k),
           s = 3 => k # 0 /\ k \in DOMAIN H /\ msg = Gap(R, H, Writer(c), k, H[k].r)
    PROVE  Message(R, H, c, Before(k) + s, msg)
<1>1. k \in Nat
  BY DEF IsLayer
<1>2. ASSUME NEW j \in Nat, IsLayer(R, j), NEW t \in 1 .. 3, t = 3 => j # 0,
             Before(k) + s = Before(j) + t
      PROVE  j = k /\ s = t
  BY <1>1, <1>2, Numbers
<1>3. ASSUME NEW j \in Nat, IsLast(R, j), NEW t \in 4 .. 6 PROVE Before(k) + s # Before(j) + t
  <2>1. k <= j /\ j # 0
    BY <1>3, Layers DEF IsLast
  <2>2. Before(k) + s = Before(j) + t => k > j
    BY <1>1, <2>1, Numbers
  <2> QED
    BY <1>1, <2>1, <2>2
<1>4. LoopMessage(R, H, Writer(c), Before(k) + s, msg)
  BY <1>2 DEF LoopMessage
<1>5. LastMessage(R, H, c, Before(k) + s, msg)
  BY <1>3 DEF LastMessage
<1> QED
  BY <1>4, <1>5 DEF Message

LEMMA LastSends ==
    ASSUME NEW R, NEW H, NEW k, IsLast(R, k), k \in DOMAIN H
    PROVE  /\ Message(R, H, "io", (Before(k) + 3) + 1, <<"com", FeqOf(R, Garbler, k + 1)>>)
           /\ Message(R, H, "io", (Before(k) + 3) + 2, FeqOf(R, Garbler, k + 1))
           /\ Message(R, H, "io", (Before(k) + 3) + 3, OpenedBy(R, H, Garbler, k))
           /\ Message(R, H, "sib", (Before(k) + 3) + 1, OpenedBy(R, H, Evaluator, k))
           /\ Message(R, H, "io_back", 1, FeqOf(R, Evaluator, k + 1))
<1>1. k \in Nat /\ k # 0 /\ \A j : IsLast(R, j) => j = k
  BY Layers DEF IsLast, IsLayer
<1>2. \A p, msg : \A s \in 4 .. 6 : LoopMessage(R, H, p, Before(k) + s, msg)
  <2> SUFFICES ASSUME NEW s \in 4 .. 6, NEW j \in Nat, IsLayer(R, j), NEW t \in 1 .. 3, t = 3 => j # 0
               PROVE  Before(k) + s # Before(j) + t
    BY DEF LoopMessage
  <2>1. j <= k
    BY Layers
  <2>2. Before(j) + t = Before(k) + s => j > k
    BY <1>1, Numbers
  <2> QED
    BY <1>1, <2>1, <2>2
<1>3. Before(k) \in Nat
  BY <1>1, Counts
<1>4. /\ (Before(k) + 3) + 1 = Before(k) + 4 /\ (Before(k) + 3) + 2 = Before(k) + 5
      /\ (Before(k) + 3) + 3 = Before(k) + 6
      /\ Before(k) + 4 # Before(k) + 5 /\ Before(k) + 4 # Before(k) + 6
      /\ Before(k) + 5 # Before(k) + 6
  BY <1>3
<1>5. /\ LastMessage(R, H, "io", Before(k) + 4, <<"com", FeqOf(R, Garbler, k + 1)>>)
      /\ LastMessage(R, H, "io", Before(k) + 5, FeqOf(R, Garbler, k + 1))
      /\ LastMessage(R, H, "io", Before(k) + 6, OpenedBy(R, H, Garbler, k))
      /\ LastMessage(R, H, "sib", Before(k) + 4, OpenedBy(R, H, Evaluator, k))
      /\ LastMessage(R, H, "io_back", 1, FeqOf(R, Evaluator, k + 1))
  BY <1>1, <1>4 DEF LastMessage
<1> QED
  BY <1>2, <1>4, <1>5 DEF Message

(* The model's expressions over the request, as values of it.              *)
LEMMA OfRequest ==
    ASSUME NEW R, rep = R
    PROVE  /\ L = Len(R) /\ Lanes = LanesOf(R) /\ Padded = PadOf(R) /\ WireDraws = FreeDraw(R)
           /\ \A p, n : Minted(p, n) = MintOf(R, p, n)
           /\ \A i, r : Src(i, r) = SrcOf(R, i, r)
           /\ \A p : layer[p] < B - 1 <=> Continues(R, layer[p])
<1>1. L = Len(R) /\ Lanes = LanesOf(R)
  BY DEF L, Lanes, LanesOf
<1>2. \A p : layer[p] < B - 1 <=> Continues(R, layer[p])
  BY <1>1 DEF B, Continues
<1> QED
  BY <1>1, <1>2 DEF Padded, PadOf, WireDraws, FreeDraw, Minted, MintOf, Src, SrcOf

(* A step of party p changes nothing of the other's.                       *)
LEMMA Frames ==
    ASSUME Indexed, PoolTypes, NEW p \in Party,
           \/ Step(p)
           \/ p = Garbler /\ (FeqCommit \/ FeqOpen)
           \/ p = Evaluator /\ (FeqAnswer \/ FeqVerify)
    PROVE  rep' = rep /\ Indexed' /\ \A q \in Party : q # p => Same(q)
<1>1. /\ DOMAIN at = Party /\ DOMAIN layer = Party /\ DOMAIN seen = Party
      /\ DOMAIN acc = Party /\ DOMAIN sac = Party /\ DOMAIN Sout = Party /\ DOMAIN held = Party
      /\ DOMAIN feq = Party /\ DOMAIN gid = Party /\ DOMAIN sigma = Party
      /\ DOMAIN wire = Channel
  BY DEF Indexed, PoolTypes
<1>2. ASSUME NEW c, NEW d, NEW msg, Send(p, c, msg) \/ Recv(p, c) \/ RecvSend(p, c, d, msg)
      PROVE  DOMAIN wire' = Channel /\ \A q \in Party : q # p => seen'[q] = seen[q]
  BY <1>1, <1>2 DEF Send, Recv, RecvSend
<1>3. ASSUME UNCHANGED comm
      PROVE  DOMAIN wire' = Channel /\ \A q \in Party : q # p => seen'[q] = seen[q]
  BY <1>1, <1>3 DEF comm
<1>4. ASSUME NEW a, Goto(p, a) PROVE \A q \in Party : q # p => at'[q] = at[q]
  BY <1>1, <1>4 DEF Goto
<1>5. ASSUME NEW l, SetCurrent(p, l)
      PROVE  /\ DOMAIN acc' = Party /\ DOMAIN sac' = Party
             /\ \A q \in Party : q # p => acc'[q] = acc[q] /\ sac'[q] = sac[q]
  BY <1>1, <1>5 DEF SetCurrent
<1>6. CASE Mint(p)
  <2>1. UNCHANGED <<rep, layer, Sout, held, feq, gid, comm, sigma>> /\ Goto(p, "garble")
    BY <1>6 DEF Mint
  <2>2. \E l : SetCurrent(p, l)
    BY <1>6 DEF Mint
  <2> QED
    BY <1>1, <1>3, <1>4, <1>5, <2>1, <2>2 DEF Same, Indexed
<1>7. CASE Garble(p)
  <2>1. /\ UNCHANGED <<rep, layer, acc, sac, Sout, held, feq, gid, sigma>> /\ Goto(p, "eval")
        /\ \E msg : Send(p, send_io(p), msg)
    BY <1>7 DEF Garble, buffers
  <2> QED
    BY <1>1, <1>2, <1>4, <2>1 DEF Same, Indexed
<1>8. CASE Eval(p)
  <2>1. /\ UNCHANGED <<rep, layer, acc, sac, feq, sigma>> /\ Goto(p, "sopen")
        /\ \E msg : RecvSend(p, recv_io(p), send_io(p), msg)
        /\ \E x, y, z : /\ Sout' = [Sout EXCEPT ![p] = x] /\ held' = [held EXCEPT ![p] = y]
                        /\ gid' = [gid EXCEPT ![p] = z]
    BY <1>8 DEF Eval
  <2> QED
    BY <1>1, <1>2, <1>4, <2>1 DEF Same, Indexed
<1>9. CASE SOpen(p)
  <2>1. /\ UNCHANGED <<rep, Sout, held, gid, sigma>> /\ Recv(p, recv_io(p))
        /\ \E a : Goto(p, a)
        /\ layer' = layer \/ layer' = [layer EXCEPT ![p] = 1]
        /\ \E l, x : SetCurrent(p, l) /\ feq' = [feq EXCEPT ![p] = x]
    BY <1>9 DEF SOpen, FoldLayer
  <2> QED
    BY <1>1, <1>2, <1>4, <1>5, <2>1 DEF Same, Indexed
<1>10. CASE Coin(p)
  <2>1. /\ UNCHANGED <<rep, layer, sac, Sout, feq, gid, sigma>> /\ Goto(p, "bucket")
        /\ \E msg : Send(p, send_io(p), msg)
        /\ \E x, y : acc' = [acc EXCEPT ![p] = x] /\ held' = [held EXCEPT ![p] = y]
    BY <1>10 DEF Coin
  <2> QED
    BY <1>1, <1>2, <1>4, <2>1 DEF Same, Indexed
<1>11. CASE Bucket(p)
  <2>1. /\ UNCHANGED <<rep, sac, Sout, held, feq, gid, sigma>> /\ Recv(p, recv_io(p))
        /\ \E a : Goto(p, a)
        /\ layer' = layer \/ \E x : layer' = [layer EXCEPT ![p] = x]
        /\ \E x : acc' = [acc EXCEPT ![p] = x]
    BY <1>11 DEF Bucket
  <2> QED
    BY <1>1, <1>2, <1>4, <2>1 DEF Same, Indexed
<1>12. CASE ReconcileSend(p)
  <2>1. /\ UNCHANGED <<rep, layer, acc, sac, Sout, feq, gid, sigma>> /\ Goto(p, "sigma")
        /\ \E msg : Send(p, send_io(p), msg)
        /\ \E x : held' = [held EXCEPT ![p] = x]
    BY <1>12 DEF ReconcileSend
  <2> QED
    BY <1>1, <1>2, <1>4, <2>1 DEF Same, Indexed
<1>13. CASE Reconcile(p)
  <2>1. /\ UNCHANGED <<rep, layer, acc, sac, Sout, held, feq, gid>> /\ Goto(p, "done")
        /\ Recv(p, recv_io(p))
        /\ \E x : sigma' = [sigma EXCEPT ![p] = x]
    BY <1>13 DEF Reconcile, buffers
  <2> QED
    BY <1>1, <1>2, <1>4, <2>1 DEF Same, Indexed
<1>14. CASE \/ p = Garbler /\ (FeqCommit \/ FeqOpen)
            \/ p = Evaluator /\ (FeqAnswer \/ FeqVerify)
  <2>1. /\ UNCHANGED <<rep, layer, acc, sac, Sout, feq, gid, sigma>>
        /\ \E a : Goto(p, a)
        /\ \E c, d, msg : Send(p, c, msg) \/ Recv(p, c) \/ RecvSend(p, c, d, msg)
        /\ held' = held \/ \E x : held' = [held EXCEPT ![p] = x]
    BY <1>14 DEF FeqCommit, FeqOpen, FeqAnswer, FeqVerify, Verdict, buffers
  <2> QED
    BY <1>1, <1>2, <1>4, <2>1 DEF Same, Indexed
<1> QED
  BY <1>6, <1>7, <1>8, <1>9, <1>10, <1>11, <1>12, <1>13, <1>14 DEF Step

(* What the invariant says of the party that takes a step.                 *)
LEMMA Stands ==
    ASSUME NEW R, NEW H, ExchangeInv(R, H), CoinInv, NEW p \in Party
    PROVE  /\ PoolTypes /\ Indexed /\ ChannelsOk(R, H) /\ HistoryOk(R, H) /\ rep = R /\ R \in Reps
           /\ layer[p] \in Nat
           /\ Stage(R, H, p, at[p], layer[p]) /\ Buffers(R, H, p, at[p], layer[p])
           /\ CountedAfter(p, at[p], layer[p])
           /\ at[p] \in Looping =>
                /\ seen[p][send_io(p)] = Sent(at[p], layer[p])
                /\ seen[p][recv_io(p)] = Read(at[p], layer[p])
                /\ seen[p]["io_back"] = 0
<1>1. /\ PoolTypes /\ Indexed /\ ChannelsOk(R, H) /\ HistoryOk(R, H) /\ rep = R /\ R \in Reps
      /\ layer[p] \in Nat
      /\ Stage(R, H, p, at[p], layer[p]) /\ Buffers(R, H, p, at[p], layer[p])
      /\ CountedAfter(p, at[p], layer[p])
  BY DEF ExchangeInv, CoinInv, PoolTypes, Local
<1>2. ASSUME at[p] \in Looping
      PROVE  /\ seen[p][send_io(p)] = Sent(at[p], layer[p])
             /\ seen[p][recv_io(p)] = Read(at[p], layer[p])
             /\ seen[p]["io_back"] = 0
  <2>1. seen[p] = Digest(p, Sent(at[p], layer[p]), Read(at[p], layer[p]))
    BY <1>2, Here
  <2>2. /\ send_io(p) \in Channel /\ recv_io(p) \in Channel /\ send_io(p) # recv_io(p)
        /\ "io_back" \in Channel /\ send_io(p) # "io_back" /\ recv_io(p) # "io_back"
    BY Ends
  <2> QED
    BY <2>1, <2>2 DEF Digest
<1> QED
  BY <1>1, <1>2

(* A step of party p that takes no coin, to step a of layer k.             *)
LEMMA SteppedHere ==
    ASSUME NEW R, NEW H, ExchangeInv(R, H), CoinInv, NEW p \in Party,
           \/ Step(p)
           \/ p = Garbler /\ (FeqCommit \/ FeqOpen)
           \/ p = Evaluator /\ (FeqAnswer \/ FeqVerify),
           UNCHANGED coin, ChannelsOk(R, H)',
           NEW a, NEW k, Goto(p, a), layer'[p] = k,
           Stage(R, H, p, a, k), Buffers(R, H, p, a, k)', CountedAfter(p, a, k)'
    PROVE  ExchangeInv(R, H)'
<1>1. HistoryOk(R, H) /\ Later(H, H) /\ CoinsAsked(H)'
  BY DEF ExchangeInv, Later, CoinsAsked
<1>2. PoolTypes /\ Indexed
  BY Stands
<1>3. rep' = rep /\ Indexed' /\ \A q \in Party : q # p => Same(q)
  BY <1>2, Frames
<1>4. at'[p] = a
  BY <1>2 DEF Goto, PoolTypes
<1> QED
  BY <1>1, <1>3, <1>4, Stepped

(* In the loop nothing is said of the counts after it.                     *)
LEMMA NotAfter == \A a \in Looping : a \notin After
BY DEF Looping, After

LEMMA MintExchange ==
    ASSUME NEW R, NEW H, ExchangeInv(R, H), CoinInv, NEW p \in Party, Mint(p)
    PROVE  ExchangeInv(R, H)'
<1> PICK k : k = layer[p]
  OBVIOUS
<1>1. /\ at[p] = "mint" /\ Goto(p, "garble")
      /\ UNCHANGED <<layer, Sout, held, feq, gid, coin, sigma, wire, seen>>
      /\ SetCurrent(p, IF layer[p] = 0
                       THEN [acc[p] EXCEPT !.c = Minted(p, WireDraws)]
                       ELSE LET first == WireDraws + (3 * layer[p] - 2) * L
                            IN [a |-> Minted(p, first), b |-> Minted(p, first + L),
                                c |-> Minted(p, first + 2 * L)])
  BY DEF Mint, At, comm
<1>2. /\ Indexed /\ rep = R /\ k \in Nat
      /\ Stage(R, H, p, "mint", k) /\ Buffers(R, H, p, "mint", k)
      /\ ChannelsOk(R, H)
  BY <1>1, Stands
<1>3. ChannelsOk(R, H)'
  BY <1>1, <1>2 DEF ChannelsOk
<1>4. "garble" \in Looping /\ "garble" \notin After /\ "mint" \notin After
  BY DEF Looping, After
<1>5. Stage(R, H, p, "garble", k) /\ CountedAfter(p, "garble", k)'
  BY <1>2, <1>4 DEF Stage, CountedAfter
<1>6. /\ k = 0 => acc'[p] = Raw(R, p, 0)
      /\ k # 0 => acc'[p] = acc[p] /\ sac'[p] = Raw(R, p, k)
  <2>1. CASE k = 0
    <3>1. acc'[p] = [acc[p] EXCEPT !.c = Minted(p, WireDraws)]
      BY <1>1, <1>2, <2>1 DEF SetCurrent, Indexed
    <3>2. acc[p] = [a |-> Operands(R, p, 1), b |-> Operands(R, p, 2), c |-> <<>>]
      BY <1>2, <1>4, <2>1 DEF Buffers, AccOf
    <3>3. Minted(p, WireDraws) = MintOf(R, p, FreeDraw(R))
      BY <1>2, OfRequest
    <3> QED
      BY <2>1, <3>1, <3>2, <3>3 DEF Raw
  <2>2. CASE k # 0
    <3>1. /\ acc' = acc
          /\ sac'[p] = LET first == WireDraws + (3 * layer[p] - 2) * L
                       IN [a |-> Minted(p, first), b |-> Minted(p, first + L),
                           c |-> Minted(p, first + 2 * L)]
      BY <1>1, <1>2, <2>2 DEF SetCurrent, Indexed
    <3> QED
      BY <1>2, <2>2, <3>1, OfRequest DEF Raw
  <2> QED
    BY <2>1, <2>2
<1>7. Buffers(R, H, p, "garble", k)'
  <2>1. acc'[p] = AccOf(R, H, p, "garble", k)
    BY <1>2, <1>4, <1>6 DEF Buffers, AccOf
  <2>2. feq'[p] = FeqOf(R, p, Folds("garble", k)) /\ gid'[p] = Hashed("garble", k) * PadOf(R)
    BY <1>1, <1>2 DEF Buffers, Folds, Hashed
  <2> QED
    BY <1>6, <2>1, <2>2 DEF Buffers
<1>8. Step(p) /\ layer'[p] = k
  BY <1>1 DEF Step
<1> QED
  BY <1>1, <1>3, <1>5, <1>7, <1>8, SteppedHere

(* The layer a party garbles and evaluates.                                *)
LEMMA CurrentIs ==
    ASSUME NEW R, NEW H, NEW p \in Party, at[p] \in {"garble", "eval", "sopen"},
           Buffers(R, H, p, at[p], layer[p])
    PROVE  Current(p) = Raw(R, p, layer[p])
<1>1. at[p] \notin After /\ at[p] # "bucket" /\ at[p] # "mint"
  BY DEF After
<1> QED
  BY <1>1 DEF Buffers, AccOf, Current

LEMMA GarbleExchange ==
    ASSUME NEW R, NEW H, ExchangeInv(R, H), CoinInv, NEW p \in Party, Garble(p)
    PROVE  ExchangeInv(R, H)'
<1> PICK k : k = layer[p]
  OBVIOUS
<1> DEFINE msg == [i \in Lanes |-> Ciphertext(p, Current(p).a[i], Current(p).b[i], gid[p] + i)]
<1>1. /\ at[p] = "garble" /\ Goto(p, "eval") /\ Send(p, send_io(p), msg)
      /\ UNCHANGED <<layer, acc, sac, Sout, held, feq, gid, coin, sigma>>
  BY DEF Garble, At, buffers
<1>2. /\ Indexed /\ PoolTypes /\ rep = R /\ k \in Nat
      /\ Stage(R, H, p, "garble", k) /\ Buffers(R, H, p, "garble", k)
      /\ ChannelsOk(R, H) /\ seen[p][send_io(p)] = Before(k) /\ Before(k) \in Nat
  BY <1>1, Stands, Counts DEF Looping
<1>3. "eval" \in Looping /\ "eval" \notin After /\ "garble" \notin After
  BY DEF Looping, After
<1>4. msg = CipherOf(R, p, k)
  <2>1. Current(p) = Raw(R, p, k) /\ gid[p] = k * PadOf(R)
    BY <1>1, <1>2, CurrentIs DEF Buffers, Hashed
  <2> QED
    BY <1>2, <2>1, OfRequest DEF CipherOf, Tweak
<1>5. ChannelsOk(R, H)'
  <2>1. send_io(p) \in {"io", "sib"} /\ Writer(send_io(p)) = p /\ send_io(p) \in Channel
    BY Ends DEF send_io
  <2> HIDE DEF msg
  <2>2. Message(R, H, send_io(p), seen[p][send_io(p)] + 1, msg)
    BY <1>2, <1>4, <2>1, LoopSends DEF Stage
  <2> QED
    BY <1>1, <1>2, <2>1, <2>2, SendOk
<1>6. Stage(R, H, p, "eval", k) /\ CountedAfter(p, "eval", k)'
  BY <1>2, <1>3 DEF Stage, CountedAfter
<1>7. Buffers(R, H, p, "eval", k)'
  <2>1. AccOf(R, H, p, "eval", k) = AccOf(R, H, p, "garble", k)
    BY <1>3 DEF AccOf
  <2> QED
    BY <1>1, <1>2, <2>1 DEF Buffers, Folds, Hashed
<1>8. Step(p) /\ layer'[p] = k
  BY <1>1 DEF Step
<1> QED
  BY <1>1, <1>5, <1>6, <1>7, <1>8, SteppedHere

(* Message number s of layer k.                                            *)
LoopIs(R, H, c, k, s, msg) ==
    /\ s = 1 => msg = CipherOf(R, Writer(c), k)
    /\ s = 2 => msg = SBits(R, Writer(c), k)
    /\ s = 3 => k \in DOMAIN H /\ msg = Gap(R, H, Writer(c), k, H[k].r)

LEMMA LoopReads ==
    ASSUME NEW R, NEW H, NEW k, IsLayer(R, k), NEW c, c # "io_back", NEW n, NEW msg,
           Message(R, H, c, n, msg), NEW s \in 1 .. 3, s = 3 => k # 0, n = Before(k) + s
    PROVE  LoopIs(R, H, c, k, s, msg)
<1>1. LoopMessage(R, H, Writer(c), n, msg)
  BY DEF Message
<1>2. k \in Nat
  BY DEF IsLayer
<1> QED
  BY <1>1, <1>2 DEF LoopMessage, LoopIs

LEMMA EvalExchange ==
    ASSUME NEW R, NEW H, ExchangeInv(R, H), CoinInv, NEW p \in Party, Eval(p)
    PROVE  ExchangeInv(R, H)'
<1> PICK k : k = layer[p]
  OBVIOUS
<1> PICK msg : msg = held'[p]
  OBVIOUS
<1>1. /\ at[p] = "eval" /\ Goto(p, "sopen") /\ Arrived(recv_io(p))
      /\ RecvSend(p, recv_io(p), send_io(p), msg)
      /\ UNCHANGED <<layer, acc, sac, feq, coin, sigma>>
      /\ Sout' = [Sout EXCEPT ![p] = [i \in Lanes |->
                   EvalS(p, Current(p).a[i], Current(p).b[i], Current(p).c[i],
                         Head(wire[recv_io(p)])[i], gid[p] + i)]]
      /\ gid' = [gid EXCEPT ![p] = @ + Padded]
      /\ held' = [held EXCEPT ![p] = [i \in Lanes |-> LSB1(Sout'[p][i])]]
  BY DEF Eval, At
<1>2. /\ Indexed /\ PoolTypes /\ rep = R /\ R \in Reps /\ k \in Nat
      /\ Stage(R, H, p, "eval", k) /\ Buffers(R, H, p, "eval", k)
      /\ ChannelsOk(R, H) /\ Before(k) \in Nat
      /\ seen[p][send_io(p)] = Before(k) + 1 /\ seen[p][recv_io(p)] = Before(k)
  BY <1>1, Stands, Counts DEF Looping
<1>3. "sopen" \in Looping /\ "sopen" \notin After /\ "eval" \notin After
  BY DEF Looping, After
<1>4. /\ send_io(p) \in {"io", "sib"} /\ Writer(send_io(p)) = p /\ send_io(p) \in Channel
      /\ recv_io(p) \in {"io", "sib"} /\ Writer(recv_io(p)) = Peer(p) /\ recv_io(p) \in Channel
      /\ Reader(recv_io(p)) = p
  BY Ends DEF send_io, recv_io
<1>5. Head(wire[recv_io(p)]) = CipherOf(R, Peer(p), k)
  <2> PICK m, n : m = Head(wire[recv_io(p)]) /\ n = seen[p][recv_io(p)] + 1
    OBVIOUS
  <2>1. Message(R, H, recv_io(p), n, m)
    BY <1>1, <1>2, <1>4, RecvOk
  <2>2. IsLayer(R, k) /\ n = Before(k) + 1 /\ recv_io(p) # "io_back"
    BY <1>2, <1>4 DEF Stage
  <2>3. LoopIs(R, H, recv_io(p), k, 1, m)
    BY <2>1, <2>2, LoopReads
  <2> QED
    BY <1>4, <2>3 DEF LoopIs
<1>6. Sout'[p] = SOf(R, p, k)
  <2>1. Current(p) = Raw(R, p, k) /\ gid[p] = k * PadOf(R)
    BY <1>1, <1>2, CurrentIs DEF Buffers, Hashed
  <2>2. Sout'[p] = [i \in Lanes |->
                      EvalS(p, Current(p).a[i], Current(p).b[i], Current(p).c[i],
                            Head(wire[recv_io(p)])[i], gid[p] + i)]
    BY <1>1, <1>2 DEF Indexed
  <2>3. Lanes = LanesOf(R)
    BY <1>2, OfRequest
  <2> QED
    BY <1>5, <2>1, <2>2, <2>3 DEF SOf, Tweak
<1>7. held'[p] = SBits(R, p, k)
  <2>1. held'[p] = [i \in Lanes |-> LSB1(Sout'[p][i])]
    BY <1>1, <1>2 DEF Indexed
  <2> QED
    BY <1>2, <1>6, <2>1, OfRequest DEF SBits
<1>8. gid'[p] = (k + 1) * PadOf(R)
  <2>1. gid'[p] = k * PadOf(R) + PadOf(R)
    BY <1>1, <1>2, OfRequest DEF Indexed, Buffers, Hashed
  <2>2. \A x, y \in Nat : x * y + y = (x + 1) * y
    OBVIOUS
  <2> QED
    BY <1>2, <2>1, <2>2, RequestIs
<1>9. ChannelsOk(R, H)'
  <2>1. (Before(k) + 1) + 1 = Before(k) + 2
    BY <1>2
  <2>2. Message(R, H, send_io(p), Before(k) + 2, msg)
    BY <1>2, <1>4, <1>7, LoopSends DEF Stage
  <2> QED
    BY <1>1, <1>2, <1>4, <2>1, <2>2, RecvSendOk
<1>10. Stage(R, H, p, "sopen", k) /\ CountedAfter(p, "sopen", k)'
  BY <1>2, <1>3 DEF Stage, CountedAfter
<1>11. Buffers(R, H, p, "sopen", k)'
  <2>1. AccOf(R, H, p, "sopen", k) = AccOf(R, H, p, "eval", k)
    BY <1>3 DEF AccOf
  <2> QED
    BY <1>1, <1>2, <1>6, <1>7, <1>8, <2>1 DEF Buffers, Folds, Hashed
<1>12. Step(p) /\ layer'[p] = k
  BY <1>1 DEF Step
<1> QED
  BY <1>1, <1>9, <1>10, <1>11, <1>12, SteppedHere

(* One more layer in the F_eq hash.                                        *)
LEMMA FeqAppend ==
    ASSUME NEW R, NEW p, NEW n \in Nat
    PROVE  Append(FeqOf(R, p, n), LOf(R, p, n)) = FeqOf(R, p, n + 1)
<1> DEFINE s == FeqOf(R, p, n)
           e == LOf(R, p, n)
           t == FeqOf(R, p, n + 1)
           S == {LOf(R, p, j - 1) : j \in 1 .. (n + 1)}
<1>1. /\ s \in Seq(S) /\ t \in Seq(S) /\ e \in S /\ Len(s) = n /\ Len(t) = n + 1
      /\ \A j \in 1 .. n : s[j] = LOf(R, p, j - 1)
      /\ \A j \in 1 .. (n + 1) : t[j] = LOf(R, p, j - 1)
  <2>1. \A j \in 1 .. (n + 1) : LOf(R, p, j - 1) \in S
    OBVIOUS
  <2>2. e \in S
    <3>1. n + 1 \in 1 .. (n + 1) /\ (n + 1) - 1 = n
      OBVIOUS
    <3>2. LOf(R, p, (n + 1) - 1) \in S
      BY <2>1, <3>1
    <3> HIDE DEF S
    <3> QED
      BY <3>1, <3>2
  <2> HIDE DEF S
  <2>3. s \in Seq(S) /\ Len(s) = n /\ \A j \in 1 .. n : s[j] = LOf(R, p, j - 1)
    BY <2>1 DEF FeqOf
  <2>4. t \in Seq(S) /\ Len(t) = n + 1 /\ \A j \in 1 .. (n + 1) : t[j] = LOf(R, p, j - 1)
    BY <2>1 DEF FeqOf
  <2> QED
    BY <2>2, <2>3, <2>4
<1> HIDE DEF s, e, t, S
<1>2. /\ Append(s, e) \in Seq(S) /\ Len(Append(s, e)) = n + 1
      /\ \A j \in 1 .. n : Append(s, e)[j] = s[j]
      /\ Append(s, e)[n + 1] = e
  BY <1>1, AppendProperties
<1>3. \A j \in 1 .. (n + 1) : Append(s, e)[j] = t[j]
  <2> SUFFICES ASSUME NEW j \in 1 .. (n + 1) PROVE Append(s, e)[j] = t[j]
    OBVIOUS
  <2>1. CASE j = n + 1
    <3>1. t[n + 1] = LOf(R, p, (n + 1) - 1) /\ (n + 1) - 1 = n
      BY <1>1, <2>1
    <3> QED
      BY <1>2, <2>1, <3>1 DEF e
  <2>2. CASE j \in 1 .. n
    BY <1>1, <1>2, <2>2
  <2>3. j = n + 1 \/ j \in 1 .. n
    OBVIOUS
  <2> QED
    BY <2>1, <2>2, <2>3
<1>4. Append(s, e) = t
  BY <1>1, <1>2, <1>3, SeqEqual
<1> QED
  BY <1>4 DEF s, e, t

LEMMA SOpenExchange ==
    ASSUME NEW R, NEW H, ExchangeInv(R, H), CoinInv, NEW p \in Party, SOpen(p)
    PROVE  ExchangeInv(R, H)'
<1> PICK k : k = layer[p]
  OBVIOUS
<1> PICK src : src = recv_io(p)
  OBVIOUS
<1> DEFINE d == [i \in Lanes |-> held[p][i] ++ Head(wire[src])[i]]
<1>1. /\ at[p] = "sopen" /\ Arrived(src) /\ Recv(p, src) /\ FoldLayer(p, d)
      /\ UNCHANGED <<Sout, held, gid, coin, sigma>>
      /\ IF layer[p] = 0 THEN layer' = [layer EXCEPT ![p] = 1] /\ Goto(p, "mint")
                         ELSE Goto(p, "coin") /\ UNCHANGED layer
  BY DEF SOpen, At
<1>2. /\ Indexed /\ PoolTypes /\ HistoryOk(R, H) /\ rep = R /\ R \in Reps /\ k \in Nat
      /\ Stage(R, H, p, "sopen", k) /\ Buffers(R, H, p, "sopen", k)
      /\ ChannelsOk(R, H) /\ Before(k) \in Nat /\ seen[p][src] = Before(k) + 1
  BY <1>1, Stands, Counts DEF Looping
<1>3. /\ \A a \in {"mint", "coin"} : a \in Looping /\ a \notin After /\ a # "bucket"
      /\ "sopen" \notin After
  BY DEF Looping, After
<1>4. /\ src \in {"io", "sib"} /\ Writer(src) = Peer(p) /\ src \in Channel /\ Reader(src) = p
      /\ src # "io_back"
  BY Ends
<1>5. Head(wire[src]) = SBits(R, Peer(p), k)
  <2> PICK m, n : m = Head(wire[src]) /\ n = seen[p][src] + 1
    OBVIOUS
  <2>1. Message(R, H, src, n, m)
    BY <1>1, <1>2, <1>4, RecvOk
  <2>2. IsLayer(R, k) /\ n = Before(k) + 2 /\ src # "io_back"
    BY <1>2, <1>4 DEF Stage
  <2>3. LoopIs(R, H, src, k, 2, m)
    BY <2>1, <2>2, LoopReads
  <2> QED
    BY <1>4, <2>3 DEF LoopIs
<1>6. d = Opening(R, p, k)
  <2>1. held[p] = SBits(R, p, k) /\ Lanes = LanesOf(R)
    BY <1>2, OfRequest DEF Buffers
  <2> QED
    BY <1>5, <2>1 DEF Opening
<1>7. ChannelsOk(R, H)'
  <2> QED
    BY <1>1, <1>2, <1>4, RecvOk
<1> HIDE DEF d
<1>8. /\ IF k = 0 THEN acc'[p] = Folded(R, p, k)
                  ELSE acc'[p] = acc[p] /\ sac'[p] = Folded(R, p, k)
      /\ feq'[p] = FeqOf(R, p, k + 1)
  <2>1. Current(p) = Raw(R, p, k) /\ Lanes = LanesOf(R)
    BY <1>1, <1>2, CurrentIs, OfRequest
  <2>2. /\ SetCurrent(p, [Current(p) EXCEPT !.c = [i \in Lanes |-> FoldBit(p, @[i], d[i])]])
        /\ feq' = [feq EXCEPT ![p] = Append(@, LVector(p, d))]
    BY <1>1 DEF FoldLayer
  <2>3. [Raw(R, p, k) EXCEPT !.c = [i \in LanesOf(R) |-> FoldBit(p, @[i], Opening(R, p, k)[i])]]
          = Folded(R, p, k)
    <3> PICK e : e = [i \in LanesOf(R) |-> FoldBit(p, Raw(R, p, k).c[i], Opening(R, p, k)[i])]
      OBVIOUS
    <3>1. \E x, y, z : Raw(R, p, k) = [a |-> x, b |-> y, c |-> z]
      BY DEF Raw
    <3>2. [Raw(R, p, k) EXCEPT !.c = e] = [a |-> Raw(R, p, k).a, b |-> Raw(R, p, k).b, c |-> e]
      BY <3>1
    <3>3. Folded(R, p, k) = [a |-> Raw(R, p, k).a, b |-> Raw(R, p, k).b, c |-> e]
      BY DEF Folded
    <3> QED
      BY <3>2, <3>3
  <2>4. SetCurrent(p, Folded(R, p, k))
    BY <1>6, <2>1, <2>2, <2>3
  <2>5. LVector(p, d) = LOf(R, p, k)
    <3>1. Sout[p] = SOf(R, p, k)
      BY <1>2 DEF Buffers
    <3> QED
      BY <1>6, <2>1, <3>1 DEF LVector, LOf
  <2>6. feq[p] = FeqOf(R, p, k)
    BY <1>2 DEF Buffers, Folds
  <2>7. feq'[p] = FeqOf(R, p, k + 1)
    <3>1. feq'[p] = Append(feq[p], LVector(p, d))
      BY <1>2, <2>2 DEF Indexed
    <3> QED
      BY <1>2, <2>5, <2>6, <3>1, FeqAppend, SMTT(20), ZenonT(60)
  <2> QED
    BY <1>2, <2>4, <2>7 DEF SetCurrent, Indexed
<1>9. gid'[p] = (k + 1) * PadOf(R)
  BY <1>1, <1>2 DEF Buffers, Hashed
<1>10. CASE k = 0
  <2>1. Goto(p, "mint") /\ layer'[p] = 1
    BY <1>1, <1>2, <1>10 DEF PoolTypes
  <2>2. Stage(R, H, p, "mint", 1) /\ CountedAfter(p, "mint", 1)'
    BY <1>2, <1>3, Layers DEF Stage, CountedAfter, HistoryOk
  <2>3. AccOf(R, H, p, "mint", 1) = Folded(R, p, 0)
    <3>1. 1 - 1 = 0 /\ H[0].of[p] = Folded(R, p, 0)
      BY <1>2 DEF HistoryOk
    <3> QED
      BY <1>3, <3>1 DEF AccOf
  <2>4. Buffers(R, H, p, "mint", 1)'
    <3>1. k + 1 = 1
      BY <1>10
    <3>2. feq'[p] = FeqOf(R, p, 1) /\ gid'[p] = 1 * PadOf(R)
      BY <1>8, <1>9, <3>1
    <3> QED
      BY <1>8, <1>10, <2>3, <3>2 DEF Buffers, Folds, Hashed
  <2>5. Step(p)
    BY DEF Step
  <2> QED
    BY <1>1, <1>7, <2>1, <2>2, <2>4, <2>5, SteppedHere
<1>11. CASE k # 0
  <2>1. Goto(p, "coin") /\ layer'[p] = k
    BY <1>1, <1>11
  <2>2. Stage(R, H, p, "coin", k) /\ CountedAfter(p, "coin", k)'
    BY <1>2, <1>3, <1>11 DEF Stage, CountedAfter
  <2>3. acc'[p] = AccOf(R, H, p, "coin", k)
    BY <1>2, <1>3, <1>8, <1>11 DEF Buffers, AccOf
  <2>4. Buffers(R, H, p, "coin", k)'
    BY <1>8, <1>9, <1>11, <2>3 DEF Buffers, Folds, Hashed
  <2>5. Step(p)
    BY DEF Step
  <2> QED
    BY <1>1, <1>7, <2>1, <2>2, <2>4, <2>5, SteppedHere
<1> QED
  BY <1>10, <1>11
-------------------------------------------------------------------------------
(* What the history holds are records of three regions.                    *)
Regions(m) == \E x, y, z : m = [a |-> x, b |-> y, c |-> z]

LEMMA RegionsSet ==
    ASSUME NEW m, Regions(m), NEW u, NEW v
    PROVE  [m EXCEPT !.a = u, !.c = v] = [a |-> u, b |-> m.b, c |-> v]
<1>1. PICK x, y, z : m = [a |-> x, b |-> y, c |-> z]
  BY DEF Regions
<1> PICK n : n = [m EXCEPT !.a = u]
  OBVIOUS
<1>2. n = [a |-> u, b |-> y, c |-> z] /\ m.b = y
  BY <1>1
<1> PICK q : q = [n EXCEPT !.c = v]
  OBVIOUS
<1>3. q = [a |-> u, b |-> y, c |-> v]
  BY <1>2
<1>4. [m EXCEPT !.a = u, !.c = v] = [[m EXCEPT !.a = u] EXCEPT !.c = v]
  OBVIOUS
<1> QED
  BY <1>2, <1>3, <1>4

LEMMA RegionsLast ==
    ASSUME NEW m, Regions(m), NEW v
    PROVE  [m EXCEPT !.c = v] = [a |-> m.a, b |-> m.b, c |-> v]
<1>1. PICK x, y, z : m = [a |-> x, b |-> y, c |-> z]
  BY DEF Regions
<1> PICK q : q = [m EXCEPT !.c = v]
  OBVIOUS
<1>2. q = [a |-> x, b |-> y, c |-> v]
  BY <1>1
<1> QED
  BY <1>1, <1>2

LEMMA HistoryRecord ==
    ASSUME NEW R, NEW H, HistoryOk(R, H), NEW k \in DOMAIN H, NEW p \in Party
    PROVE  Regions(H[k].of[p])
<1>1. CASE k = 0
  <2> PICK z : z = [i \in LanesOf(R) |-> FoldBit(p, Raw(R, p, 0).c[i], Opening(R, p, 0)[i])]
    OBVIOUS
  <2>1. Folded(R, p, 0) = [a |-> Raw(R, p, 0).a, b |-> Raw(R, p, 0).b, c |-> z]
    BY DEF Folded
  <2>2. H[k].of[p] = Folded(R, p, 0)
    BY <1>1 DEF HistoryOk
  <2> QED
    BY <2>1, <2>2 DEF Regions
<1>2. CASE k # 0
  <2>1. H[k].of[p] = Combination(R, H, p, k, H[k].r)
    BY <1>2 DEF HistoryOk
  <2> QED
    BY <2>1 DEF Combination, CombinedOf, Regions
<1> QED
  BY <1>1, <1>2

(* The history H with the coin r of layer k.                               *)
Extended(R, H, k, r) ==
    [j \in DOMAIN H \cup {k} |->
       IF j = k THEN [r |-> r, of |-> [p \in Party |-> Combination(R, H, p, k, r)]] ELSE H[j]]

(* K has what H has and the coin r of layer k.                             *)
Grows(R, H, k, r, K) ==
    HistoryOk(R, K) /\ Later(H, K) /\ DOMAIN K = DOMAIN H \cup {k} /\ K[k].r = r

LEMMA HistoryGrows ==
    ASSUME NEW R \in Reps, NEW H, HistoryOk(R, H), NEW k \in Nat, k # 0, k \notin DOMAIN H,
           k - 1 \in DOMAIN H, NEW r \in 0 .. (Len(R) - 1)
    PROVE  Grows(R, H, k, r, Extended(R, H, k, r))
<1> PICK K : K = Extended(R, H, k, r)
  OBVIOUS
<1>1. /\ DOMAIN K = DOMAIN H \cup {k} /\ \A j \in DOMAIN H : K[j] = H[j]
      /\ K[k].r = r /\ \A p \in Party : K[k].of[p] = Combination(R, H, p, k, r)
  BY DEF Extended
<1>2. Later(H, K)
  BY <1>1 DEF Later
<1>3. \A p \in Party : Prior(K, p, k) = Prior(H, p, k)
  BY <1>1 DEF Prior
<1>4. ASSUME NEW p \in Party PROVE Combination(R, K, p, k, r) = Combination(R, H, p, k, r)
  <2>1. /\ \A q \in Party : Gap(R, K, q, k, r) = Gap(R, H, q, k, r)
        /\ \A q \in Party : Absorption(R, K, q, k, r) = Absorption(R, H, q, k, r)
    BY <1>3 DEF Gap, Absorption
  <2>2. Difference(R, K, p, k, r) = Difference(R, H, p, k, r)
    BY <2>1, Peers DEF Difference
  <2> QED
    BY <2>1, <2>2 DEF Combination
<1>5. ASSUME NEW i \in LanesOf(R) PROVE LaneGood(K[k].of[Garbler], K[k].of[Evaluator], i)
  <2>1. SrcOf(R, i, r) \in LanesOf(R)
    <3>1. Len(R) \in Nat \ {0}
      BY RequestIs
    <3> QED
      BY <3>1 DEF SrcOf, LanesOf
  <2> PICK m, n, s, t, d : /\ m = Prior(H, Garbler, k) /\ n = Prior(H, Evaluator, k)
                           /\ s = Folded(R, Garbler, k) /\ t = Folded(R, Evaluator, k)
                           /\ d = Difference(R, H, Garbler, k, r)
    OBVIOUS
  <2>2. LaneGood(m, n, i)
    BY DEF HistoryOk, Prior
  <2>3. LaneGood(s, t, SrcOf(R, i, r))
    BY <2>1, FoldedGood
  <2>4. d[i] = GapOf(R, m, s, r)[i] ++ GapOf(R, n, t, r)[i]
    BY Peers DEF Difference, Gap
  <2>5. d = Difference(R, H, Evaluator, k, r)
    <3>1. \A x, y : x ++ y = y ++ x
      BY DEF ++, XorBit, SymDiff
    <3> QED
      BY <3>1, Peers DEF Difference
  <2>6. LaneGood(CombinedOf(R, AbsorbedOf(R, m, s, r), s, r, d),
                 CombinedOf(R, AbsorbedOf(R, n, t, r), t, r, d), i)
    BY <2>2, <2>3, <2>4, CombinedGood
  <2>7. /\ K[k].of[Garbler] = CombinedOf(R, AbsorbedOf(R, m, s, r), s, r, d)
        /\ K[k].of[Evaluator] = CombinedOf(R, AbsorbedOf(R, n, t, r), t, r, d)
    BY <1>1, <2>5, Peers DEF Combination, Absorption
  <2> QED
    BY <2>6, <2>7
<1>6. HistoryOk(R, K)
  <2>1. \A j \in DOMAIN H : j # 0 => j - 1 \in DOMAIN H
    BY DEF HistoryOk
  <2>2. ASSUME NEW j \in DOMAIN K, j # 0, NEW p \in Party
        PROVE  K[j].of[p] = Combination(R, K, p, j, K[j].r)
    <3>1. CASE j = k
      BY <1>1, <1>4, <3>1
    <3>2. CASE j \in DOMAIN H
      <4>1. H[j].of[p] = Combination(R, H, p, j, H[j].r)
        BY <2>2, <3>2 DEF HistoryOk
      <4>2. \A q : Combination(R, K, p, j, q) = Combination(R, H, p, j, q)
        BY <1>2, <2>2, <3>2, LaterValues
      <4> QED
        BY <1>1, <3>2, <4>1, <4>2
    <3> QED
      BY <1>1, <3>1, <3>2
  <2>3. 0 \in DOMAIN K /\ DOMAIN K \subseteq Nat /\ \A p \in Party : K[0].of[p] = Folded(R, p, 0)
    BY <1>1 DEF HistoryOk
  <2>4. \A j \in DOMAIN K, i \in LanesOf(R) : LaneGood(K[j].of[Garbler], K[j].of[Evaluator], i)
    BY <1>1, <1>5 DEF HistoryOk
  <2>5. \A j \in DOMAIN K : j # 0 => j - 1 \in DOMAIN K
    BY <1>1, <2>1
  <2> QED
    BY <2>2, <2>3, <2>4, <2>5 DEF HistoryOk
<1> QED
  BY <1>1, <1>2, <1>6 DEF Grows

(* A coin the oracle was asked for keeps its answer; a new one extends the *)
(* history by one layer.                                                   *)
LEMMA HistoryTaken ==
    ASSUME NEW R \in Reps, NEW H, HistoryOk(R, H), CoinsAsked(H),
           NEW k \in Nat, k # 0, k - 1 \in DOMAIN H, NEW r \in 0 .. (Len(R) - 1),
           Point(k) \in DOMAIN coin => r = coin[Point(k)],
           coin' = [t \in DOMAIN coin \cup {Point(k)} |-> IF t = Point(k) THEN r ELSE coin[t]]
    PROVE  \E K : /\ HistoryOk(R, K) /\ Later(H, K) /\ CoinsAsked(K)'
                  /\ k \in DOMAIN K /\ K[k].r = r
<1>1. /\ DOMAIN coin' = DOMAIN coin \cup {Point(k)} /\ coin'[Point(k)] = r
      /\ \A t \in DOMAIN coin : coin'[t] = coin[t]
  OBVIOUS
<1>2. CASE k \in DOMAIN H
  <2>1. Point(k) \in DOMAIN coin /\ H[k].r = r
    BY <1>2 DEF CoinsAsked
  <2>2. DOMAIN coin' = DOMAIN coin
    BY <1>1, <2>1
  <2>3. CoinsAsked(H)'
    BY <1>1, <2>2 DEF CoinsAsked
  <2> QED
    BY <1>2, <2>1, <2>3 DEF Later
<1>3. CASE k \notin DOMAIN H
  <2> PICK K : K = Extended(R, H, k, r)
    OBVIOUS
  <2>1. /\ HistoryOk(R, K) /\ Later(H, K) /\ DOMAIN K = DOMAIN H \cup {k} /\ K[k].r = r
    <3>1. Grows(R, H, k, r, Extended(R, H, k, r))
      BY <1>3, HistoryGrows
    <3> QED
      BY <3>1 DEF Grows
  <2>2. ASSUME NEW j \in Nat, j # 0
        PROVE  /\ Point(j) \in DOMAIN coin' <=> j \in DOMAIN K
               /\ j \in DOMAIN K => K[j].r = coin'[Point(j)]
    <3>1. CASE j = k
      BY <1>1, <2>1, <3>1
    <3>2. CASE j # k
      <4>1. Point(j) # Point(k)
        BY <3>2, PointInjective
      <4>2. /\ Point(j) \in DOMAIN coin <=> j \in DOMAIN H
            /\ j \in DOMAIN H => H[j].r = coin[Point(j)]
        BY <2>2 DEF CoinsAsked
      <4>3. j \in DOMAIN H => K[j] = H[j]
        BY <2>1 DEF Later
      <4> QED
        BY <1>1, <2>1, <3>2, <4>1, <4>2, <4>3
    <3> QED
      BY <3>1, <3>2
  <2>3. CoinsAsked(K)'
    BY <2>2 DEF CoinsAsked
  <2> QED
    BY <2>1, <2>3
<1> QED
  BY <1>2, <1>3

LEMMA CoinExchange ==
    ASSUME NEW R, NEW H, ExchangeInv(R, H), CoinInv, NEW p \in Party, Coin(p)
    PROVE  \E K : ExchangeInv(R, K)'
<1> PICK k : k = layer[p]
  OBVIOUS
<1> PICK msg : msg = held'[p]
  OBVIOUS
<1>1. /\ at[p] = "coin" /\ Goto(p, "bucket") /\ Send(p, send_io(p), msg)
      /\ UNCHANGED <<rep, layer, sac, Sout, feq, gid, sigma>>
  BY DEF Coin, At
<1>2. /\ Indexed /\ PoolTypes /\ HistoryOk(R, H) /\ rep = R /\ R \in Reps /\ k \in Nat
      /\ Stage(R, H, p, "coin", k) /\ Buffers(R, H, p, "coin", k)
      /\ ChannelsOk(R, H) /\ Before(k) \in Nat /\ seen[p][send_io(p)] = Before(k) + 2
      /\ CoinsAsked(H)
  BY <1>1, Stands, Counts DEF Looping, ExchangeInv
<1>3. k # 0 /\ k - 1 \in DOMAIN H /\ IsLayer(R, k)
  BY <1>2 DEF Stage
<1>4. Transcript(p) = Point(k)
  <2>1. seen[p] = Digest(p, Sent("coin", k), Read("coin", k))
    BY <1>1, Here DEF Looping
  <2>2. Sent("coin", k) = 3 * k + 1 /\ Read("coin", k) = 3 * k + 1
    BY <1>2, <1>3 DEF Sent, Read, Before
  <2> QED
    BY <2>1, <2>2, DigestPoint DEF Transcript
<1>5. PICK r \in 0 .. (L - 1) :
        /\ Transcript(p) \in DOMAIN coin => r = coin[Transcript(p)]
        /\ coin' = [t \in DOMAIN coin \cup {Transcript(p)} |->
                      IF t = Transcript(p) THEN r ELSE coin[t]]
        /\ acc' = [acc EXCEPT ![p] = Absorbed(p, r)]
        /\ held' = [held EXCEPT ![p] = [i \in Lanes |->
                        LSB(acc[p].b[i].mac) ++ LSB(sac[p].b[Src(i, r)].mac)]]
  BY DEF Coin
<1>6. /\ L = Len(R) /\ Lanes = LanesOf(R) /\ \A i : Src(i, r) = SrcOf(R, i, r)
  BY <1>2, OfRequest
<1>7. PICK K : /\ HistoryOk(R, K) /\ Later(H, K) /\ CoinsAsked(K)'
               /\ k \in DOMAIN K /\ K[k].r = r
  <2>1. r \in 0 .. (Len(R) - 1)
    BY <1>5, <1>6
  <2>2. /\ Point(k) \in DOMAIN coin => r = coin[Point(k)]
        /\ coin' = [t \in DOMAIN coin \cup {Point(k)} |-> IF t = Point(k) THEN r ELSE coin[t]]
    BY <1>4, <1>5
  <2> QED
    BY <1>2, <1>3, <2>1, <2>2, HistoryTaken
<1>8. ChannelsOk(R, K) /\ Buffers(R, K, p, "coin", k) /\ Stage(R, K, p, "coin", k)
  <2>1. Local(R, H, p, "coin", k)
    BY <1>1 DEF ExchangeInv
  <2>2. Local(R, K, p, "coin", k)
    BY <1>2, <1>7, <2>1, LaterLocal
  <2> QED
    BY <1>2, <1>7, <2>2, LaterChannels DEF Local
<1>9. /\ "bucket" \in Looping /\ "bucket" \notin After /\ "coin" \notin After
  BY DEF Looping, After
<1>10. acc[p] = Prior(K, p, k) /\ sac[p] = Folded(R, p, k)
  BY <1>3, <1>8, <1>9 DEF Buffers, AccOf, Prior
<1>11. acc'[p] = Absorption(R, K, p, k, r)
  <2>1. acc'[p] = Absorbed(p, r)
    BY <1>2, <1>5 DEF Indexed
  <2>2. Regions(acc[p])
    <3>1. k - 1 \in DOMAIN K
      BY <1>3, <1>8 DEF Stage
    <3>2. Regions(K[k - 1].of[p])
      BY <1>7, <3>1, HistoryRecord
    <3> QED
      BY <1>10, <3>2 DEF Prior
  <2> DEFINE f == [i \in Lanes |-> XorBundles(acc[p].a[i], sac[p].a[Src(i, r)])]
             g == [i \in Lanes |-> XorBundles(acc[p].c[i], sac[p].c[Src(i, r)])]
  <2>3. Absorbed(p, r) = [acc[p] EXCEPT !.a = f, !.c = g]
    <3>1. Absorbed(p, r) =
            [acc[p] EXCEPT
               !.a = [i \in Lanes |-> XorBundles(acc[p].a[i], sac[p].a[Src(i, r)])],
               !.c = [i \in Lanes |-> XorBundles(acc[p].c[i], sac[p].c[Src(i, r)])]]
      BY <2>2, Zenon DEF Absorbed, Regions
    <3> QED
      BY <3>1
  <2>4. AbsorbedOf(R, acc[p], sac[p], r) = [a |-> f, b |-> acc[p].b, c |-> g]
    BY <1>6 DEF AbsorbedOf
  <2> HIDE DEF f, g
  <2>5. [acc[p] EXCEPT !.a = f, !.c = g] = [a |-> f, b |-> acc[p].b, c |-> g]
    BY <2>2, RegionsSet
  <2> QED
    BY <1>10, <2>1, <2>3, <2>4, <2>5 DEF Absorption
<1>12. held'[p] = Gap(R, K, p, k, r)
  <2>1. held'[p] = [i \in Lanes |-> LSB(acc[p].b[i].mac) ++ LSB(sac[p].b[Src(i, r)].mac)]
    BY <1>2, <1>5 DEF Indexed
  <2> QED
    BY <1>6, <1>10, <2>1 DEF Gap, GapOf
<1>13. ChannelsOk(R, K)'
  <2>1. (Before(k) + 2) + 1 = Before(k) + 3
    BY <1>2
  <2>2. send_io(p) \in {"io", "sib"} /\ Writer(send_io(p)) = p /\ send_io(p) \in Channel
    BY Ends
  <2>3. Message(R, K, send_io(p), Before(k) + 3, msg)
    BY <1>3, <1>7, <1>12, <2>2, LoopSends
  <2> QED
    BY <1>1, <1>2, <1>8, <2>1, <2>2, <2>3, SendOk
<1>14. Stage(R, K, p, "bucket", k) /\ CountedAfter(p, "bucket", k)'
  BY <1>3, <1>7, <1>8, <1>9 DEF Stage, CountedAfter
<1>15. Buffers(R, K, p, "bucket", k)'
  <2>1. acc'[p] = AccOf(R, K, p, "bucket", k)
    BY <1>7, <1>9, <1>11 DEF AccOf
  <2>2. /\ sac'[p] = Folded(R, p, k) /\ held'[p] = Gap(R, K, p, k, K[k].r)
        /\ feq'[p] = FeqOf(R, p, k + 1) /\ gid'[p] = (k + 1) * PadOf(R)
    BY <1>1, <1>7, <1>8, <1>10, <1>12 DEF Buffers, Folds, Hashed
  <2> QED
    BY <2>1, <2>2 DEF Buffers, Folds, Hashed
<1>16. rep' = rep /\ Indexed' /\ \A q \in Party : q # p => Same(q)
  BY <1>2, Frames DEF Step
<1>17. at'[p] = "bucket" /\ layer'[p] = k
  BY <1>1, <1>2 DEF Goto, PoolTypes
<1>18. ExchangeInv(R, K)'
  BY <1>7, <1>13, <1>14, <1>15, <1>16, <1>17, Stepped
<1> QED
  BY <1>18

(* The shift a party has just taken is the one the history records.        *)
LEMMA ShiftTaken ==
    ASSUME NEW R, NEW H, ExchangeInv(R, H), CoinInv, NEW p \in Party, at[p] = "bucket"
    PROVE  Last(shifts[p])[2] = H[layer[p]].r
<1> PICK k : k = layer[p]
  OBVIOUS
<1>1. k \in Nat /\ k # 0 /\ k \in DOMAIN H /\ CoinsAsked(H)
  BY Stands DEF Stage, ExchangeInv
<1>2. Len(shifts[p]) = k
  BY Here DEF Looping, Shifted
<1>3. shifts[p][k] = <<Point(k), coin[Point(k)]>>
  BY <1>1, <1>2 DEF CoinInv, PartyInv
<1>4. coin[Point(k)] = H[k].r
  BY <1>1 DEF CoinsAsked
<1> QED
  BY <1>2, <1>3, <1>4 DEF Last

(* What each party has sent and read after the loop.                       *)
LEMMA AfterCounts ==
    /\ \A p \in Party : SentAfter(p, "feq") = 0 /\ ReadAfter(p, "feq") = 0 /\ BackAfter(p, "feq") = 0
    /\ SentAfter(Garbler, "feq_answer") = 1 /\ ReadAfter(Garbler, "feq_answer") = 0
    /\ SentAfter(Garbler, "reconcile") = 2 /\ ReadAfter(Garbler, "reconcile") = 0
    /\ SentAfter(Garbler, "sigma") = 3 /\ ReadAfter(Garbler, "sigma") = 0
    /\ SentAfter(Garbler, "done") = 3 /\ ReadAfter(Garbler, "done") = 1
    /\ SentAfter(Evaluator, "feq_open") = 0 /\ ReadAfter(Evaluator, "feq_open") = 1
    /\ SentAfter(Evaluator, "reconcile") = 0 /\ ReadAfter(Evaluator, "reconcile") = 2
    /\ SentAfter(Evaluator, "sigma") = 1 /\ ReadAfter(Evaluator, "sigma") = 2
    /\ SentAfter(Evaluator, "done") = 1 /\ ReadAfter(Evaluator, "done") = 3
    /\ BackAfter(Garbler, "feq_answer") = 0
    /\ \A a \in {"feq_open", "reconcile", "sigma", "done"} : BackAfter(Garbler, a) = 1
    /\ \A a \in {"feq_open", "reconcile", "sigma", "done"} : BackAfter(Evaluator, a) = 1
<1>1. Garbler # Evaluator /\ \A p \in Party : p = Garbler \/ p = Evaluator
  BY PartyAssumption DEF Party
<1>2. /\ SentAfter(Garbler, "feq") = 0 /\ SentAfter(Garbler, "feq_answer") = 1
      /\ SentAfter(Garbler, "reconcile") = 2 /\ SentAfter(Garbler, "sigma") = 3
      /\ SentAfter(Garbler, "done") = 3
  BY DEF SentAfter
<1>3. /\ SentAfter(Evaluator, "feq") = 0 /\ SentAfter(Evaluator, "feq_open") = 0
      /\ SentAfter(Evaluator, "reconcile") = 0 /\ SentAfter(Evaluator, "sigma") = 1
      /\ SentAfter(Evaluator, "done") = 1
  BY <1>1 DEF SentAfter
<1>4. /\ ReadAfter(Garbler, "feq") = 0 /\ ReadAfter(Garbler, "feq_answer") = 0
      /\ ReadAfter(Garbler, "reconcile") = 0 /\ ReadAfter(Garbler, "sigma") = 0
      /\ ReadAfter(Garbler, "done") = 1
  BY <1>1 DEF ReadAfter
<1>5. ReadAfter(Evaluator, "feq") = 0 /\ ReadAfter(Evaluator, "feq_open") = 1
  BY <1>1 DEF ReadAfter
<1>6. ReadAfter(Evaluator, "reconcile") = 2 /\ ReadAfter(Evaluator, "sigma") = 2
  BY <1>1 DEF ReadAfter
<1>7. ReadAfter(Evaluator, "done") = 3
  BY <1>1 DEF ReadAfter
<1> QED
  BY <1>1, <1>2, <1>3, <1>4, <1>5, <1>6, <1>7 DEF BackAfter

LEMMA BucketExchange ==
    ASSUME NEW R, NEW H, ExchangeInv(R, H), CoinInv, NEW p \in Party, Bucket(p)
    PROVE  ExchangeInv(R, H)'
<1> PICK k : k = layer[p]
  OBVIOUS
<1> PICK src : src = recv_io(p)
  OBVIOUS
<1> PICK r : r = H[k].r
  OBVIOUS
<1> DEFINE d == [i \in Lanes |-> held[p][i] ++ Head(wire[src])[i]]
<1>1. /\ at[p] = "bucket" /\ Arrived(src) /\ Recv(p, src)
      /\ acc' = [acc EXCEPT ![p] = Combine(p, d, Last(shifts[p])[2])]
      /\ UNCHANGED <<sac, Sout, held, feq, gid, coin, sigma>>
      /\ IF layer[p] < B - 1 THEN layer' = [layer EXCEPT ![p] = @ + 1] /\ Goto(p, "mint")
                             ELSE Goto(p, "feq") /\ UNCHANGED layer
  BY DEF Bucket, At
<1>2. /\ Indexed /\ PoolTypes /\ HistoryOk(R, H) /\ rep = R /\ R \in Reps /\ k \in Nat
      /\ Stage(R, H, p, "bucket", k) /\ Buffers(R, H, p, "bucket", k)
      /\ ChannelsOk(R, H) /\ Before(k) \in Nat /\ seen[p][src] = Before(k) + 2
      /\ seen[p][send_io(p)] = Before(k) + 3 /\ seen[p]["io_back"] = 0
  BY <1>1, Stands, Counts DEF Looping
<1>3. /\ "mint" \notin After /\ "bucket" \notin After /\ "feq" \in After
      /\ "mint" \in Looping
  BY DEF Looping, After
<1>4. /\ Writer(src) = Peer(p) /\ src \in Channel /\ Reader(src) = p /\ src # "io_back"
      /\ send_io(p) \in Channel /\ send_io(p) # src /\ send_io(p) # "io_back"
      /\ "io_back" \in Channel
  BY Ends
<1>5. k # 0 /\ k \in DOMAIN H /\ k - 1 \in DOMAIN H /\ IsLayer(R, k)
  BY <1>2 DEF Stage
<1>6. Head(wire[src]) = Gap(R, H, Peer(p), k, r)
  <2> PICK m, n : m = Head(wire[src]) /\ n = seen[p][src] + 1
    OBVIOUS
  <2>1. Message(R, H, src, n, m)
    BY <1>1, <1>2, <1>4, RecvOk
  <2>2. IsLayer(R, k) /\ n = Before(k) + 3 /\ src # "io_back" /\ k # 0 /\ 3 \in 1 .. 3
    BY <1>2, <1>4, <1>5
  <2>3. LoopIs(R, H, src, k, 3, m)
    BY <2>1, <2>2, LoopReads
  <2> QED
    BY <1>4, <2>3 DEF LoopIs
<1>7. d = Difference(R, H, p, k, r)
  <2>1. held[p] = Gap(R, H, p, k, r) /\ Lanes = LanesOf(R)
    BY <1>2, OfRequest DEF Buffers
  <2> QED
    BY <1>6, <2>1 DEF Difference
<1>8. ChannelsOk(R, H)'
  BY <1>1, <1>2, <1>4, RecvOk
<1> HIDE DEF d
<1>9. acc[p] = Absorption(R, H, p, k, r) /\ sac[p] = Folded(R, p, k)
  BY <1>2, <1>3 DEF Buffers, AccOf
<1>10. acc'[p] = H[k].of[p]
  <2>1. acc'[p] = Combine(p, d, r)
    BY <1>1, <1>2, ShiftTaken DEF Indexed
  <2> PICK m, s, e : m = acc[p] /\ s = sac[p] /\ e = Difference(R, H, p, k, r)
    OBVIOUS
  <2>2. Regions(m)
    BY <1>9 DEF Absorption, AbsorbedOf, Regions
  <2> DEFINE g == [i \in LanesOf(R) |-> XorBundles(m.c[i], AndBundle(e[i], s.a[SrcOf(R, i, r)]))]
  <2>3. Lanes = LanesOf(R) /\ \A i : Src(i, r) = SrcOf(R, i, r)
    BY <1>2, OfRequest
  <2>4. Combine(p, e, r) = [m EXCEPT !.c = g]
    BY <2>3 DEF Combine
  <2>5. CombinedOf(R, m, s, r, e) = [a |-> m.a, b |-> m.b, c |-> g]
    BY DEF CombinedOf
  <2> HIDE DEF g
  <2>6. [m EXCEPT !.c = g] = [a |-> m.a, b |-> m.b, c |-> g]
    BY <2>2, RegionsLast
  <2>7. H[k].of[p] = Combination(R, H, p, k, r)
    BY <1>2, <1>5 DEF HistoryOk
  <2> QED
    BY <1>7, <1>9, <2>1, <2>4, <2>5, <2>6, <2>7 DEF Combination
<1>11. feq'[p] = FeqOf(R, p, k + 1) /\ gid'[p] = (k + 1) * PadOf(R)
  BY <1>1, <1>2 DEF Buffers, Folds, Hashed
<1>12. CASE Continues(R, k)
  <2>1. Goto(p, "mint") /\ layer'[p] = k + 1
    BY <1>1, <1>2, <1>12, OfRequest DEF PoolTypes
  <2>2. (k + 1) - 1 = k /\ k + 1 # 0
    BY <1>2
  <2>3. Stage(R, H, p, "mint", k + 1) /\ CountedAfter(p, "mint", k + 1)'
    BY <1>2, <1>3, <1>5, <1>12, <2>2, Layers DEF Stage, CountedAfter
  <2>4. AccOf(R, H, p, "mint", k + 1) = H[k].of[p]
    BY <1>3, <2>2 DEF AccOf
  <2>5. Buffers(R, H, p, "mint", k + 1)'
    BY <1>10, <1>11, <2>4 DEF Buffers, Folds, Hashed
  <2>6. Step(p)
    BY DEF Step
  <2> QED
    BY <1>1, <1>8, <2>1, <2>3, <2>5, <2>6, SteppedHere
<1>13. CASE ~Continues(R, k)
  <2>1. Goto(p, "feq") /\ layer'[p] = k
    BY <1>1, <1>2, <1>13, OfRequest
  <2>2. Stage(R, H, p, "feq", k)
    BY <1>3, <1>5, <1>13 DEF Stage, IsLast, Ending
  <2>3. CountedAfter(p, "feq", k)'
    <3>1. seen' = [seen EXCEPT ![p][src] = @ + 1]
      BY <1>1 DEF Recv
    <3>2. /\ seen'[p][src] = (Before(k) + 2) + 1 /\ seen'[p][send_io(p)] = Before(k) + 3
          /\ seen'[p]["io_back"] = 0
      BY <1>2, <1>4, <3>1 DEF PoolTypes
    <3>3. SentAfter(p, "feq") = 0 /\ ReadAfter(p, "feq") = 0 /\ BackAfter(p, "feq") = 0
      BY AfterCounts
    <3> QED
      BY <1>2, <3>2, <3>3 DEF CountedAfter
  <2>4. AccOf(R, H, p, "feq", k) = H[k].of[p]
    BY <1>3 DEF AccOf
  <2>5. Buffers(R, H, p, "feq", k)'
    BY <1>10, <1>11, <2>4 DEF Buffers, Folds, Hashed
  <2>6. Step(p)
    BY DEF Step
  <2> QED
    BY <1>1, <1>8, <2>1, <2>2, <2>3, <2>5, <2>6, SteppedHere
<1> QED
  BY <1>12, <1>13
-------------------------------------------------------------------------------
(* After the loop.                                                         *)
LEMMA SteppedAfter ==
    ASSUME NEW R, NEW H, ExchangeInv(R, H), CoinInv, NEW p \in Party, at[p] \in After,
           \/ Step(p)
           \/ p = Garbler /\ (FeqCommit \/ FeqOpen)
           \/ p = Evaluator /\ (FeqAnswer \/ FeqVerify),
           UNCHANGED <<layer, acc, feq, gid, coin>>, ChannelsOk(R, H)',
           NEW k, k = layer[p], NEW a, a \in Ending(p), Goto(p, a),
           a = "feq_open" => held'[p] = <<"com", FeqOf(R, Garbler, k + 1)>>,
           a = "sigma" => held'[p] = OpenedBy(R, H, p, k),
           a = "done" => sigma'[p] = ResultBy(R, H, p, k),
           CountedAfter(p, a, k)'
    PROVE  ExchangeInv(R, H)'
<1>1. /\ Stage(R, H, p, at[p], k) /\ Buffers(R, H, p, at[p], k)
  BY Stands
<1>2. a \in After /\ a \notin Looping
  BY DEF Ending, After, Looping
<1>3. at[p] \notin Looping
  BY DEF After, Looping
<1>4. Stage(R, H, p, a, k)
  BY <1>1, <1>2 DEF Stage, Looping
<1>5. /\ acc'[p] = AccOf(R, H, p, a, k) /\ feq'[p] = FeqOf(R, p, Folds(a, k))
      /\ gid'[p] = Hashed(a, k) * PadOf(R)
  BY <1>1, <1>2, <1>3 DEF Buffers, AccOf, Folds, Hashed, Looping
<1>6. Buffers(R, H, p, a, k)'
  BY <1>2, <1>5 DEF Buffers, Looping
<1>7. layer'[p] = k
  OBVIOUS
<1> QED
  BY <1>4, <1>6, <1>7, SteppedHere

(* What a party can read after the loop.                                   *)
LastIs(R, H, c, k, s, msg) ==
    /\ c = "io" /\ s = 1 => msg = <<"com", FeqOf(R, Garbler, k + 1)>>
    /\ c = "io" /\ s = 2 => msg = FeqOf(R, Garbler, k + 1)
    /\ c = "io" /\ s = 3 => msg = OpenedBy(R, H, Garbler, k)
    /\ c = "sib" /\ s = 1 => msg = OpenedBy(R, H, Evaluator, k)

LEMMA LastReads ==
    ASSUME NEW R, NEW H, NEW k, IsLast(R, k), NEW c, NEW n, NEW msg, Message(R, H, c, n, msg),
           NEW s \in 1 .. 3, n = (Before(k) + 3) + s
    PROVE  LastIs(R, H, c, k, s, msg)
<1>1. LastMessage(R, H, c, n, msg) /\ k \in Nat /\ Before(k) \in Nat
  BY Counts DEF Message, IsLast, IsLayer
<1>2. /\ s = 1 => n = Before(k) + 4
      /\ s = 2 => n = Before(k) + 5
      /\ s = 3 => n = Before(k) + 6
  BY <1>1
<1> QED
  BY <1>1, <1>2 DEF LastMessage, LastIs

(* The digests are equal.                                                  *)
LEMMA DigestsAgree ==
    ASSUME NEW R \in Reps, NEW n
    PROVE  FeqOf(R, Garbler, n) = FeqOf(R, Evaluator, n)
BY VectorsAgree DEF FeqOf

(* Where a party stands after the loop.                                    *)
LEMMA StandsAfter ==
    ASSUME NEW R, NEW H, ExchangeInv(R, H), CoinInv, NEW p \in Party, at[p] \in After
    PROVE  /\ layer[p] \in Nat /\ Before(layer[p]) + 3 \in Nat
           /\ IsLast(R, layer[p]) /\ layer[p] \in DOMAIN H
           /\ acc[p] = H[layer[p]].of[p] /\ feq[p] = FeqOf(R, p, layer[p] + 1)
           /\ seen[p][send_io(p)] = (Before(layer[p]) + 3) + SentAfter(p, at[p])
           /\ seen[p][recv_io(p)] = (Before(layer[p]) + 3) + ReadAfter(p, at[p])
           /\ seen[p]["io_back"] = BackAfter(p, at[p])
<1>1. /\ layer[p] \in Nat /\ Stage(R, H, p, at[p], layer[p]) /\ Buffers(R, H, p, at[p], layer[p])
      /\ CountedAfter(p, at[p], layer[p])
  BY Stands
<1>2. Before(layer[p]) \in Nat
  BY <1>1, Counts
<1>3. at[p] \notin {"mint", "garble", "eval", "sopen"}
  BY DEF After
<1> QED
  BY <1>1, <1>2, <1>3 DEF Stage, Buffers, CountedAfter, AccOf, Folds

LEMMA FeqCommitExchange ==
    ASSUME NEW R, NEW H, ExchangeInv(R, H), CoinInv, FeqCommit
    PROVE  ExchangeInv(R, H)'
<1> PICK p, k, b : p = Garbler /\ k = layer[p] /\ b = Before(k) + 3
  OBVIOUS
<1> PICK msg : msg = <<"com", feq[p]>>
  OBVIOUS
<1>1. /\ at[p] = "feq" /\ Goto(p, "feq_answer") /\ Send(p, "io", msg)
      /\ UNCHANGED <<layer, acc, feq, gid, coin>>
  BY DEF FeqCommit, At, buffers
<1>2. /\ p \in Party /\ "feq" \in After /\ "feq_answer" \in Ending(p)
      /\ send_io(p) = "io" /\ recv_io(p) = "sib" /\ Writer("io") = p
      /\ {"io", "io_back", "sib"} \subseteq Channel
  BY Peers, Ends DEF After, Ending
<1>3. /\ Indexed /\ PoolTypes /\ ChannelsOk(R, H)
  BY <1>2, Stands
<1>4. /\ k \in Nat /\ b \in Nat /\ IsLast(R, k) /\ k \in DOMAIN H /\ feq[p] = FeqOf(R, p, k + 1)
      /\ seen[p]["io"] = b + 0 /\ seen[p]["sib"] = b + 0 /\ seen[p]["io_back"] = 0
  BY <1>1, <1>2, StandsAfter, AfterCounts
<1>5. Message(R, H, "io", seen[p]["io"] + 1, msg)
  BY <1>4, LastSends
<1>6. ChannelsOk(R, H)'
  BY <1>1, <1>2, <1>3, <1>5, SendOk
<1>7. CountedAfter(p, "feq_answer", k)'
  <2>1. seen' = [seen EXCEPT ![p]["io"] = @ + 1]
    BY <1>1 DEF Send
  <2>2. seen'[p]["io"] = b + 1 /\ seen'[p]["sib"] = b + 0 /\ seen'[p]["io_back"] = 0
    BY <1>2, <1>3, <1>4, <2>1 DEF PoolTypes
  <2> QED
    BY <1>2, <2>2, AfterCounts DEF CountedAfter
<1> QED
  BY <1>1, <1>2, <1>6, <1>7, SteppedAfter

LEMMA FeqAnswerExchange ==
    ASSUME NEW R, NEW H, ExchangeInv(R, H), CoinInv, FeqAnswer
    PROVE  ExchangeInv(R, H)'
<1> PICK p, k, b : p = Evaluator /\ k = layer[p] /\ b = Before(k) + 3
  OBVIOUS
<1> PICK msg, m : msg = feq[p] /\ m = Head(wire["io"])
  OBVIOUS
<1>1. /\ at[p] = "feq" /\ Goto(p, "feq_open") /\ RecvSend(p, "io", "io_back", msg)
      /\ Arrived("io") /\ held' = [held EXCEPT ![p] = m]
      /\ UNCHANGED <<layer, acc, feq, gid, coin>>
  BY DEF FeqAnswer, At
<1>2. /\ p \in Party /\ "feq" \in After /\ "feq_open" \in Ending(p)
      /\ send_io(p) = "sib" /\ recv_io(p) = "io" /\ Reader("io") = p /\ Writer("io_back") = p
      /\ {"io", "io_back", "sib"} \subseteq Channel
  BY Peers, Ends, PartyAssumption DEF After, Ending
<1>3. /\ Indexed /\ PoolTypes /\ ChannelsOk(R, H)
  BY <1>2, Stands
<1>4. /\ k \in Nat /\ b \in Nat /\ IsLast(R, k) /\ k \in DOMAIN H /\ feq[p] = FeqOf(R, p, k + 1)
      /\ seen[p]["io"] = b + 0 /\ seen[p]["sib"] = b + 0 /\ seen[p]["io_back"] = 0
  BY <1>1, <1>2, StandsAfter, AfterCounts
<1>5. Message(R, H, "io_back", seen[p]["io_back"] + 1, msg)
  <2>1. Message(R, H, "io_back", 1, FeqOf(R, Evaluator, k + 1))
    BY <1>4, LastSends
  <2>2. seen[p]["io_back"] + 1 = 1 /\ msg = FeqOf(R, Evaluator, k + 1)
    BY <1>4
  <2> QED
    BY <2>1, <2>2
<1>6. ChannelsOk(R, H)'
  <2> PICK c, d : c = "io" /\ d = "io_back"
    OBVIOUS
  <2>1. /\ c \in Channel /\ d \in Channel /\ p = Reader(c) /\ p = Writer(d) /\ Arrived(c)
        /\ RecvSend(p, c, d, msg) /\ Message(R, H, d, seen[p][d] + 1, msg)
    BY <1>1, <1>2, <1>5
  <2> QED
    BY <1>3, <2>1, RecvSendOk
<1>7. CountedAfter(p, "feq_open", k)'
  <2>1. seen' = [seen EXCEPT ![p]["io"] = @ + 1, ![p]["io_back"] = @ + 1]
    BY <1>1 DEF RecvSend
  <2>2. seen'[p]["io"] = b + 1 /\ seen'[p]["sib"] = b + 0 /\ seen'[p]["io_back"] = 1
    BY <1>2, <1>3, <1>4, <2>1 DEF PoolTypes
  <2> QED
    BY <1>2, <2>2, AfterCounts DEF CountedAfter
<1>8. held'[p] = <<"com", FeqOf(R, Garbler, k + 1)>>
  <2> PICK n : n = seen[p]["io"] + 1
    OBVIOUS
  <2>1. Message(R, H, "io", n, m)
    BY <1>1, <1>2, <1>3, RecvOk
  <2>2. n = (Before(k) + 3) + 1 /\ 1 \in 1 .. 3
    BY <1>4
  <2>3. LastIs(R, H, "io", k, 1, m)
    BY <1>4, <2>1, <2>2, LastReads
  <2>4. m = <<"com", FeqOf(R, Garbler, k + 1)>>
    BY <2>3 DEF LastIs
  <2> QED
    BY <1>1, <1>2, <1>3, <2>4 DEF Indexed
<1> QED
  BY <1>1, <1>2, <1>6, <1>7, <1>8, SteppedAfter

LEMMA FeqOpenExchange ==
    ASSUME NEW R, NEW H, ExchangeInv(R, H), CoinInv, FeqOpen
    PROVE  ExchangeInv(R, H)'
<1> PICK p, k, b : p = Garbler /\ k = layer[p] /\ b = Before(k) + 3
  OBVIOUS
<1> PICK msg, m : msg = feq[p] /\ m = Head(wire["io_back"])
  OBVIOUS
<1>1. /\ at[p] = "feq_answer" /\ Verdict(p, m = msg) /\ RecvSend(p, "io_back", "io", msg)
      /\ Arrived("io_back") /\ UNCHANGED <<layer, acc, feq, gid, coin>>
  BY DEF FeqOpen, At, buffers
<1>2. /\ p \in Party /\ "feq_answer" \in After /\ "reconcile" \in Ending(p)
      /\ send_io(p) = "io" /\ recv_io(p) = "sib" /\ Reader("io_back") = p /\ Writer("io") = p
      /\ {"io", "io_back", "sib"} \subseteq Channel
  BY Peers, Ends DEF After, Ending
<1>3. /\ Indexed /\ PoolTypes /\ ChannelsOk(R, H) /\ R \in Reps
  BY <1>2, Stands
<1>4. /\ k \in Nat /\ b \in Nat /\ IsLast(R, k) /\ k \in DOMAIN H /\ feq[p] = FeqOf(R, p, k + 1)
      /\ seen[p]["io"] = b + 1 /\ seen[p]["sib"] = b + 0 /\ seen[p]["io_back"] = 0
  BY <1>1, <1>2, StandsAfter, AfterCounts
<1>5. Message(R, H, "io", seen[p]["io"] + 1, msg)
  <2>1. Message(R, H, "io", (Before(k) + 3) + 2, FeqOf(R, Garbler, k + 1))
    BY <1>4, LastSends
  <2>2. seen[p]["io"] + 1 = (Before(k) + 3) + 2 /\ msg = FeqOf(R, Garbler, k + 1)
    BY <1>4
  <2> QED
    BY <2>1, <2>2
<1>6. ChannelsOk(R, H)'
  <2> PICK c, d : c = "io_back" /\ d = "io"
    OBVIOUS
  <2>1. /\ c \in Channel /\ d \in Channel /\ p = Reader(c) /\ p = Writer(d) /\ Arrived(c)
        /\ RecvSend(p, c, d, msg) /\ Message(R, H, d, seen[p][d] + 1, msg)
    BY <1>1, <1>2, <1>5
  <2> QED
    BY <1>3, <2>1, RecvSendOk
<1>7. CountedAfter(p, "reconcile", k)'
  <2>1. seen' = [seen EXCEPT ![p]["io_back"] = @ + 1, ![p]["io"] = @ + 1]
    BY <1>1 DEF RecvSend
  <2>2. seen'[p]["io"] = (b + 1) + 1 /\ seen'[p]["sib"] = b + 0 /\ seen'[p]["io_back"] = 1
    BY <1>2, <1>3, <1>4, <2>1 DEF PoolTypes
  <2>3. seen'[p]["io"] = b + 2
    BY <1>4, <2>2
  <2> QED
    BY <1>2, <2>2, <2>3, AfterCounts DEF CountedAfter
<1>8. m = msg
  <2> PICK n : n = seen[p]["io_back"] + 1
    OBVIOUS
  <2>1. Message(R, H, "io_back", n, m)
    BY <1>1, <1>2, <1>3, RecvOk
  <2>2. n = 1
    BY <1>4
  <2>3. m = FeqOf(R, Evaluator, k + 1)
    BY <1>4, <2>1, <2>2 DEF Message, LastMessage
  <2> QED
    BY <1>3, <1>4, <2>3, DigestsAgree
<1>9. Goto(p, "reconcile")
  BY <1>1, <1>8 DEF Verdict
<1> QED
  BY <1>1, <1>2, <1>6, <1>7, <1>9, SteppedAfter

LEMMA FeqVerifyExchange ==
    ASSUME NEW R, NEW H, ExchangeInv(R, H), CoinInv, FeqVerify
    PROVE  ExchangeInv(R, H)'
<1> PICK p, k, b : p = Evaluator /\ k = layer[p] /\ b = Before(k) + 3
  OBVIOUS
<1> PICK m : m = Head(wire["io"])
  OBVIOUS
<1>1. /\ at[p] = "feq_open" /\ Verdict(p, held[p] = <<"com", m>> /\ m = feq[p])
      /\ Recv(p, "io") /\ Arrived("io") /\ UNCHANGED <<layer, acc, feq, gid, coin>>
  BY DEF FeqVerify, At, buffers
<1>2. /\ p \in Party /\ "feq_open" \in After /\ "reconcile" \in Ending(p)
      /\ send_io(p) = "sib" /\ recv_io(p) = "io" /\ Reader("io") = p
      /\ {"io", "io_back", "sib"} \subseteq Channel
  BY Peers, Ends DEF After, Ending
<1>3. /\ Indexed /\ PoolTypes /\ ChannelsOk(R, H) /\ R \in Reps
      /\ Buffers(R, H, p, "feq_open", k)
  BY <1>1, <1>2, Stands
<1>4. /\ k \in Nat /\ b \in Nat /\ IsLast(R, k) /\ k \in DOMAIN H /\ feq[p] = FeqOf(R, p, k + 1)
      /\ seen[p]["io"] = b + 1 /\ seen[p]["sib"] = b + 0 /\ seen[p]["io_back"] = 1
  BY <1>1, <1>2, StandsAfter, AfterCounts
<1>5. held[p] = <<"com", FeqOf(R, Garbler, k + 1)>>
  BY <1>3 DEF Buffers
<1>6. ChannelsOk(R, H)'
  BY <1>1, <1>2, <1>3, RecvOk
<1>7. CountedAfter(p, "reconcile", k)'
  <2>1. seen' = [seen EXCEPT ![p]["io"] = @ + 1]
    BY <1>1 DEF Recv
  <2>2. seen'[p]["io"] = (b + 1) + 1 /\ seen'[p]["sib"] = b + 0 /\ seen'[p]["io_back"] = 1
    BY <1>2, <1>3, <1>4, <2>1 DEF PoolTypes
  <2>3. seen'[p]["io"] = b + 2
    BY <1>4, <2>2
  <2> QED
    BY <1>2, <2>2, <2>3, AfterCounts DEF CountedAfter
<1>8. m = FeqOf(R, Garbler, k + 1)
  <2> PICK n : n = seen[p]["io"] + 1
    OBVIOUS
  <2>1. Message(R, H, "io", n, m)
    BY <1>1, <1>2, <1>3, RecvOk
  <2>2. n = (Before(k) + 3) + 2 /\ 2 \in 1 .. 3
    BY <1>4
  <2>3. LastIs(R, H, "io", k, 2, m)
    BY <1>4, <2>1, <2>2, LastReads
  <2> QED
    BY <2>3 DEF LastIs
<1>9. Goto(p, "reconcile")
  <2>1. m = feq[p]
    BY <1>3, <1>4, <1>8, DigestsAgree
  <2>2. held[p] = <<"com", m>>
    BY <1>5, <1>8
  <2> QED
    BY <1>1, <2>1, <2>2 DEF Verdict
<1> QED
  BY <1>1, <1>2, <1>6, <1>7, <1>9, SteppedAfter

(* The two openings of the reconciliation.                                 *)
LEMMA ReconcileSendExchange ==
    ASSUME NEW R, NEW H, ExchangeInv(R, H), CoinInv, NEW p \in Party, ReconcileSend(p)
    PROVE  ExchangeInv(R, H)'
<1> PICK k, b, msg : k = layer[p] /\ b = Before(k) + 3 /\ msg = held'[p]
  OBVIOUS
<1> PICK out : out = send_io(p)
  OBVIOUS
<1>1. /\ at[p] = "reconcile" /\ Goto(p, "sigma") /\ Send(p, out, msg)
      /\ held' = [held EXCEPT ![p] = OpenDiff(p)]
      /\ UNCHANGED <<layer, acc, feq, gid, coin>>
  BY DEF ReconcileSend, At
<1>2. /\ "reconcile" \in After /\ "sigma" \in Ending(p)
      /\ Writer(out) = p /\ out \in Channel /\ recv_io(p) \in Channel /\ "io_back" \in Channel
      /\ out # recv_io(p) /\ out # "io_back" /\ recv_io(p) # "io_back"
      /\ (p = Garbler \/ p = Evaluator)
      /\ p = Garbler => out = "io"
      /\ p = Evaluator => out = "sib"
  BY Ends DEF After, Ending, Party
<1>3. /\ Indexed /\ PoolTypes /\ ChannelsOk(R, H) /\ rep = R
  BY <1>2, Stands
<1>4. /\ k \in Nat /\ b \in Nat /\ IsLast(R, k) /\ k \in DOMAIN H /\ acc[p] = H[k].of[p]
      /\ seen[p][out] = b + SentAfter(p, "reconcile")
      /\ seen[p][recv_io(p)] = b + ReadAfter(p, "reconcile") /\ seen[p]["io_back"] = 1
  BY <1>1, <1>2, StandsAfter, AfterCounts
<1>5. held'[p] = OpenedBy(R, H, p, k)
  <2>1. held'[p] = OpenDiff(p)
    BY <1>1, <1>3 DEF Indexed
  <2>2. Lanes = LanesOf(R) /\ rep = R
    BY <1>3, OfRequest
  <2> PICK m : m = H[k].of[p]
    OBVIOUS
  <2>3. OpenDiff(p) = OpenOf(R, p, m)
    <3>1. acc[p] = m
      BY <1>4
    <3> QED
      BY <2>2, <3>1 DEF OpenDiff, OpenOf
  <2> QED
    BY <2>1, <2>3 DEF OpenedBy
<1>6. /\ Message(R, H, out, seen[p][out] + 1, msg)
      /\ seen[p][out] + 1 = b + SentAfter(p, "sigma")
      /\ ReadAfter(p, "reconcile") = ReadAfter(p, "sigma")
  <2>1. CASE p = Garbler
    <3>1. seen[p][out] + 1 = b + 3
      BY <1>4, <2>1, AfterCounts
    <3>2. Message(R, H, "io", b + 3, OpenedBy(R, H, Garbler, k))
      BY <1>4, LastSends
    <3> QED
      BY <1>2, <1>5, <2>1, <3>1, <3>2, AfterCounts
  <2>2. CASE p = Evaluator
    <3>1. seen[p][out] + 1 = b + 1
      BY <1>4, <2>2, AfterCounts
    <3>2. Message(R, H, "sib", b + 1, OpenedBy(R, H, Evaluator, k))
      BY <1>4, LastSends
    <3> QED
      BY <1>2, <1>5, <2>2, <3>1, <3>2, AfterCounts
  <2> QED
    BY <1>2, <2>1, <2>2
<1>7. ChannelsOk(R, H)'
  BY <1>1, <1>2, <1>3, <1>6, SendOk
<1>8. CountedAfter(p, "sigma", k)'
  <2>1. seen' = [seen EXCEPT ![p][out] = @ + 1]
    BY <1>1 DEF Send
  <2>2. /\ seen'[p][out] = seen[p][out] + 1 /\ seen'[p][recv_io(p)] = seen[p][recv_io(p)]
        /\ seen'[p]["io_back"] = 1
    BY <1>2, <1>3, <1>4, <2>1 DEF PoolTypes
  <2>3. BackAfter(p, "sigma") = 1
    BY <1>2, AfterCounts
  <2> QED
    BY <1>4, <1>6, <2>2, <2>3 DEF CountedAfter
<1>9. Step(p)
  BY DEF Step
<1> QED
  BY <1>1, <1>2, <1>5, <1>7, <1>8, <1>9, SteppedAfter

LEMMA ReconcileExchange ==
    ASSUME NEW R, NEW H, ExchangeInv(R, H), CoinInv, NEW p \in Party, Reconcile(p)
    PROVE  ExchangeInv(R, H)'
<1> PICK k, b : k = layer[p] /\ b = Before(k) + 3
  OBVIOUS
<1> PICK src, m : src = recv_io(p) /\ m = Head(wire[src])
  OBVIOUS
<1>1. /\ at[p] = "sigma" /\ Goto(p, "done") /\ Recv(p, src) /\ Arrived(src)
      /\ sigma' = [sigma EXCEPT ![p] = [i \in Lanes |->
                     SigmaOf(p, i, held[p].x[i] ++ m.x[i], held[p].y[i] ++ m.y[i])]]
      /\ UNCHANGED <<layer, acc, feq, gid, coin>>
  BY DEF Reconcile, At, buffers
<1>2. /\ "sigma" \in After /\ "done" \in Ending(p)
      /\ Reader(src) = p /\ src \in Channel /\ send_io(p) \in Channel /\ "io_back" \in Channel
      /\ src # send_io(p) /\ send_io(p) # "io_back" /\ src # "io_back"
      /\ (p = Garbler \/ p = Evaluator)
      /\ p = Garbler => src = "sib" /\ Peer(p) = Evaluator
      /\ p = Evaluator => src = "io" /\ Peer(p) = Garbler
  BY Ends, Peers DEF After, Ending, Party
<1>3. /\ Indexed /\ PoolTypes /\ ChannelsOk(R, H) /\ rep = R
      /\ Buffers(R, H, p, "sigma", k)
  BY <1>1, <1>2, Stands
<1>4. /\ k \in Nat /\ b \in Nat /\ IsLast(R, k) /\ k \in DOMAIN H /\ acc[p] = H[k].of[p]
      /\ seen[p][send_io(p)] = b + SentAfter(p, "sigma")
      /\ seen[p][src] = b + ReadAfter(p, "sigma") /\ seen[p]["io_back"] = 1
  BY <1>1, <1>2, StandsAfter, AfterCounts
<1>5. /\ m = OpenedBy(R, H, Peer(p), k)
      /\ seen[p][src] + 1 = b + ReadAfter(p, "done")
      /\ SentAfter(p, "done") = SentAfter(p, "sigma")
  <2> PICK n : n = seen[p][src] + 1
    OBVIOUS
  <2>1. Message(R, H, src, n, m)
    BY <1>1, <1>2, <1>3, RecvOk
  <2>2. CASE p = Garbler
    <3>1. n = b + 1 /\ 1 \in 1 .. 3
      BY <1>4, <2>2, AfterCounts
    <3>2. LastIs(R, H, src, k, 1, m)
      BY <1>4, <2>1, <3>1, LastReads
    <3> QED
      BY <1>2, <2>2, <3>1, <3>2, AfterCounts DEF LastIs
  <2>3. CASE p = Evaluator
    <3>1. n = b + 3 /\ 3 \in 1 .. 3
      BY <1>4, <2>3, AfterCounts
    <3>2. LastIs(R, H, src, k, 3, m)
      BY <1>4, <2>1, <3>1, LastReads
    <3> QED
      BY <1>2, <2>3, <3>1, <3>2, AfterCounts DEF LastIs
  <2> QED
    BY <1>2, <2>2, <2>3
<1>6. sigma'[p] = ResultBy(R, H, p, k)
  <2> PICK f, u : f = H[k].of[p] /\ u = OpenedBy(R, H, p, k)
    OBVIOUS
  <2>1. Lanes = LanesOf(R) /\ acc[p] = f /\ held[p] = u
    BY <1>3, <1>4, OfRequest DEF Buffers
  <2>2. sigma'[p] = [i \in Lanes |->
                       SigmaOf(p, i, held[p].x[i] ++ m.x[i], held[p].y[i] ++ m.y[i])]
    BY <1>1, <1>3 DEF Indexed
  <2>3. sigma'[p] = ResultOf(R, p, f, u, m)
    BY <2>1, <2>2 DEF SigmaOf, ResultOf
  <2> QED
    BY <1>5, <2>3 DEF ResultBy
<1>7. ChannelsOk(R, H)'
  BY <1>1, <1>2, <1>3, RecvOk
<1>8. CountedAfter(p, "done", k)'
  <2>1. seen' = [seen EXCEPT ![p][src] = @ + 1]
    BY <1>1 DEF Recv
  <2>2. /\ seen'[p][src] = seen[p][src] + 1 /\ seen'[p][send_io(p)] = seen[p][send_io(p)]
        /\ seen'[p]["io_back"] = 1
    BY <1>2, <1>3, <1>4, <2>1 DEF PoolTypes
  <2>3. BackAfter(p, "done") = 1
    BY <1>2, AfterCounts
  <2> QED
    BY <1>4, <1>5, <2>2, <2>3 DEF CountedAfter
<1>9. Step(p)
  BY DEF Step
<1> QED
  BY <1>1, <1>2, <1>6, <1>7, <1>8, <1>9, SteppedAfter
-------------------------------------------------------------------------------
LEMMA InitPoolInv == Init => PoolInv
<1> SUFFICES ASSUME Init PROVE PoolInv
  OBVIOUS
<1> PICK R : R = rep
  OBVIOUS
<1> DEFINE H == [k \in {0} |-> [r |-> 0, of |-> [p \in Party |-> Folded(R, p, 0)]]]
<1>1. R \in Reps /\ rep = R
  BY DEF Init
<1>2. Indexed
  BY DEF Init, Indexed, CommInit
<1>3. DOMAIN H = {0} /\ \A p \in Party : H[0].of[p] = Folded(R, p, 0)
  OBVIOUS
<1> HIDE DEF H
<1>4. HistoryOk(R, H)
  <2>1. \A i \in LanesOf(R) : LaneGood(H[0].of[Garbler], H[0].of[Evaluator], i)
    BY <1>1, <1>3, FoldedGood, Peers
  <2> QED
    BY <1>3, <2>1 DEF HistoryOk
<1>5. CoinsAsked(H)
  <2>1. DOMAIN coin = {}
    BY DEF Init
  <2> QED
    BY <1>3, <2>1 DEF CoinsAsked
<1>6. ChannelsOk(R, H)
  <2> SUFFICES ASSUME NEW c \in Channel
               PROVE  Carries(R, H, c, wire[c], seen[Writer(c)][c], seen[Reader(c)][c])
    BY DEF ChannelsOk
  <2>1. wire[c] = <<>> /\ seen[Writer(c)][c] = 0 /\ seen[Reader(c)][c] = 0
    BY Ends DEF Init, CommInit
  <2>2. <<>> \in Seq(Nat) /\ Len(<<>>) = 0
    OBVIOUS
  <2>3. 1 .. 0 = {} /\ 0 + 0 = 0
    OBVIOUS
  <2> QED
    BY <2>1, <2>2, <2>3 DEF Carries, IsQueue
<1>7. ASSUME NEW p \in Party PROVE Local(R, H, p, at[p], layer[p])
  <2>1. /\ at[p] = "mint" /\ layer[p] = 0 /\ feq[p] = <<>> /\ gid[p] = 0
        /\ acc[p] = [a |-> [i \in Lanes |-> WireShare(p, rep[i][1])],
                     b |-> [i \in Lanes |-> WireShare(p, rep[i][2])], c |-> <<>>]
    BY DEF Init
  <2>2. "mint" \in Looping /\ "mint" \notin After
    BY DEF Looping, After
  <2>3. Stage(R, H, p, "mint", 0)
    BY <2>2, Layers DEF Stage
  <2>4. acc[p] = AccOf(R, H, p, "mint", 0)
    <3>1. Lanes = LanesOf(R)
      BY <1>1, OfRequest
    <3> QED
      BY <1>1, <2>1, <2>2, <3>1 DEF AccOf, Operands
  <2>5. feq[p] = FeqOf(R, p, 0)
    <3>1. FeqOf(R, p, 0) = <<>>
      BY DEF FeqOf
    <3> QED
      BY <2>1, <3>1
  <2>6. gid[p] = 0 * PadOf(R)
    BY <1>1, <2>1, RequestIs
  <2>7. Buffers(R, H, p, "mint", 0)
    BY <2>4, <2>5, <2>6 DEF Buffers, Folds, Hashed
  <2>8. CountedAfter(p, "mint", 0)
    BY <2>2 DEF CountedAfter
  <2> QED
    BY <2>1, <2>3, <2>7, <2>8 DEF Local
<1>8. ExchangeInv(R, H)
  BY <1>1, <1>2, <1>4, <1>5, <1>6, <1>7 DEF ExchangeInv
<1> QED
  BY <1>8 DEF PoolInv

(* A step that changes nothing keeps the invariant.                        *)
LEMMA StutterExchange ==
    ASSUME NEW R, NEW H, ExchangeInv(R, H), UNCHANGED vars
    PROVE  ExchangeInv(R, H)'
<1>1. UNCHANGED <<rep, at, layer, acc, sac, Sout, held, feq, gid, wire, seen, coin, shifts, sigma>>
  BY DEF vars, party, buffers, comm
<1>2. Indexed' /\ CoinsAsked(H)' /\ ChannelsOk(R, H)'
  BY <1>1 DEF ExchangeInv, Indexed, CoinsAsked, ChannelsOk
<1>3. ASSUME NEW p \in Party PROVE Local(R, H, p, at[p], layer[p])'
  <2>1. Same(p) /\ Local(R, H, p, at[p], layer[p])
    BY <1>1 DEF Same, ExchangeInv
  <2> QED
    BY <2>1, SameLocal
<1> QED
  BY <1>1, <1>2, <1>3 DEF ExchangeInv

LEMMA StepPoolInv == CoinInv /\ PoolInv /\ [Next]_vars => PoolInv'
<1> SUFFICES ASSUME CoinInv, NEW R, NEW H, ExchangeInv(R, H), [Next]_vars
             PROVE  \E K : ExchangeInv(R, K)'
  BY DEF PoolInv
<1>1. ASSUME NEW p \in Party, Step(p) PROVE \E K : ExchangeInv(R, K)'
  <2>1. CASE Coin(p)
    BY <2>1, CoinExchange
  <2>2. CASE \/ Mint(p) \/ Garble(p) \/ Eval(p) \/ SOpen(p) \/ Bucket(p)
             \/ ReconcileSend(p) \/ Reconcile(p)
    <3>1. ExchangeInv(R, H)'
      BY <2>2, MintExchange, GarbleExchange, EvalExchange, SOpenExchange, BucketExchange,
         ReconcileSendExchange, ReconcileExchange
    <3> QED
      BY <3>1
  <2> QED
    BY <1>1, <2>1, <2>2 DEF Step
<1>2. ASSUME FeqCommit \/ FeqAnswer \/ FeqOpen \/ FeqVerify PROVE ExchangeInv(R, H)'
  BY <1>2, FeqCommitExchange, FeqAnswerExchange, FeqOpenExchange, FeqVerifyExchange
<1>3. ASSUME UNCHANGED vars PROVE ExchangeInv(R, H)'
  BY <1>3, StutterExchange
<1> QED
  BY <1>1, <1>2, <1>3 DEF Next, Finished
-------------------------------------------------------------------------------
(* The L-vectors both parties put into F_eq are equal layer by layer, in   *)
(* whatever order their messages were sent and read, so the batched check  *)
(* never aborts an honest run.                                             *)
THEOREM PoolFeqAgrees == Spec => []FeqAgrees
<1>1. CoinInv /\ PoolInv => FeqAgrees
  <2> SUFFICES ASSUME CoinInv, NEW R, NEW H, ExchangeInv(R, H) PROVE FeqAgrees
    BY DEF PoolInv
  <2>1. ASSUME NEW p \in Party
        PROVE  at[p] # "abort" /\ \E n : feq[p] = FeqOf(R, p, n)
    <3>1. Stage(R, H, p, at[p], layer[p]) /\ Buffers(R, H, p, at[p], layer[p])
      BY Stands
    <3>2. at[p] # "abort"
      BY <3>1 DEF Stage, Looping, Ending
    <3> QED
      BY <3>1, <3>2 DEF Buffers
  <2>2. \A p, n : \A k \in DOMAIN FeqOf(R, p, n) : FeqOf(R, p, n)[k] = LOf(R, p, k - 1)
    BY DEF FeqOf
  <2>3. \A k : LOf(R, Garbler, k) = LOf(R, Evaluator, k)
    BY VectorsAgree DEF ExchangeInv
  <2> QED
    BY <2>1, <2>2, <2>3, Peers DEF FeqAgrees
<1> QED
  BY <1>1, InitCoinInv, StepCoinInv, InitPoolInv, StepPoolInv, PTL DEF Spec

(* The result of a finished request is an authentic share of the AND of    *)
(* the masks of each gate's own operands, for every request and every      *)
(* shift the coins give.                                                   *)
THEOREM PoolSigmaCorrect == Spec => []SigmaCorrect
<1>1. CoinInv /\ PoolInv => SigmaCorrect
  <2> SUFFICES ASSUME CoinInv, NEW R, NEW H, ExchangeInv(R, H),
                      \A p \in Party : at[p] = "done", NEW i \in Lanes
               PROVE  /\ Authentic(Garbler, sigma[Garbler][i], sigma[Evaluator][i])
                      /\ Opened(sigma[Garbler][i], sigma[Evaluator][i])
                           = MaskOf(rep[i][1]) ** MaskOf(rep[i][2])
    BY DEF PoolInv, SigmaCorrect
  <2>1. ASSUME NEW p \in Party
        PROVE  /\ IsLast(R, layer[p]) /\ layer[p] \in DOMAIN H
               /\ sigma[p] = ResultBy(R, H, p, layer[p])
    <3>1. Stage(R, H, p, "done", layer[p]) /\ Buffers(R, H, p, "done", layer[p])
      BY Stands
    <3> QED
      BY <3>1 DEF Stage, Buffers, After
  <2> PICK k : k = layer[Garbler]
    OBVIOUS
  <2>2. layer[Evaluator] = k /\ k \in DOMAIN H
    BY <2>1, Layers, Peers
  <2>3. R \in Reps /\ rep = R /\ i \in LanesOf(R)
    BY OfRequest DEF ExchangeInv
  <2> PICK m, n, u, v : /\ m = H[k].of[Garbler] /\ n = H[k].of[Evaluator]
                        /\ u = OpenedBy(R, H, Garbler, k) /\ v = OpenedBy(R, H, Evaluator, k)
    OBVIOUS
  <2>4. LaneGood(m, n, i)
    BY <2>2, <2>3 DEF ExchangeInv, HistoryOk
  <2>5. /\ sigma[Garbler] = ResultOf(R, Garbler, m, u, v)
        /\ sigma[Evaluator] = ResultOf(R, Evaluator, n, v, u)
    BY <2>1, <2>2, Peers DEF ResultBy
  <2>6. u = OpenOf(R, Garbler, m) /\ v = OpenOf(R, Evaluator, n)
    BY DEF OpenedBy
  <2>7. /\ Shared(Garbler, sigma[Garbler][i], sigma[Evaluator][i])
        /\ Opened(sigma[Garbler][i], sigma[Evaluator][i]) = MaskOf(R[i][1]) ** MaskOf(R[i][2])
    BY <2>3, <2>4, <2>5, <2>6, ResultGood, SMTT(20), ZenonT(60)
  <2> QED
    BY <2>3, <2>7 DEF Shared
<1> QED
  BY <1>1, InitCoinInv, StepCoinInv, InitPoolInv, StepPoolInv, PTL DEF Spec

(* A lane that is good is an authentic triple.                             *)
LEMMA GoodTriple ==
    ASSUME NEW m, NEW n, NEW i, LaneGood(m, n, i)
    PROVE  IsTriple(m, n, i)
BY DEF LaneGood, IsTriple, Shared

(* The layers in acc at a party: the combination of the layers before the  *)
(* one it works on in the loop, of all B after it.                         *)
LEMMA WhatIsIn ==
    ASSUME PowersGrow, NEW R, NEW H, ExchangeInv(R, H), CoinInv, NEW p \in Party, InAcc(p) > 0
    PROVE  InAcc(p) - 1 \in DOMAIN H /\ acc[p] = H[InAcc(p) - 1].of[p]
<1> PICK k : k = layer[p]
  OBVIOUS
<1>1. /\ k \in Nat /\ Stage(R, H, p, at[p], k) /\ Buffers(R, H, p, at[p], k)
      /\ rep = R /\ R \in Reps
  BY Stands
<1>2. CASE at[p] \in After
  <2>1. IsLast(R, k) /\ k \in DOMAIN H /\ acc[p] = H[k].of[p]
    BY <1>2, StandsAfter
  <2>2. B \in Nat /\ B >= 2 /\ B = get_bucket_size(Len(R))
    <3>1. Len(R) \in Nat /\ L = Len(R)
      BY <1>1, RequestIs, OfRequest
    <3> QED
      BY <3>1, BucketSize DEF B
  <2>3. k = B - 1
    <3>1. k # 0 /\ ~(k < B - 1) /\ \A j \in 1 .. (k - 1) : j < B - 1
      BY <2>1, <2>2 DEF IsLast, IsLayer, Continues
    <3>2. k = 1 \/ k - 1 \in 1 .. (k - 1)
      BY <1>1, <3>1
    <3> QED
      BY <1>1, <2>2, <3>1, <3>2
  <2>4. InAcc(p) = B
    BY <1>2 DEF After, InAcc
  <2> QED
    BY <2>1, <2>3, <2>4
<1>3. CASE at[p] \in Looping
  <2>1. at[p] # "bucket"
    BY DEF InAcc
  <2>2. InAcc(p) = k /\ k # 0
    BY <1>1, <1>3, <2>1 DEF Looping, InAcc
  <2>3. at[p] \notin After
    BY <1>3, NotAfter
  <2> QED
    BY <1>1, <2>1, <2>2, <2>3 DEF Stage, Buffers, AccOf
<1> QED
  BY <1>1, <1>2, <1>3 DEF Stage, Ending, After

(* Every lane of what both parties have combined so far is an authentic    *)
(* triple, after every layer and for every sequence of shifts.             *)
THEOREM PoolTriplesAuthentic ==
    ASSUME PowersGrow
    PROVE  Spec => []TriplesAuthentic
<1>1. CoinInv /\ PoolInv => TriplesAuthentic
  <2> SUFFICES ASSUME CoinInv, NEW R, NEW H, ExchangeInv(R, H) PROVE TriplesAuthentic
    BY DEF PoolInv
  <2>1. R \in Reps /\ Lanes = LanesOf(R) /\ HistoryOk(R, H)
    BY OfRequest DEF ExchangeInv
  <2>2. ASSUME InAcc(Garbler) = InAcc(Evaluator), InAcc(Garbler) > 0, NEW i \in Lanes
        PROVE  IsTriple(acc[Garbler], acc[Evaluator], i)
    <3> PICK k : k = InAcc(Garbler) - 1
      OBVIOUS
    <3>1. k \in DOMAIN H /\ acc[Garbler] = H[k].of[Garbler] /\ acc[Evaluator] = H[k].of[Evaluator]
      BY <2>2, WhatIsIn, Peers
    <3> QED
      BY <2>1, <2>2, <3>1, GoodTriple DEF HistoryOk
  <2>3. ASSUME \A p \in Party : at[p] \in {"coin", "bucket"}, layer[Garbler] = layer[Evaluator],
               NEW i \in Lanes
        PROVE  IsTriple(sac[Garbler], sac[Evaluator], i)
    <3>1. \A p \in Party : sac[p] = Folded(R, p, layer[p])
      BY <2>3, Stands DEF Buffers
    <3> QED
      BY <2>1, <2>3, <3>1, FoldedGood, GoodTriple, Peers
  <2> QED
    BY <2>2, <2>3 DEF TriplesAuthentic
<1> QED
  BY <1>1, InitCoinInv, StepCoinInv, InitPoolInv, StepPoolInv, PTL DEF Spec
================================================================================
