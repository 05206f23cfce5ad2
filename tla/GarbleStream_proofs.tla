-------------------------- MODULE GarbleStream_proofs --------------------------
(***************************************************************************)
(* Proofs about GarbleStream, for every chunk size, ring size, capacity of *)
(* the connection and number of AND gates, whoever throws.                 *)
(***************************************************************************)
EXTENDS GarbleStream, SequenceTheorems, TLAPS

(* Slot i of a ring, counted from its head h.                              *)
At(h, i) == (h + i) % Depth

(* Where chunks begin: at every KBatch-th AND gate.                        *)
Boundary(r) == r \in Nat /\ \E c \in 0 .. r : r = c * KBatch

(* Rows of the chunk that begins at r when there are t gates in all.       *)
Size(t, r) == IF t - r < KBatch THEN t - r ELSE KBatch

(* Row j (from 0) of a chunk of n rows that begins at r: G rows, b rows.   *)
RowAt(r, n, j) == IF j < n THEN <<"G", r + j + 1>> ELSE <<"b", r + j - n + 1>>

(* x is the row at place q of the stream of t gates: each gate has two     *)
(* rows, so the chunk that begins at r has the places from 2 * r on.       *)
RowIs(t, q, x) ==
    \A r \in 0 .. MaxAnds :
      Boundary(r) => \A j \in 0 .. (2 * Size(t, r) - 1) : q = 2 * r + j => x = RowAt(r, Size(t, r), j)

(* A chunk's first gate is the one its first row was made for.             *)
Base(ch) == ch.G[1][2] - 1

Filled(ch, base, n) == \A k \in 1 .. n : ch.G[k] = <<"G", base + k>> /\ ch.b[k] = <<"b", base + k>>

(* A published chunk of a run of t gates.                                  *)
Good(t, ch) ==
    /\ ch.n \in 1 .. KBatch /\ Boundary(Base(ch)) /\ ch.n = Size(t, Base(ch))
    /\ Filled(ch, Base(ch), ch.n)

(* The c published chunks of a ring: each begins where the one before it   *)
(* ended, and the last ends at gate e.                                     *)
Ring(t, h, c, s, e) ==
    /\ \A i \in 0 .. (c - 1) : Good(t, s[At(h, i)]) /\ Base(s[At(h, i)]) + s[At(h, i)].n <= e
    /\ \A i \in 0 .. (c - 2) : Base(s[At(h, i + 1)]) = Base(s[At(h, i)]) + s[At(h, i)].n
    /\ c > 0 => Base(s[At(h, c - 1)]) + s[At(h, c - 1)].n = e

IsSlots(s) == s \in [0 .. (Depth - 1) -> Chunk]

(* The slots s after x is written to slot i.                               *)
Put(s, i, x) == [s EXCEPT ![i] = x]

(* The gate at which the oldest published chunk begins.                    *)
First(h, c, s, e) == IF c > 0 THEN Base(s[h]) ELSE e

(* What the two threads of a pipe rely on while they hold a slot.          *)
HoldsSlots(h, c, s, pp, pi, cp, ci) ==
    /\ h \in 0 .. (Depth - 1) /\ c \in 0 .. Depth /\ s \in [0 .. (Depth - 1) -> Chunk]
    /\ pi \in 0 .. (Depth - 1) /\ ci \in 0 .. (Depth - 1)
    /\ pp = "hold" => c < Depth /\ pi = At(h, c)
    /\ cp = "hold" => c > 0 /\ ci = h
-------------------------------------------------------------------------------
(* Gates whose rows are in published chunks of the garbler.                *)
published == garbled - (IF gready THEN gcur.n ELSE 0)

(* Places of the stream that were sent, and that were received.            *)
sentTo == 2 * First(ghead, gcount, gslots, published) + sent
gotTo  == 2 * recv_base + got

StreamTypeOK ==
    /\ num_ands \in 0 .. MaxAnds /\ garbled \in 0 .. num_ands /\ recv_base \in 0 .. num_ands
    /\ evaluated \in Nat /\ loc \in Nat /\ sent \in Nat /\ got \in Nat /\ gready \in BOOLEAN
    /\ gstage \in {"run", "thrown", "closing", "joining", "done"}
    /\ net \in Seq(Row)

PipesInv ==
    /\ HoldsSlots(ghead, gcount, gslots, gppos, gpidx, gcpos, gcidx)
    /\ HoldsSlots(ehead, ecount, eslots, eppos, epidx, ecpos, ecidx)

(* The garbler fills cur with the rows of the gates after the published    *)
(* ones, and publishes a short chunk only when it ends.                    *)
FillInv ==
    /\ gready => /\ gppos = "hold" /\ gstage \in {"run", "thrown"} /\ gcur.n <= garbled
                 /\ Filled(gcur, published, gcur.n)
    /\ gstage \in {"run", "thrown"} => Boundary(published)
    /\ Ring(garbled, ghead, gcount, gslots, published)

(* The sender is somewhere in the oldest chunk.                            *)
SendInv == IF gcpos = "hold" THEN sent <= 2 * schunk.n ELSE sent = 0

(* The connection holds the rows of the stream between the two ends.       *)
NetInv ==
    /\ Len(net) = sentTo - gotTo
    /\ \A i \in 1 .. Len(net) : RowIs(garbled, gotTo + i - 1, net[i])

(* The receiver has put the first got rows of its chunk in their places.   *)
RecvInv ==
    /\ Boundary(recv_base) \/ recv_base = num_ands
    /\ IF eppos = "hold" THEN got <= 2 * ChunkRows /\ recv_base < num_ands ELSE got = 0
    /\ got > 0 => rchunk.n = ChunkRows
    /\ \A j \in 0 .. (got - 1) :
         RowIs(garbled, 2 * recv_base + j,
               IF j < ChunkRows THEN rchunk.G[j + 1] ELSE rchunk.b[j - ChunkRows + 1])
    /\ Ring(num_ands, ehead, ecount, eslots, recv_base)
    /\ eclosed => recv_base = num_ands

(* The evaluator is at row loc of the oldest chunk.                        *)
EvalInv ==
    /\ ecpos # "eof"
    /\ estage = "run" =>
         IF ecpos = "hold" THEN loc <= ecur.n /\ evaluated = Base(ecur) + loc
                           ELSE evaluated = First(ehead, ecount, eslots, recv_base)

StreamInv == StreamTypeOK /\ PipesInv /\ FillInv /\ SendInv /\ NetInv /\ RecvInv /\ EvalInv
-------------------------------------------------------------------------------
(* Positions of a ring: distinct ones are distinct slots.                  *)
LEMMA AtFacts ==
    ASSUME NEW h \in 0 .. (Depth - 1)
    PROVE  /\ \A i \in 0 .. Depth : /\ At(h, i) \in 0 .. (Depth - 1)
                                    /\ At(h, i) = IF h + i < Depth THEN h + i ELSE h + i - Depth
           /\ \A i, j \in 0 .. (Depth - 1) : i # j => At(h, i) # At(h, j)
           /\ At(h, 0) = h
           /\ \A i \in 0 .. (Depth - 1) : At(At(h, 1), i) = At(h, i + 1)
<1>0. Depth \in Nat \ {0}
  BY StreamAssumption
<1>1. ASSUME NEW g \in 0 .. (Depth - 1), NEW i \in 0 .. Depth
      PROVE  At(g, i) = IF g + i < Depth THEN g + i ELSE g + i - Depth
  BY <1>0 DEF At
<1>2. ASSUME NEW i \in 0 .. Depth PROVE At(h, i) \in 0 .. (Depth - 1)
  BY <1>0, <1>1
<1>3. ASSUME NEW i \in 0 .. (Depth - 1), NEW j \in 0 .. (Depth - 1), i # j
      PROVE  At(h, i) # At(h, j)
  <2>1. /\ At(h, i) = IF h + i < Depth THEN h + i ELSE h + i - Depth
        /\ At(h, j) = IF h + j < Depth THEN h + j ELSE h + j - Depth
    BY <1>0, <1>1
  <2> QED
    BY <1>0, <1>3, <2>1
<1>4. At(h, 0) = h
  BY <1>0, <1>1
<1>5. ASSUME NEW i \in 0 .. (Depth - 1) PROVE At(At(h, 1), i) = At(h, i + 1)
  <2> DEFINE g == At(h, 1)
  <2>1. g = (IF h + 1 < Depth THEN h + 1 ELSE 0) /\ g \in 0 .. (Depth - 1)
    BY <1>0, <1>1
  <2> HIDE DEF g
  <2>2. At(g, i) = IF g + i < Depth THEN g + i ELSE g + i - Depth
    BY <1>0, <1>1, <2>1
  <2>3. At(h, i + 1) = IF h + (i + 1) < Depth THEN h + (i + 1) ELSE h + (i + 1) - Depth
    BY <1>0, <1>1
  <2>4. At(g, i) = At(h, i + 1)
    BY <1>0, <2>1, <2>2, <2>3
  <2> QED
    BY <2>4 DEF g
<1> QED
  BY <1>1, <1>2, <1>3, <1>4, <1>5

(* Boundaries are KBatch apart.                                            *)
LEMMA Boundaries ==
    /\ Boundary(0)
    /\ \A r \in Nat : Boundary(r) => Boundary(r + KBatch)
    /\ \A r, s \in Nat : Boundary(r) /\ Boundary(s) /\ r < s => r + KBatch <= s
<1>0. KBatch \in Nat \ {0}
  BY StreamAssumption
<1>1. Boundary(0)
  BY <1>0 DEF Boundary
<1>2. ASSUME NEW r \in Nat, Boundary(r) PROVE Boundary(r + KBatch)
  <2>1. PICK c \in 0 .. r : r = c * KBatch
    BY <1>2 DEF Boundary
  <2>2. c + 1 \in 0 .. (r + KBatch) /\ r + KBatch = (c + 1) * KBatch
    BY <1>0, <2>1
  <2>3. r + KBatch \in Nat
    BY <1>0
  <2> QED
    BY <2>2, <2>3, Zenon DEF Boundary
<1>3. ASSUME NEW r \in Nat, NEW s \in Nat, Boundary(r), Boundary(s), r < s PROVE r + KBatch <= s
  <2>1. PICK c \in 0 .. r : r = c * KBatch
    BY <1>3 DEF Boundary
  <2>2. PICK d \in 0 .. s : s = d * KBatch
    BY <1>3 DEF Boundary
  <2>3. c < d
    BY <1>0, <1>3, <2>1, <2>2
  <2>4. d - (c + 1) \in Nat
    BY <2>3
  <2>5. (d - (c + 1)) * KBatch \in Nat
    BY <1>0, <2>4
  <2>6. s = r + KBatch + (d - (c + 1)) * KBatch
    BY <1>0, <2>1, <2>2
  <2> QED
    BY <1>0, <2>5, <2>6
<1> QED
  BY <1>1, <1>2, <1>3

(* A row's place in the stream is fixed once its chunk is complete.        *)
LEMMA RowStable ==
    ASSUME NEW t \in 0 .. (MaxAnds - 1), NEW g \in 0 .. t, Boundary(g), NEW q \in Int, q < 2 * g,
           NEW x, RowIs(t, q, x)
    PROVE  RowIs(t + 1, q, x)
<1> SUFFICES ASSUME NEW r \in 0 .. MaxAnds, Boundary(r), NEW j \in 0 .. (2 * Size(t + 1, r) - 1), q = 2 * r + j
             PROVE  x = RowAt(r, Size(t + 1, r), j)
  BY DEF RowIs
<1>0. KBatch \in Nat \ {0} /\ MaxAnds \in Nat
  BY StreamAssumption
<1>1. j \in Nat /\ r < g
  BY <1>0
<1>2. r + KBatch <= g
  BY <1>0, <1>1, Boundaries
<1>3. Size(t + 1, r) = KBatch /\ Size(t, r) = KBatch
  BY <1>0, <1>2 DEF Size
<1> QED
  BY <1>3 DEF RowIs

(* Chunks do not overlap: only one of them has a given place.              *)
LEMMA RowOfChunk ==
    ASSUME NEW t \in 0 .. MaxAnds, NEW s \in 0 .. t, Boundary(s), NEW k \in 0 .. (2 * Size(t, s) - 1)
    PROVE  RowIs(t, 2 * s + k, RowAt(s, Size(t, s), k))
<1>0. KBatch \in Nat \ {0} /\ MaxAnds \in Nat
  BY StreamAssumption
<1> SUFFICES ASSUME NEW r \in 0 .. MaxAnds, Boundary(r), NEW j \in 0 .. (2 * Size(t, r) - 1), 2 * s + k = 2 * r + j
             PROVE  r = s
  <2>1. \A r \in 0 .. MaxAnds : Boundary(r) =>
          \A j \in 0 .. (2 * Size(t, r) - 1) : 2 * s + k = 2 * r + j => r = s
    OBVIOUS
  <2>2. \A j \in 0 .. (2 * Size(t, s) - 1) : 2 * s + k = 2 * s + j => j = k
    BY <1>0 DEF Size
  <2> QED
    BY <2>1, <2>2 DEF RowIs
<1>1. Size(t, r) \in Int /\ Size(t, r) <= KBatch /\ Size(t, s) \in Int /\ Size(t, s) <= KBatch
  BY <1>0 DEF Size
<1>2. r < s => r + KBatch <= s
  BY <1>0, Boundaries
<1>3. s < r => s + KBatch <= r
  BY <1>0, Boundaries
<1>4. j \in Int /\ k \in Int /\ 0 <= j /\ j < 2 * KBatch /\ 0 <= k /\ k < 2 * KBatch
  BY <1>0, <1>1
<1> QED
  BY <1>0, <1>2, <1>3, <1>4

(* A chunk given other fields.                                             *)
LEMMA ChunkFields ==
    ASSUME NEW ch \in Chunk, NEW n \in 0 .. KBatch, NEW G \in [1 .. KBatch -> Row],
           NEW b \in [1 .. KBatch -> Row], NEW x, x = [ch EXCEPT !.n = n, !.G = G, !.b = b]
    PROVE  x \in Chunk
<1> DEFINE N == 0 .. KBatch
           S == [1 .. KBatch -> Row]
<1>1. Chunk = [n : N, G : S, b : S]
  BY DEF Chunk
<1> HIDE DEF N, S
<1>2. ch \in [n : N, G : S, b : S] /\ n \in N /\ G \in S /\ b \in S
  BY <1>1 DEF N, S
<1> QED
  BY <1>1, <1>2

(* The producer writes the slot after the published ones: they stay.       *)
LEMMA RingWrite ==
    ASSUME NEW t, NEW h \in 0 .. (Depth - 1), NEW c \in 0 .. (Depth - 1), NEW e,
           NEW s, IsSlots(s), NEW x, Ring(t, h, c, s, e),
           NEW sx, sx = Put(s, At(h, c), x)
    PROVE  /\ Ring(t, h, c, sx, e) /\ First(h, c, sx, e) = First(h, c, s, e)
           /\ c > 0 => sx[h] = s[h]
<1>0. Depth \in Nat \ {0}
  BY StreamAssumption
<1>1. \A i \in 0 .. (c - 1) : sx[At(h, i)] = s[At(h, i)]
  <2>1. \A i \in 0 .. (c - 1) : At(h, i) \in 0 .. (Depth - 1) /\ At(h, i) # At(h, c)
    <3>1. \A i \in 0 .. (c - 1) : i \in 0 .. Depth /\ i \in 0 .. (Depth - 1) /\ i # c
      BY <1>0
    <3> QED
      BY <3>1, AtFacts
  <2> QED
    BY <2>1 DEF Put, IsSlots
<1>2. c > 0 => sx[h] = s[h]
  <2>1. c > 0 => 0 \in 0 .. (c - 1)
    BY <1>0
  <2>2. At(h, 0) = h
    BY AtFacts
  <2> QED
    BY <1>1, <2>1, <2>2
<1>3. Ring(t, h, c, sx, e)
  <2>1. \A i \in 0 .. (c - 2) : i \in 0 .. (c - 1) /\ i + 1 \in 0 .. (c - 1)
    BY <1>0
  <2>2. c > 0 => c - 1 \in 0 .. (c - 1)
    BY <1>0
  <2> QED
    BY <1>1, <2>1, <2>2 DEF Ring
<1>4. First(h, c, sx, e) = First(h, c, s, e)
  BY <1>2 DEF First
<1> QED
  BY <1>2, <1>3, <1>4

(* A complete chunk that begins at the end of the last one is published.   *)
LEMMA RingPush ==
    ASSUME NEW t, NEW h \in 0 .. (Depth - 1), NEW c \in 0 .. (Depth - 1), NEW e \in Int, NEW f \in Int,
           NEW s, Ring(t, h, c, s, e), Good(t, s[At(h, c)]), Base(s[At(h, c)]) = e,
           f = e + s[At(h, c)].n
    PROVE  Ring(t, h, c + 1, s, f) /\ First(h, c + 1, s, f) = First(h, c, s, e)
<1>0. Depth \in Nat \ {0} /\ KBatch \in Nat \ {0}
  BY StreamAssumption
<1>1. \A i \in 0 .. (c - 1) : Base(s[At(h, i)]) \in Nat /\ s[At(h, i)].n \in Nat
  BY <1>0 DEF Ring, Good, Boundary
<1>2. s[At(h, c)].n \in Nat /\ e <= f
  BY <1>0 DEF Good
<1>3. ASSUME NEW i \in 0 .. ((c + 1) - 1)
      PROVE  Good(t, s[At(h, i)]) /\ Base(s[At(h, i)]) + s[At(h, i)].n <= f
  <2>1. i = c \/ i \in 0 .. (c - 1)
    BY <1>0
  <2>2. CASE i = c
    BY <1>2, <2>2
  <2>3. CASE i \in 0 .. (c - 1)
    <3>1. Good(t, s[At(h, i)]) /\ Base(s[At(h, i)]) + s[At(h, i)].n <= e
      BY <2>3 DEF Ring
    <3> QED
      BY <1>1, <1>2, <2>3, <3>1
  <2> QED
    BY <2>1, <2>2, <2>3
<1>4. ASSUME NEW i \in 0 .. ((c + 1) - 2)
      PROVE  Base(s[At(h, i + 1)]) = Base(s[At(h, i)]) + s[At(h, i)].n
  <2>1. (i = c - 1 /\ c > 0 /\ i + 1 = c) \/ i \in 0 .. (c - 2)
    BY <1>0
  <2> QED
    BY <2>1 DEF Ring
<1>5. (c + 1) - 1 = c /\ c + 1 > 0
  BY <1>0
<1>6. Ring(t, h, c + 1, s, f)
  BY <1>3, <1>4, <1>5 DEF Ring
<1>7. First(h, c + 1, s, f) = First(h, c, s, e)
  <2>1. c = 0 => At(h, c) = h
    BY AtFacts
  <2> QED
    BY <1>0, <1>5, <2>1 DEF First
<1> QED
  BY <1>6, <1>7

(* The oldest chunk is released.                                           *)
LEMMA RingPop ==
    ASSUME NEW t, NEW h \in 0 .. (Depth - 1), NEW c \in 1 .. Depth, NEW e, NEW s, Ring(t, h, c, s, e)
    PROVE  /\ Ring(t, At(h, 1), c - 1, s, e)
           /\ First(At(h, 1), c - 1, s, e) = Base(s[h]) + s[h].n
           /\ First(h, c, s, e) = Base(s[h])
<1>0. Depth \in Nat \ {0}
  BY StreamAssumption
<1>1. \A i \in 0 .. (c - 1) : i \in 0 .. (Depth - 1)
  BY <1>0
<1>2. \A i \in 0 .. (Depth - 1) : At(At(h, 1), i) = At(h, i + 1)
  BY AtFacts
<1>3. \A i \in 0 .. ((c - 1) - 1) : i + 1 \in 0 .. (c - 1) /\ i \in 0 .. (Depth - 1)
  BY <1>0
<1>4. \A i \in 0 .. ((c - 1) - 2) : i + 1 \in 0 .. (c - 2) /\ i \in 0 .. (Depth - 1) /\ i + 1 \in 0 .. (Depth - 1)
  BY <1>0
<1>5. c - 1 > 0 => (c - 1) - 1 \in 0 .. (Depth - 1) /\ ((c - 1) - 1) + 1 = c - 1
  BY <1>0
<1>6. Ring(t, At(h, 1), c - 1, s, e)
  BY <1>2, <1>3, <1>4, <1>5 DEF Ring
<1>7. At(h, 0) = h /\ c > 0
  BY AtFacts
<1>8. First(At(h, 1), c - 1, s, e) = Base(s[h]) + s[h].n
  <2>1. CASE c = 1
    <3>1. c - 1 = 0
      BY <2>1
    <3> QED
      BY <1>7, <2>1, <3>1 DEF First, Ring
  <2>2. CASE c > 1
    <3>1. 0 \in 0 .. (c - 2) /\ c - 1 > 0 /\ 0 + 1 = 1
      BY <2>2
    <3>2. Base(s[At(h, 0 + 1)]) = Base(s[At(h, 0)]) + s[At(h, 0)].n
      BY <3>1 DEF Ring
    <3> QED
      BY <1>7, <3>1, <3>2 DEF First
  <2> QED
    BY <2>1, <2>2
<1> QED
  BY <1>6, <1>7, <1>8 DEF First

(* One more gate leaves the published chunks complete.                     *)
LEMMA RingGrow ==
    ASSUME NEW t \in Nat, NEW h, NEW c, NEW s, NEW e \in 0 .. t, Boundary(e), Ring(t, h, c, s, e)
    PROVE  Ring(t + 1, h, c, s, e)
<1>0. KBatch \in Nat \ {0}
  BY StreamAssumption
<1>1. ASSUME NEW i \in 0 .. (c - 1) PROVE Good(t + 1, s[At(h, i)])
  <2> DEFINE ch == s[At(h, i)]
  <2>1. Good(t, ch) /\ Base(ch) + ch.n <= e
    BY DEF Ring
  <2> HIDE DEF ch
  <2>2. ch.n \in 1 .. KBatch /\ Boundary(Base(ch)) /\ Base(ch) \in Nat /\ ch.n = Size(t, Base(ch))
    BY <2>1 DEF Good, Boundary
  <2>3. Base(ch) < e
    BY <1>0, <2>1, <2>2
  <2>4. Base(ch) + KBatch <= e
    BY <2>2, <2>3, Boundaries
  <2>5. Size(t + 1, Base(ch)) = KBatch /\ Size(t, Base(ch)) = KBatch
    BY <1>0, <2>2, <2>4 DEF Size
  <2>6. Good(t + 1, ch)
    BY <2>1, <2>5 DEF Good
  <2> QED
    BY <2>6 DEF ch
<1> QED
  BY <1>1 DEF Ring
-------------------------------------------------------------------------------
(* The constants, and where the two ends of the stream are.                *)
LEMMA StreamFacts ==
    ASSUME StreamInv
    PROVE  /\ KBatch \in Nat \ {0} /\ Depth \in Nat \ {0} /\ MaxAnds \in Nat
           /\ garbled \in Nat /\ num_ands \in Nat /\ garbled <= num_ands /\ num_ands <= MaxAnds
           /\ gcur \in Chunk /\ schunk \in Chunk /\ rchunk \in Chunk /\ ecur \in Chunk
           /\ published \in 0 .. garbled
           /\ First(ghead, gcount, gslots, published) \in 0 .. published
           /\ sentTo \in Nat /\ sentTo <= 2 * published
           /\ gotTo \in Nat /\ Len(net) \in Nat /\ gotTo + Len(net) = sentTo
<1>1. KBatch \in Nat \ {0} /\ Depth \in Nat \ {0} /\ MaxAnds \in Nat
  BY StreamAssumption
<1>2. garbled \in Nat /\ num_ands \in Nat /\ garbled <= num_ands /\ num_ands <= MaxAnds
  BY <1>1 DEF StreamInv, StreamTypeOK
<1>3. gcur \in Chunk /\ schunk \in Chunk /\ rchunk \in Chunk /\ ecur \in Chunk
  BY DEF StreamInv, PipesInv, HoldsSlots, gcur, schunk, rchunk, ecur
<1>4. gcur.n \in 0 .. KBatch /\ schunk.n \in 0 .. KBatch
  BY <1>3 DEF Chunk
<1>5. published \in 0 .. garbled
  BY <1>2, <1>4 DEF StreamInv, FillInv, published
<1>6. gcount > 0 => /\ Base(gslots[ghead]) \in Nat /\ gslots[ghead].n \in Nat
                    /\ Base(gslots[ghead]) + gslots[ghead].n <= published
  <2>1. gcount \in 0 .. Depth /\ At(ghead, 0) = ghead
    BY AtFacts DEF StreamInv, PipesInv, HoldsSlots
  <2>2. gcount > 0 => 0 \in 0 .. (gcount - 1)
    BY <1>1, <2>1
  <2> QED
    BY <1>1, <2>1, <2>2 DEF StreamInv, FillInv, Ring, Good, Boundary
<1>7. First(ghead, gcount, gslots, published) \in 0 .. published
  BY <1>5, <1>6 DEF First
<1>8. sentTo \in Nat /\ sentTo <= 2 * published
  <2>1. CASE gcpos = "hold"
    <3>1. gcount > 0 /\ schunk = gslots[ghead] /\ sent <= 2 * schunk.n /\ sent \in Nat
      BY <2>1 DEF StreamInv, PipesInv, HoldsSlots, SendInv, schunk, StreamTypeOK
    <3> QED
      BY <1>5, <1>6, <3>1 DEF sentTo, First
  <2>2. CASE gcpos # "hold"
    <3>1. sent = 0
      BY <2>2 DEF StreamInv, SendInv
    <3> QED
      BY <1>5, <1>7, <3>1 DEF sentTo
  <2> QED
    BY <2>1, <2>2
<1>9. gotTo \in Nat /\ Len(net) \in Nat /\ gotTo + Len(net) = sentTo
  <2>1. gotTo \in Nat /\ Len(net) \in Nat
    BY <1>2, LenProperties DEF StreamInv, StreamTypeOK, gotTo
  <2> QED
    BY <1>8, <2>1 DEF StreamInv, NetInv
<1> QED
  BY <1>1, <1>2, <1>3, <1>5, <1>7, <1>8, <1>9

(* A step of the garbler's threads that moves no rows.                     *)
LEMMA GarblerControl ==
    ASSUME StreamInv, UNCHANGED <<run, net, evars, ghead, gcount, gslots, garbled, sent>>,
           published' = published,
           HoldsSlots(ghead, gcount, gslots, gppos', gpidx', gcpos', gcidx'),
           gready' \in BOOLEAN, gstage' \in {"run", "thrown", "closing", "joining", "done"},
           gready' => /\ gppos' = "hold" /\ gstage' \in {"run", "thrown"}
                      /\ gcur'.n <= garbled /\ Filled(gcur', published, gcur'.n),
           gstage' \in {"run", "thrown"} => Boundary(published),
           IF gcpos' = "hold" THEN sent <= 2 * schunk'.n ELSE sent = 0
    PROVE  StreamInv'
<1>1. UNCHANGED <<num_ands, recv_base, got, evaluated, loc, estage, ehead, ecount, eclosed, eslots,
                  eppos, epidx, ecpos, ecidx, rchunk, ecur, ChunkRows, sentTo, gotTo>>
  BY DEF run, evars, epipe, rchunk, ecur, ChunkRows, sentTo, gotTo
<1>2. StreamTypeOK'
  BY <1>1 DEF StreamInv, StreamTypeOK
<1>3. PipesInv'
  BY <1>1 DEF StreamInv, PipesInv
<1>4. FillInv'
  BY DEF StreamInv, FillInv
<1>5. SendInv'
  BY DEF SendInv
<1>6. NetInv'
  BY <1>1 DEF StreamInv, NetInv
<1>7. RecvInv'
  BY <1>1 DEF StreamInv, RecvInv
<1>8. EvalInv'
  BY <1>1 DEF StreamInv, EvalInv
<1> QED
  BY <1>2, <1>3, <1>4, <1>5, <1>6, <1>7, <1>8 DEF StreamInv

(* A step of the evaluator's threads that moves no rows.                   *)
LEMMA EvaluatorControl ==
    ASSUME StreamInv, UNCHANGED <<run, net, gvars, ehead, ecount, eslots, recv_base, got>>,
           HoldsSlots(ehead, ecount, eslots, eppos', epidx', ecpos', ecidx'),
           evaluated' \in Nat, loc' \in Nat,
           IF eppos' = "hold" THEN recv_base < num_ands ELSE got = 0,
           got > 0 => epidx' = epidx /\ eppos = "hold",
           eclosed' => recv_base = num_ands,
           ecpos' # "eof",
           estage' = "run" =>
             IF ecpos' = "hold" THEN loc' <= ecur'.n /\ evaluated' = Base(ecur') + loc'
                                ELSE evaluated' = First(ehead, ecount, eslots, recv_base)
    PROVE  StreamInv'
<1>1. /\ UNCHANGED <<num_ands, garbled, gready, gstage, sent, ghead, gcount, gclosed, gslots,
                     gppos, gpidx, gcpos, gcidx>>
      /\ UNCHANGED <<gcur, schunk, ChunkRows, published, sentTo, gotTo>>
  BY DEF run, gvars, gpipe, gcur, schunk, ChunkRows, published, sentTo, gotTo
<1>2. StreamTypeOK'
  BY <1>1 DEF StreamInv, StreamTypeOK
<1>3. PipesInv'
  BY <1>1 DEF StreamInv, PipesInv
<1>4. FillInv'
  BY <1>1 DEF StreamInv, FillInv
<1>5. SendInv'
  BY <1>1 DEF StreamInv, SendInv
<1>6. NetInv'
  BY <1>1 DEF StreamInv, NetInv
<1>7. RecvInv'
  <2>1. got \in Nat /\ 0 <= 2 * ChunkRows
    <3>1. got \in Nat /\ recv_base \in 0 .. num_ands /\ num_ands \in Nat /\ KBatch \in Nat
      BY StreamFacts DEF StreamInv, StreamTypeOK
    <3> QED
      BY <3>1 DEF ChunkRows
  <2>2. CASE got > 0
    <3>1. rchunk' = rchunk /\ got <= 2 * ChunkRows /\ eppos' = "hold"
      BY <2>2 DEF StreamInv, RecvInv, rchunk
    <3> QED
      BY <1>1, <3>1 DEF StreamInv, RecvInv
  <2>3. CASE got = 0
    <3>1. \A j \in 0 .. (got - 1) : FALSE
      BY <2>3
    <3> QED
      BY <1>1, <2>1, <2>3, <3>1 DEF StreamInv, RecvInv
  <2> QED
    BY <2>1, <2>2, <2>3
<1>8. EvalInv'
  BY <1>1 DEF EvalInv
<1> QED
  BY <1>2, <1>3, <1>4, <1>5, <1>6, <1>7, <1>8 DEF StreamInv
-------------------------------------------------------------------------------
(* The garbler's two threads.                                              *)
LEMMA GarblerControlSteps ==
    ASSUME StreamInv,
           \/ GarblerSlot /\ UNCHANGED <<run, net, evars>>
           \/ GarblerNotify /\ UNCHANGED <<run, net, evars>>
           \/ GarblerClose /\ UNCHANGED <<run, net, evars>>
           \/ GarblerJoin /\ UNCHANGED <<run, net, evars>>
           \/ GarblerThrow
           \/ SenderSlot /\ UNCHANGED <<run, evars>>
           \/ SenderNotify /\ UNCHANGED <<run, evars>>
           \/ /\ GPipe!SpuriousWakeup /\ UNCHANGED epipe
              /\ UNCHANGED <<run, net, garbled, gready, gstage, sent, recv_base, got, evaluated, loc, estage>>
    PROVE  StreamInv'
<1>1. /\ HoldsSlots(ghead, gcount, gslots, gppos, gpidx, gcpos, gcidx)
      /\ gready \in BOOLEAN /\ gstage \in {"run", "thrown", "closing", "joining", "done"}
      /\ gready => /\ gppos = "hold" /\ gstage \in {"run", "thrown"} /\ gcur.n <= garbled
                   /\ Filled(gcur, published, gcur.n)
      /\ gstage \in {"run", "thrown"} => Boundary(published)
      /\ IF gcpos = "hold" THEN sent <= 2 * schunk.n ELSE sent = 0
  BY DEF StreamInv, PipesInv, StreamTypeOK, FillInv, SendInv
<1> DEFINE Rest == UNCHANGED <<run, net, evars, ghead, gcount, gslots, garbled, sent>>
<1>2. CASE GarblerSlot /\ UNCHANGED <<run, net, evars>>
  <2>1. /\ Rest /\ UNCHANGED <<gready, gstage, gcpos, gcidx>> /\ ~gready
        /\ \/ gppos' = "hold" /\ gpidx' = At(ghead, gcount) /\ gcount < Depth
           \/ gppos' = "asleep" /\ gpidx' = gpidx
    BY <1>2 DEF GarblerSlot, GPipe!producer_slot, GPipe!Free, At
  <2>2. UNCHANGED <<published, schunk>>
    BY <2>1 DEF published, schunk
  <2>3. HoldsSlots(ghead, gcount, gslots, gppos', gpidx', gcpos', gcidx')
    <3>1. At(ghead, gcount) \in 0 .. (Depth - 1)
      BY <1>1, AtFacts DEF HoldsSlots
    <3> QED
      BY <1>1, <2>1, <3>1 DEF HoldsSlots
  <2> QED
    BY <1>1, <2>1, <2>2, <2>3, GarblerControl
<1>3. CASE GarblerNotify /\ UNCHANGED <<run, net, evars>>
  <2>1. /\ Rest /\ UNCHANGED <<gready, gstage, gpidx, gcidx>> /\ gppos \in {"notify", "last"}
        /\ gppos' # "hold" /\ (gcpos' = "hold" <=> gcpos = "hold")
    BY <1>3 DEF GarblerNotify, GPipe!NotifyFull
  <2>2. UNCHANGED <<published, schunk, gcur>>
    BY <2>1 DEF published, schunk, gcur
  <2>3. HoldsSlots(ghead, gcount, gslots, gppos', gpidx', gcpos', gcidx')
    BY <1>1, <2>1 DEF HoldsSlots
  <2> QED
    BY <1>1, <2>1, <2>2, <2>3, GarblerControl
<1>4. CASE GarblerClose /\ UNCHANGED <<run, net, evars>>
  <2>1. /\ Rest /\ UNCHANGED <<gready, gcpos, gpidx, gcidx>> /\ gstage = "closing" /\ gstage' = "joining"
        /\ gppos' # "hold"
    BY <1>4 DEF GarblerClose, GPipe!producer_close
  <2>2. UNCHANGED <<published, schunk, gcur>> /\ ~gready
    BY <1>1, <2>1 DEF published, schunk, gcur
  <2>3. HoldsSlots(ghead, gcount, gslots, gppos', gpidx', gcpos', gcidx')
    BY <1>1, <2>1 DEF HoldsSlots
  <2> QED
    BY <1>1, <2>1, <2>2, <2>3, GarblerControl
<1>5. CASE GarblerJoin /\ UNCHANGED <<run, net, evars>>
  <2>1. /\ Rest /\ UNCHANGED <<gready, gppos, gcpos, gpidx, gcidx>> /\ gstage = "joining" /\ gstage' = "done"
    BY <1>5 DEF GarblerJoin, gpipe
  <2>2. UNCHANGED <<published, schunk, gcur>> /\ ~gready
    BY <1>1, <2>1 DEF published, schunk, gcur
  <2> QED
    BY <1>1, <2>1, <2>2, GarblerControl
<1>6. CASE GarblerThrow
  <2>1. /\ Rest /\ UNCHANGED <<gready, gppos, gcpos, gpidx, gcidx>> /\ gstage = "run" /\ gstage' = "thrown"
    BY <1>6 DEF GarblerThrow, gpipe
  <2>2. UNCHANGED <<published, schunk, gcur>>
    BY <2>1 DEF published, schunk, gcur
  <2> QED
    BY <1>1, <2>1, <2>2, GarblerControl
<1>7. CASE SenderSlot /\ UNCHANGED <<run, evars>>
  <2>1. /\ Rest /\ UNCHANGED <<gready, gstage, gppos, gpidx>> /\ gcpos \in {"out", "woken"}
        /\ \/ gcpos' = "hold" /\ gcidx' = ghead /\ gcount # 0
           \/ gcpos' \in {"asleep", "eof"} /\ gcidx' = gcidx
    BY <1>7 DEF SenderSlot, GPipe!consumer_slot, GPipe!Full
  <2>2. UNCHANGED <<published, gcur>> /\ sent = 0
    BY <1>1, <2>1 DEF published, gcur
  <2>3. HoldsSlots(ghead, gcount, gslots, gppos', gpidx', gcpos', gcidx')
    BY <1>1, <2>1 DEF HoldsSlots
  <2>4. schunk'.n \in Nat
    <3>1. schunk' \in Chunk
      BY <2>1, <2>3 DEF HoldsSlots, schunk
    <3> QED
      BY <3>1, StreamFacts DEF Chunk
  <2>5. IF gcpos' = "hold" THEN sent <= 2 * schunk'.n ELSE sent = 0
    BY <2>2, <2>4
  <2> QED
    BY <1>1, <2>1, <2>2, <2>3, <2>5, GarblerControl
<1>8. CASE SenderNotify /\ UNCHANGED <<run, evars>>
  <2>1. /\ Rest /\ UNCHANGED <<gready, gstage, gpidx, gcidx>> /\ gcpos = "notify" /\ gcpos' = "out"
        /\ (gppos' = "hold" <=> gppos = "hold")
    BY <1>8 DEF SenderNotify, GPipe!NotifyFree
  <2>2. UNCHANGED <<published, schunk, gcur>>
    BY <2>1 DEF published, schunk, gcur
  <2>3. HoldsSlots(ghead, gcount, gslots, gppos', gpidx', gcpos', gcidx')
    BY <1>1, <2>1 DEF HoldsSlots
  <2> QED
    BY <1>1, <2>1, <2>2, <2>3, GarblerControl
<1>9. CASE /\ GPipe!SpuriousWakeup /\ UNCHANGED epipe
           /\ UNCHANGED <<run, net, garbled, gready, gstage, sent, recv_base, got, evaluated, loc, estage>>
  <2>1. /\ Rest /\ UNCHANGED <<gready, gstage, gpidx, gcidx>>
        /\ (gppos' = "hold" <=> gppos = "hold") /\ (gcpos' = "hold" <=> gcpos = "hold")
    BY <1>9 DEF GPipe!SpuriousWakeup, evars, epipe
  <2>2. UNCHANGED <<published, schunk, gcur>>
    BY <2>1 DEF published, schunk, gcur
  <2>3. HoldsSlots(ghead, gcount, gslots, gppos', gpidx', gcpos', gcidx')
    BY <1>1, <2>1 DEF HoldsSlots
  <2> QED
    BY <1>1, <2>1, <2>2, <2>3, GarblerControl
<1> QED
  BY <1>2, <1>3, <1>4, <1>5, <1>6, <1>7, <1>8, <1>9

(* A step of the garbler's compute thread on its own side: the rows that   *)
(* were sent are rows of complete chunks and keep their places.            *)
LEMMA GarblerData ==
    ASSUME StreamInv, UNCHANGED <<run, net, evars, sent>>, sentTo' = sentTo,
           gready' \in BOOLEAN, gstage' \in {"run", "thrown", "closing", "joining", "done"},
           \/ garbled' = garbled
           \/ garbled' = garbled + 1 /\ garbled < num_ands /\ Boundary(published),
           HoldsSlots(ghead', gcount', gslots', gppos', gpidx', gcpos', gcidx'), FillInv', SendInv'
    PROVE  StreamInv'
<1>1. UNCHANGED <<num_ands, recv_base, got, evaluated, loc, estage, ehead, ecount, eclosed, eslots,
                  eppos, epidx, ecpos, ecidx, rchunk, ecur, ChunkRows, gotTo>>
  BY DEF run, evars, epipe, rchunk, ecur, ChunkRows, gotTo
<1>2. StreamTypeOK'
  <2>1. garbled' \in 0 .. num_ands
    BY StreamFacts
  <2> QED
    BY <1>1, <2>1 DEF StreamInv, StreamTypeOK
<1>3. PipesInv'
  BY <1>1 DEF StreamInv, PipesInv
<1>4. ASSUME NEW q \in Int, q < sentTo, NEW x, RowIs(garbled, q, x) PROVE RowIs(garbled', q, x)
  <2>1. CASE garbled' = garbled
    BY <1>4, <2>1
  <2>2. CASE garbled' = garbled + 1 /\ garbled < num_ands /\ Boundary(published)
    <3>1. garbled \in 0 .. (MaxAnds - 1) /\ published \in 0 .. garbled /\ q < 2 * published
      BY <1>4, <2>2, StreamFacts, SMTT(20)
    <3> QED
      BY <1>4, <2>2, <3>1, RowStable
  <2> QED
    BY <2>1, <2>2
<1>5. NetInv'
  <2>1. ASSUME NEW i \in 1 .. Len(net) PROVE RowIs(garbled', gotTo + i - 1, net[i])
    <3>1. gotTo + i - 1 \in Int /\ gotTo + i - 1 < sentTo
      BY StreamFacts
    <3>2. RowIs(garbled, gotTo + i - 1, net[i])
      BY DEF StreamInv, NetInv
    <3> QED
      BY <1>4, <3>1, <3>2
  <2> QED
    BY <1>1, <2>1 DEF StreamInv, NetInv
<1>6. RecvInv'
  <2> DEFINE x(j) == IF j < ChunkRows THEN rchunk.G[j + 1] ELSE rchunk.b[j - ChunkRows + 1]
  <2>1. ASSUME NEW j \in 0 .. (got - 1) PROVE RowIs(garbled', 2 * recv_base + j, x(j))
    <3>1. 2 * recv_base + j \in Int /\ 2 * recv_base + j < sentTo
      <4>1. got \in Nat /\ recv_base \in Nat /\ gotTo = 2 * recv_base + got /\ gotTo <= sentTo /\ sentTo \in Nat
        BY StreamFacts DEF StreamInv, StreamTypeOK, gotTo
      <4> QED
        BY <4>1
    <3>2. RowIs(garbled, 2 * recv_base + j, x(j))
      BY DEF StreamInv, RecvInv
    <3> HIDE DEF x
    <3> QED
      BY <1>4, <3>1, <3>2
  <2> QED
    BY <1>1, <2>1 DEF StreamInv, RecvInv
<1>7. EvalInv'
  BY <1>1 DEF StreamInv, EvalInv
<1> QED
  BY <1>2, <1>3, <1>5, <1>6, <1>7 DEF StreamInv

(* cur->n = 0, and and_gate up to ++cur->n: rows of an unpublished chunk.  *)
LEMMA GarblerFillSteps ==
    ASSUME StreamInv, GarblerReset \/ GarbleAnd, UNCHANGED <<run, net, evars>>
    PROVE  StreamInv'
<1>0. /\ KBatch \in Nat \ {0} /\ gcur \in Chunk /\ published \in 0 .. garbled /\ garbled \in Nat
      /\ garbled <= num_ands /\ num_ands <= MaxAnds /\ num_ands \in Nat /\ MaxAnds \in Nat
  BY StreamFacts
<1>1. /\ HoldsSlots(ghead, gcount, gslots, gppos, gpidx, gcpos, gcidx) /\ gstage = "run" /\ gppos = "hold"
      /\ UNCHANGED <<ghead, gcount, gclosed, gppos, gpidx, gcpos, gcidx, gstage, sent>>
      /\ gready' = TRUE /\ Boundary(published) /\ Ring(garbled, ghead, gcount, gslots, published)
  BY DEF StreamInv, PipesInv, FillInv, GarblerReset, GarbleAnd, GPipe!Write
<1>2. gpidx = At(ghead, gcount) /\ gcount \in 0 .. (Depth - 1) /\ ghead \in 0 .. (Depth - 1)
  BY <1>1, StreamFacts, SMTT(20) DEF HoldsSlots
(* The new contents of cur, and the gates garbled.                         *)
<1>3. \E x \in Chunk :
        /\ gslots' = [gslots EXCEPT ![gpidx] = x]
        /\ garbled' - x.n = published /\ x.n <= garbled' /\ Filled(x, published, x.n)
        /\ \/ garbled' = garbled
           \/ garbled' = garbled + 1 /\ garbled < num_ands
  <2>1. CASE GarblerReset
    <3> DEFINE x == [gcur EXCEPT !.n = 0]
    <3>1. gslots' = [gslots EXCEPT ![gpidx] = x] /\ garbled' = garbled /\ ~gready
      BY <2>1 DEF GarblerReset, GPipe!Write
    <3>2. x \in Chunk /\ x.n = 0
      BY <1>0 DEF Chunk
    <3>3. published = garbled
      BY <1>0, <3>1 DEF published
    <3> HIDE DEF x
    <3>4. Filled(x, published, x.n)
      <4>1. \A k \in 1 .. 0 : FALSE
        OBVIOUS
      <4> QED
        BY <3>2, <4>1 DEF Filled
    <3>5. garbled' - x.n = published /\ x.n <= garbled'
      BY <1>0, <3>1, <3>2, <3>3
    <3> QED
      BY <3>1, <3>2, <3>4, <3>5
  <2>2. CASE GarbleAnd
    <3> DEFINE m == gcur.n + 1
               x == [gcur EXCEPT !.n = @ + 1, !.G[m] = <<"G", garbled + 1>>, !.b[m] = <<"b", garbled + 1>>]
    <3>1. /\ gslots' = [gslots EXCEPT ![gpidx] = x] /\ garbled' = garbled + 1 /\ gready
          /\ gcur.n < KBatch /\ garbled < num_ands
      BY <2>2 DEF GarbleAnd, GPipe!Write
    <3>2. /\ gcur.n \in Nat /\ m \in 1 .. KBatch /\ published = garbled - gcur.n
          /\ Filled(gcur, published, gcur.n) /\ gcur.n <= garbled
          /\ gcur.G \in [1 .. KBatch -> Row] /\ gcur.b \in [1 .. KBatch -> Row]
      BY <1>0, <3>1 DEF Chunk, StreamInv, FillInv, published
    <3>3. <<"G", garbled + 1>> \in Row /\ <<"b", garbled + 1>> \in Row
      BY <1>0, <3>1 DEF Row
    <3>4. /\ x.n = m /\ x.G = [gcur.G EXCEPT ![m] = <<"G", garbled + 1>>]
          /\ x.b = [gcur.b EXCEPT ![m] = <<"b", garbled + 1>>]
      BY <1>0 DEF Chunk
    <3>40. x = [gcur EXCEPT !.n = x.n, !.G = x.G, !.b = x.b]
      BY <3>4
    <3> HIDE DEF x, m
    <3>5. x \in Chunk
      <4>1. x.n \in 0 .. KBatch /\ x.G \in [1 .. KBatch -> Row] /\ x.b \in [1 .. KBatch -> Row]
        BY <3>2, <3>3, <3>4
      <4> QED
        BY <1>0, <3>40, <4>1, ChunkFields
    <3>6. Filled(x, published, x.n)
      <4> SUFFICES ASSUME NEW k \in 1 .. m
                   PROVE  x.G[k] = <<"G", published + k>> /\ x.b[k] = <<"b", published + k>>
        BY <3>4 DEF Filled
      <4>1. m = gcur.n + 1 /\ k \in 1 .. KBatch /\ (k = m \/ k \in 1 .. gcur.n)
        BY <1>0, <3>2 DEF m
      <4>2. CASE k = m
        <5>1. published + k = garbled + 1
          BY <1>0, <3>2, <4>1, <4>2
        <5> QED
          BY <3>2, <3>4, <4>2, <5>1
      <4>3. CASE k \in 1 .. gcur.n
        <5>1. k # m
          BY <3>2, <4>1, <4>3
        <5> QED
          BY <3>2, <3>4, <4>1, <4>3, <5>1 DEF Filled
      <4> QED
        BY <4>1, <4>2, <4>3
    <3>7. garbled' - x.n = published /\ x.n <= garbled'
      BY <1>0, <3>1, <3>2, <3>4 DEF m
    <3> QED
      BY <3>1, <3>5, <3>6, <3>7
  <2> QED
    BY <2>1, <2>2
<1>4. PICK x \in Chunk :
        /\ gslots' = [gslots EXCEPT ![gpidx] = x]
        /\ garbled' - x.n = published /\ x.n <= garbled' /\ Filled(x, published, x.n)
        /\ \/ garbled' = garbled
           \/ garbled' = garbled + 1 /\ garbled < num_ands
  BY <1>3
<1>5. /\ Ring(garbled, ghead, gcount, gslots', published)
      /\ First(ghead, gcount, gslots', published) = First(ghead, gcount, gslots, published)
      /\ gcount > 0 => gslots'[ghead] = gslots[ghead]
  <2>1. IsSlots(gslots)
    BY <1>1 DEF HoldsSlots, IsSlots
  <2>2. gslots' = Put(gslots, At(ghead, gcount), x)
    BY <1>2, <1>4 DEF Put
  <2>3. Ring(garbled, ghead, gcount, gslots, published)
    BY <1>1
  <2> HIDE DEF published
  <2> QED
    BY <1>2, <2>1, <2>2, <2>3, RingWrite
<1>6. HoldsSlots(ghead', gcount', gslots', gppos', gpidx', gcpos', gcidx')
  <2>1. gslots' \in [0 .. (Depth - 1) -> Chunk]
    BY <1>1, <1>4 DEF HoldsSlots
  <2> QED
    BY <1>1, <2>1 DEF HoldsSlots
<1>7. gcur' = x /\ published' = published
  <2>1. gcur' = x
    BY <1>1, <1>4 DEF gcur, HoldsSlots
  <2> QED
    BY <1>1, <1>4, <2>1 DEF published
<1>8. sentTo' = sentTo
  BY <1>1, <1>5, <1>7 DEF sentTo
<1>9. FillInv'
  <2>1. Ring(garbled', ghead', gcount', gslots', published')
    BY <1>0, <1>1, <1>4, <1>5, <1>7, RingGrow
  <2> QED
    BY <1>1, <1>4, <1>7, <2>1 DEF FillInv
<1>10. SendInv'
  <2>1. gcpos = "hold" => schunk' = schunk
    BY <1>1, <1>5 DEF HoldsSlots, schunk
  <2> QED
    BY <1>1, <2>1 DEF StreamInv, SendInv
<1> QED
  BY <1>1, <1>4, <1>6, <1>8, <1>9, <1>10, GarblerData

(* producer_publish of a full chunk, or in end of what cur holds.          *)
LEMMA GarblerPublishSteps ==
    ASSUME StreamInv, GarblerPublish \/ GarblerEnd, UNCHANGED <<run, net, evars>>
    PROVE  StreamInv'
<1>0. /\ KBatch \in Nat \ {0} /\ gcur \in Chunk /\ published \in 0 .. garbled /\ garbled \in Nat
      /\ Depth \in Nat \ {0} /\ garbled <= num_ands /\ num_ands <= MaxAnds /\ num_ands \in Nat /\ MaxAnds \in Nat
  BY StreamFacts
<1>1. /\ HoldsSlots(ghead, gcount, gslots, gppos, gpidx, gcpos, gcidx) /\ gready /\ gppos = "hold"
      /\ UNCHANGED <<ghead, gslots, gpidx, gcpos, gcidx, garbled, sent>> /\ gready' = FALSE
      /\ Boundary(published) /\ Ring(garbled, ghead, gcount, gslots, published)
      /\ Filled(gcur, published, gcur.n) /\ published = garbled - gcur.n
      /\ gstage' \in {"run", "thrown", "closing"}
      /\ IF gcpos = "hold" THEN sent <= 2 * schunk.n ELSE sent = 0
      /\ \/ /\ gcount' = gcount + 1 /\ gppos' = "notify"
            /\ \/ gcur.n = KBatch
               \/ gcur.n > 0 /\ gstage' = "closing"
         \/ gcur.n = 0 /\ UNCHANGED gpipe /\ gstage' = "closing"
  BY <1>0 DEF StreamInv, PipesInv, FillInv, SendInv, GarblerPublish, GarblerEnd, GPipe!producer_publish,
              gpipe, published, Chunk
<1>2. gpidx = At(ghead, gcount) /\ gcount \in 0 .. (Depth - 1) /\ ghead \in 0 .. (Depth - 1) /\ gcur.n \in 0 .. KBatch
  BY <1>0, <1>1 DEF HoldsSlots, Chunk
<1>3. published' = garbled /\ schunk' = schunk /\ gcur' = gcur
  BY <1>0, <1>1 DEF published, schunk, gcur
<1>4. CASE gcount' = gcount + 1 /\ gppos' = "notify" /\ (gcur.n = KBatch \/ (gcur.n > 0 /\ gstage' = "closing"))
  <2>1. gcur.n \in 1 .. KBatch
    BY <1>0, <1>2, <1>4
  <2>2. Base(gcur) = published
    <3>1. gcur.G[1] = <<"G", published + 1>>
      BY <1>0, <1>1, <2>1 DEF Filled
    <3> QED
      BY <1>0, <3>1 DEF Base
  <2>3. gcur.n = Size(garbled, published)
    BY <1>0, <1>1, <2>1 DEF Size
  <2>4. Good(garbled, gcur)
    BY <1>1, <2>1, <2>2, <2>3 DEF Good
  <2>5. gcur = gslots[At(ghead, gcount)]
    BY <1>2 DEF gcur
  <2>6. garbled = published + gcur.n /\ published \in Int /\ garbled \in Int
    BY <1>0, <1>1, <2>1
  <2>7. /\ Ring(garbled, ghead, gcount + 1, gslots, garbled)
        /\ First(ghead, gcount + 1, gslots, garbled) = First(ghead, gcount, gslots, published)
    BY <1>1, <1>2, <2>2, <2>4, <2>5, <2>6, RingPush
  <2>8. HoldsSlots(ghead', gcount', gslots', gppos', gpidx', gcpos', gcidx')
    BY <1>0, <1>1, <1>2, <1>4 DEF HoldsSlots
  <2>9. sentTo' = sentTo
    BY <1>1, <1>3, <1>4, <2>7 DEF sentTo
  <2>10. gstage' \in {"run", "thrown"} => Boundary(garbled)
    <3>1. gcur.n = KBatch => garbled = published + KBatch
      BY <2>6
    <3> QED
      BY <1>0, <1>1, <1>4, <3>1, Boundaries
  <2>11. FillInv'
    BY <1>1, <1>3, <1>4, <2>7, <2>10 DEF FillInv
  <2>12. SendInv'
    BY <1>1, <1>3 DEF SendInv
  <2> QED
    BY <1>1, <2>8, <2>9, <2>11, <2>12, GarblerData
<1>5. CASE gcur.n = 0 /\ UNCHANGED gpipe /\ gstage' = "closing"
  <2>1. published' = published
    BY <1>0, <1>1, <1>3, <1>5
  <2> QED
    BY <1>1, <1>3, <1>5, <2>1, GarblerControl DEF gpipe
<1> QED
  BY <1>1, <1>4, <1>5

(* send_data of one row: the next row of the stream.                       *)
LEMMA SendRowStep ==
    ASSUME StreamInv, SendRow, UNCHANGED <<run, evars>>
    PROVE  StreamInv'
<1> DEFINE x == IF sent < schunk.n THEN schunk.G[sent + 1] ELSE schunk.b[sent - schunk.n + 1]
<1>0. /\ KBatch \in Nat \ {0} /\ schunk \in Chunk /\ published \in 0 .. garbled /\ garbled \in 0 .. MaxAnds
      /\ Depth \in Nat \ {0} /\ sentTo \in Nat /\ gotTo \in Nat /\ gotTo + Len(net) = sentTo /\ Len(net) \in Nat
  BY StreamFacts
<1>1. /\ HoldsSlots(ghead, gcount, gslots, gppos, gpidx, gcpos, gcidx) /\ gcpos = "hold"
      /\ UNCHANGED <<ghead, gcount, gclosed, gslots, gppos, gpidx, gcpos, gcidx, garbled, gready, gstage>>
      /\ net' = Append(net, x) /\ sent' = sent + 1 /\ sent < 2 * schunk.n /\ sent \in Nat /\ net \in Seq(Row)
      /\ Ring(garbled, ghead, gcount, gslots, published)
  BY DEF StreamInv, StreamTypeOK, PipesInv, FillInv, SendRow, gpipe
<1>2. UNCHANGED <<num_ands, recv_base, got, evaluated, loc, estage, ehead, ecount, eclosed, eslots, eppos, epidx,
                  ecpos, ecidx, rchunk, ecur, ChunkRows, gotTo, gcur, schunk, published>>
  BY <1>1 DEF run, evars, epipe, rchunk, ecur, ChunkRows, gotTo, gcur, schunk, published
<1>3. gcount > 0 /\ gcount \in Nat /\ schunk = gslots[ghead] /\ ghead \in 0 .. (Depth - 1)
  BY <1>0, <1>1 DEF HoldsSlots, schunk
<1> DEFINE base == Base(schunk)
<1>4. Good(garbled, schunk) /\ base + schunk.n <= published
  <2>1. 0 \in 0 .. (gcount - 1) /\ At(ghead, 0) = ghead
    BY <1>3, AtFacts
  <2> QED
    BY <1>1, <1>3, <2>1 DEF Ring
<1>5. /\ schunk.n \in 1 .. KBatch /\ Boundary(base) /\ base \in Nat /\ schunk.n = Size(garbled, base)
      /\ Filled(schunk, base, schunk.n)
  BY <1>4 DEF Good, Boundary
<1>6. sentTo = 2 * base + sent /\ sentTo' = sentTo + 1
  <2>1. First(ghead, gcount, gslots, published) = base
    BY <1>3 DEF First
  <2>2. sentTo = 2 * base + sent
    BY <2>1 DEF sentTo
  <2>3. sentTo' = 2 * base + (sent + 1)
    BY <1>1, <1>2, <2>1 DEF sentTo
  <2> QED
    BY <1>1, <1>5, <2>2, <2>3
<1> HIDE DEF base, x
<1>7. x = RowAt(base, Size(garbled, base), sent)
  <2>1. CASE sent < schunk.n
    <3>1. sent + 1 \in 1 .. schunk.n /\ base + (sent + 1) = base + sent + 1
      BY <1>1, <1>5, <2>1
    <3> QED
      BY <1>5, <2>1, <3>1 DEF x, Filled, RowAt
  <2>2. CASE ~(sent < schunk.n)
    <3>1. /\ sent - schunk.n + 1 \in 1 .. schunk.n
          /\ base + (sent - schunk.n + 1) = base + sent - schunk.n + 1
      BY <1>1, <1>5, <2>2
    <3> QED
      BY <1>5, <2>2, <3>1 DEF x, Filled, RowAt
  <2> QED
    BY <2>1, <2>2
<1>8. RowIs(garbled, sentTo, x)
  <2>1. base \in 0 .. garbled /\ sent \in 0 .. (2 * Size(garbled, base) - 1)
    BY <1>0, <1>1, <1>4, <1>5 DEF base
  <2> QED
    BY <1>0, <1>5, <1>6, <1>7, <2>1, RowOfChunk
<1>9. x \in Row
  <2>2. CASE sent < schunk.n
    <3>1. sent + 1 \in 1 .. KBatch
      BY <1>0, <1>1, <1>5, <2>2
    <3> QED
      BY <1>0, <2>2, <3>1 DEF x, Chunk
  <2>3. CASE ~(sent < schunk.n)
    <3>1. sent - schunk.n + 1 \in 1 .. KBatch
      BY <1>0, <1>1, <1>5, <2>3
    <3> QED
      BY <1>0, <2>3, <3>1 DEF x, Chunk
  <2> QED
    BY <2>2, <2>3
<1>10. /\ net' \in Seq(Row) /\ Len(net') = Len(net) + 1 /\ net'[Len(net) + 1] = x
       /\ \A i \in 1 .. Len(net) : net'[i] = net[i]
  BY <1>1, <1>9, AppendProperties
<1>11. StreamTypeOK'
  BY <1>1, <1>2, <1>10 DEF StreamInv, StreamTypeOK
<1>12. PipesInv'
  BY <1>1, <1>2 DEF StreamInv, PipesInv
<1>13. FillInv'
  BY <1>1, <1>2 DEF StreamInv, FillInv
<1>14. SendInv'
  BY <1>1, <1>2, <1>5 DEF SendInv
<1>15. NetInv'
  <2>1. Len(net') = sentTo' - gotTo
    BY <1>0, <1>6, <1>10
  <2>2. ASSUME NEW i \in 1 .. Len(net') PROVE RowIs(garbled, gotTo + i - 1, net'[i])
    <3>1. CASE i \in 1 .. Len(net)
      BY <1>10, <3>1 DEF StreamInv, NetInv
    <3>2. CASE i = Len(net) + 1
      <4>1. gotTo + i - 1 = sentTo
        BY <1>0, <3>2
      <4> QED
        BY <1>8, <1>10, <3>2, <4>1
    <3>3. i \in 1 .. Len(net) \/ i = Len(net) + 1
      BY <1>0, <1>10
    <3> QED
      BY <3>1, <3>2, <3>3
  <2> QED
    BY <1>1, <1>2, <2>1, <2>2 DEF NetInv
<1>16. RecvInv'
  BY <1>1, <1>2 DEF StreamInv, RecvInv
<1>17. EvalInv'
  BY <1>2 DEF StreamInv, EvalInv
<1> QED
  BY <1>11, <1>12, <1>13, <1>14, <1>15, <1>16, <1>17 DEF StreamInv

(* consumer_release of a chunk all of whose rows are sent.                 *)
LEMMA SenderReleaseStep ==
    ASSUME StreamInv, SenderRelease, UNCHANGED <<run, evars>>
    PROVE  StreamInv'
<1>0. /\ KBatch \in Nat \ {0} /\ published \in 0 .. garbled /\ garbled \in Nat /\ Depth \in Nat \ {0}
      /\ schunk \in Chunk
  BY StreamFacts
<1>1. /\ HoldsSlots(ghead, gcount, gslots, gppos, gpidx, gcpos, gcidx) /\ gcpos = "hold"
      /\ UNCHANGED <<net, gslots, gclosed, gppos, gpidx, gcidx, garbled, gready, gstage>> /\ sent = 2 * schunk.n
      /\ sent' = 0 /\ ghead' = At(ghead, 1) /\ gcount' = gcount - 1 /\ gcpos' = "notify"
      /\ Ring(garbled, ghead, gcount, gslots, published)
  BY DEF StreamInv, PipesInv, FillInv, SenderRelease, GPipe!consumer_release, At
<1>2. UNCHANGED <<gcur, published>>
  BY <1>1 DEF gcur, published
<1>3. gcount \in 1 .. Depth /\ ghead \in 0 .. (Depth - 1) /\ schunk = gslots[ghead]
  BY <1>0, <1>1 DEF HoldsSlots, schunk
<1>4. /\ Ring(garbled, At(ghead, 1), gcount - 1, gslots, published)
      /\ First(At(ghead, 1), gcount - 1, gslots, published) = Base(schunk) + schunk.n
      /\ First(ghead, gcount, gslots, published) = Base(schunk)
  BY <1>1, <1>3, RingPop
<1>5. HoldsSlots(ghead', gcount', gslots', gppos', gpidx', gcpos', gcidx')
  <2>1. ghead' \in 0 .. (Depth - 1) /\ gcount' \in 0 .. Depth
    <3>1. 1 \in 0 .. Depth
      BY <1>0
    <3> QED
      BY <1>0, <1>1, <1>3, <3>1, AtFacts
  <2>2. gppos = "hold" => gcount - 1 < Depth /\ gpidx = At(ghead', gcount - 1)
    <3>1. gcount - 1 \in 0 .. (Depth - 1) /\ (gcount - 1) + 1 = gcount /\ gcount - 1 < Depth
      BY <1>0, <1>3
    <3>2. At(At(ghead, 1), gcount - 1) = At(ghead, gcount)
      BY <1>3, <3>1, AtFacts
    <3> QED
      BY <1>1, <3>1, <3>2 DEF HoldsSlots
  <2> QED
    BY <1>1, <2>1, <2>2 DEF HoldsSlots
<1>6. sentTo' = sentTo
  <2>1. schunk.n \in Nat /\ Base(schunk) \in Int
    <3>1. First(ghead, gcount, gslots, published) \in 0 .. published
      BY StreamFacts
    <3> QED
      BY <1>0, <1>4, <3>1 DEF Chunk
  <2>2. sentTo = 2 * Base(schunk) + sent
    BY <1>4 DEF sentTo
  <2>3. sentTo' = 2 * (Base(schunk) + schunk.n) + 0
    BY <1>1, <1>2, <1>4 DEF sentTo
  <2> QED
    BY <1>1, <2>1, <2>2, <2>3
<1>7. FillInv'
  BY <1>1, <1>2, <1>4 DEF StreamInv, FillInv
<1>8. SendInv'
  BY <1>1 DEF SendInv
<1>9. StreamTypeOK'
  BY <1>1 DEF StreamInv, StreamTypeOK, run, evars
<1>10. UNCHANGED <<num_ands, recv_base, got, evaluated, loc, estage, ehead, ecount, eclosed, eslots, eppos, epidx,
                   ecpos, ecidx, rchunk, ecur, ChunkRows, gotTo>>
  BY <1>1 DEF run, evars, epipe, rchunk, ecur, ChunkRows, gotTo
<1>11. PipesInv'
  BY <1>5, <1>10 DEF StreamInv, PipesInv
<1>12. NetInv'
  BY <1>1, <1>6, <1>10 DEF StreamInv, NetInv
<1>13. RecvInv'
  BY <1>1, <1>10 DEF StreamInv, RecvInv
<1>14. EvalInv'
  BY <1>10 DEF StreamInv, EvalInv
<1> QED
  BY <1>7, <1>8, <1>9, <1>11, <1>12, <1>13, <1>14 DEF StreamInv
-------------------------------------------------------------------------------
(* The evaluator's two threads.  The oldest published chunk is complete.   *)
LEMMA OldestChunk ==
    ASSUME StreamInv
    PROVE  /\ ecount \in 0 .. Depth /\ ehead \in 0 .. (Depth - 1)
           /\ ecount > 0 => /\ Good(num_ands, eslots[ehead]) /\ Base(eslots[ehead]) \in Nat
                            /\ eslots[ehead].n \in 1 .. KBatch
           /\ ecpos = "hold" => ecount > 0 /\ ecur = eslots[ehead]
<1>0. Depth \in Nat \ {0}
  BY StreamAssumption
<1>1. HoldsSlots(ehead, ecount, eslots, eppos, epidx, ecpos, ecidx) /\ Ring(num_ands, ehead, ecount, eslots, recv_base)
  BY DEF StreamInv, PipesInv, RecvInv
<1>2. ecount \in 0 .. Depth /\ ehead \in 0 .. (Depth - 1)
  BY <1>1 DEF HoldsSlots
<1>3. ecount > 0 => Good(num_ands, eslots[ehead])
  <2>1. ecount > 0 => 0 \in 0 .. (ecount - 1)
    BY <1>0, <1>2
  <2>2. At(ehead, 0) = ehead
    BY <1>2, AtFacts
  <2> QED
    BY <1>1, <2>1, <2>2 DEF Ring
<1>4. ecpos = "hold" => ecount > 0 /\ ecur = eslots[ehead]
  BY <1>1 DEF HoldsSlots, ecur
<1> QED
  BY <1>2, <1>3, <1>4 DEF Good, Boundary

(* Steps of the receiver that move no rows.                                *)
LEMMA ReceiverControlSteps ==
    ASSUME StreamInv, ReceiverSlot \/ ReceiverClose \/ ReceiverNotify,
           UNCHANGED <<run, gvars, evaluated, loc, estage>>
    PROVE  StreamInv'
<1>1. /\ HoldsSlots(ehead, ecount, eslots, eppos, epidx, ecpos, ecidx)
      /\ evaluated \in Nat /\ loc \in Nat /\ got \in Nat
      /\ num_ands \in Nat /\ recv_base \in 0 .. num_ands
      /\ IF eppos = "hold" THEN recv_base < num_ands ELSE got = 0
      /\ eclosed => recv_base = num_ands
      /\ ecpos # "eof"
      /\ estage = "run" =>
           IF ecpos = "hold" THEN loc <= ecur.n /\ evaluated = Base(ecur) + loc
                             ELSE evaluated = First(ehead, ecount, eslots, recv_base)
  BY StreamFacts DEF StreamInv, PipesInv, StreamTypeOK, RecvInv, EvalInv
<1>2. /\ UNCHANGED <<run, net, gvars, ehead, ecount, eslots, recv_base, got, evaluated, loc, estage, ecidx>>
      /\ eppos # "hold" /\ got = 0 /\ ecpos' # "eof" /\ (ecpos' = "hold" <=> ecpos = "hold")
      /\ eclosed' => recv_base = num_ands
      /\ \/ eppos' = "hold" /\ recv_base < num_ands /\ epidx' = At(ehead, ecount) /\ ecount < Depth
         \/ eppos' # "hold" /\ epidx' = epidx
  <2>1. CASE ReceiverSlot
    BY <1>1, <2>1 DEF ReceiverSlot, EPipe!producer_slot, EPipe!Free, At
  <2>2. CASE ReceiverClose
    <3>1. recv_base = num_ands /\ ~(recv_base < num_ands)
      BY <1>1, <2>2 DEF ReceiverClose
    <3> QED
      BY <1>1, <2>2, <3>1 DEF ReceiverClose, EPipe!producer_close
  <2>3. CASE ReceiverNotify
    BY <1>1, <2>3 DEF ReceiverNotify, EPipe!NotifyFull
  <2> QED
    BY <2>1, <2>2, <2>3
<1>3. ecur' = ecur
  BY <1>2 DEF ecur
<1>4. HoldsSlots(ehead, ecount, eslots, eppos', epidx', ecpos', ecidx')
  <2>1. At(ehead, ecount) \in 0 .. (Depth - 1)
    BY <1>1, AtFacts DEF HoldsSlots
  <2> QED
    BY <1>1, <1>2, <2>1 DEF HoldsSlots
<1>5. ~(got > 0)
  BY <1>2
<1> QED
  BY <1>1, <1>2, <1>3, <1>4, <1>5, EvaluatorControl

(* Steps of the compute thread that release nothing: consumer_slot never   *)
(* finds the stream at its end while gates are left.                       *)
LEMMA EvaluatorControlSteps ==
    ASSUME StreamInv,
           \/ EvaluatorSlot /\ UNCHANGED <<run, net, gvars, recv_base, got>>
           \/ EvaluateAnd /\ UNCHANGED <<run, net, gvars, recv_base, got>>
           \/ EvaluatorNotify /\ UNCHANGED <<run, net, gvars, recv_base, got>>
           \/ EvaluatorEnd /\ ecpos # "hold" /\ UNCHANGED <<run, net, gvars, recv_base, got>>
           \/ EvaluatorJoin /\ UNCHANGED <<run, net, gvars, recv_base, got>>
           \/ EvaluatorThrow
           \/ /\ EPipe!SpuriousWakeup /\ UNCHANGED gpipe
              /\ UNCHANGED <<run, net, garbled, gready, gstage, sent, recv_base, got, evaluated, loc, estage>>
    PROVE  StreamInv'
<1>0. Depth \in Nat \ {0} /\ KBatch \in Nat \ {0}
  BY StreamAssumption
<1>1. /\ HoldsSlots(ehead, ecount, eslots, eppos, epidx, ecpos, ecidx)
      /\ evaluated \in Nat /\ loc \in Nat /\ got \in Nat
      /\ num_ands \in Nat /\ recv_base \in 0 .. num_ands
      /\ IF eppos = "hold" THEN recv_base < num_ands ELSE got = 0
      /\ eclosed => recv_base = num_ands
      /\ ecpos # "eof"
      /\ estage = "run" =>
           IF ecpos = "hold" THEN loc <= ecur.n /\ evaluated = Base(ecur) + loc
                             ELSE evaluated = First(ehead, ecount, eslots, recv_base)
  BY StreamFacts DEF StreamInv, PipesInv, StreamTypeOK, RecvInv, EvalInv
<1> DEFINE Rest == UNCHANGED <<run, net, gvars, ehead, ecount, eslots, recv_base, got, eclosed, epidx>>
<1>2. got > 0 => eppos = "hold"
  BY <1>1
<1>3. CASE EvaluatorSlot /\ UNCHANGED <<run, net, gvars, recv_base, got>>
  <2>1. /\ Rest /\ eppos' = eppos /\ ecpos \in {"out", "woken"} /\ estage = "run" /\ evaluated < num_ands
        /\ loc' = 0 /\ evaluated' = evaluated /\ estage' = estage
        /\ \/ ecpos' = "asleep" /\ ecidx' = ecidx
           \/ ecpos' = "eof" /\ ecount = 0 /\ eclosed
           \/ ecpos' = "hold" /\ ecidx' = ehead /\ ecount # 0
    BY <1>3, OldestChunk DEF EvaluatorSlot, EPipe!consumer_slot, EPipe!Full
  <2>2. evaluated = First(ehead, ecount, eslots, recv_base)
    BY <1>1, <2>1
  <2>3. ~(ecount = 0 /\ eclosed)
    BY <1>1, <2>1, <2>2 DEF First
  <2>4. HoldsSlots(ehead, ecount, eslots, eppos', epidx', ecpos', ecidx')
    BY <1>1, <2>1, <2>3 DEF HoldsSlots
  <2>5. ecpos' = "hold" => loc' <= ecur'.n /\ evaluated' = Base(ecur') + loc'
    <3>1. SUFFICES ASSUME ecpos' = "hold" PROVE loc' <= ecur'.n /\ evaluated' = Base(ecur') + loc'
      OBVIOUS
    <3>2. ecur' = eslots[ehead] /\ ecount > 0
      BY <1>0, <2>1, <3>1, OldestChunk DEF ecur
    <3>3. evaluated = Base(eslots[ehead]) /\ Base(eslots[ehead]) \in Nat /\ eslots[ehead].n \in Nat
      BY <1>0, <2>2, <3>2, OldestChunk DEF First
    <3> QED
      BY <2>1, <3>2, <3>3
  <2>6. evaluated' \in Nat /\ loc' \in Nat /\ ecpos' # "eof"
    BY <1>1, <2>1, <2>3
  <2> QED
    BY <1>1, <1>2, <2>1, <2>2, <2>4, <2>5, <2>6, EvaluatorControl
<1>4. CASE EvaluateAnd /\ UNCHANGED <<run, net, gvars, recv_base, got>>
  <2>1. /\ Rest /\ UNCHANGED <<eppos, ecpos, ecidx, estage>> /\ ecpos = "hold" /\ loc < ecur.n
        /\ evaluated' = evaluated + 1 /\ loc' = loc + 1 /\ estage = "run"
    BY <1>4 DEF EvaluateAnd, epipe
  <2>2. ecur' = ecur /\ Base(ecur) \in Nat /\ ecur.n \in Nat
    BY <1>0, <2>1, OldestChunk DEF ecur
  <2>3. loc' <= ecur'.n /\ evaluated' = Base(ecur') + loc' /\ evaluated' \in Nat /\ loc' \in Nat
    BY <1>1, <2>1, <2>2
  <2> QED
    BY <1>1, <1>2, <2>1, <2>3, EvaluatorControl
<1>5. CASE EvaluatorNotify /\ UNCHANGED <<run, net, gvars, recv_base, got>>
  <2>1. /\ Rest /\ UNCHANGED <<ecidx, estage, evaluated, loc>> /\ ecpos = "notify" /\ ecpos' = "out"
        /\ (eppos' = "hold" <=> eppos = "hold")
    BY <1>5 DEF EvaluatorNotify, EPipe!NotifyFree
  <2>2. HoldsSlots(ehead, ecount, eslots, eppos', epidx', ecpos', ecidx')
    BY <1>1, <2>1 DEF HoldsSlots
  <2> QED
    BY <1>1, <1>2, <2>1, <2>2, EvaluatorControl
<1>6. CASE \/ EvaluatorEnd /\ ecpos # "hold" /\ UNCHANGED <<run, net, gvars, recv_base, got>>
           \/ EvaluatorJoin /\ UNCHANGED <<run, net, gvars, recv_base, got>>
           \/ EvaluatorThrow
  <2>1. Rest /\ UNCHANGED <<eppos, ecpos, ecidx, evaluated, loc>> /\ estage' # "run"
    BY <1>6 DEF EvaluatorEnd, EvaluatorJoin, EvaluatorThrow, epipe
  <2> QED
    BY <1>1, <1>2, <2>1, EvaluatorControl
<1>7. CASE /\ EPipe!SpuriousWakeup /\ UNCHANGED gpipe
           /\ UNCHANGED <<run, net, garbled, gready, gstage, sent, recv_base, got, evaluated, loc, estage>>
  <2>1. /\ Rest /\ UNCHANGED <<ecidx, estage, evaluated, loc>> /\ ecpos' # "eof"
        /\ (eppos' = "hold" <=> eppos = "hold") /\ (ecpos' = "hold" <=> ecpos = "hold")
    BY <1>1, <1>7 DEF EPipe!SpuriousWakeup, gvars, gpipe
  <2>2. HoldsSlots(ehead, ecount, eslots, eppos', epidx', ecpos', ecidx')
    BY <1>1, <2>1 DEF HoldsSlots
  <2>3. ecur' = ecur
    BY <2>1 DEF ecur
  <2> QED
    BY <1>1, <1>2, <2>1, <2>2, <2>3, EvaluatorControl
<1> QED
  BY <1>3, <1>4, <1>5, <1>6, <1>7

(* consumer_release of the oldest chunk: and_gate at the end of the chunk, *)
(* or end with a chunk in hand.                                            *)
LEMMA EvaluatorReleaseSteps ==
    ASSUME StreamInv, EvaluatorRelease \/ (EvaluatorEnd /\ ecpos = "hold"),
           UNCHANGED <<run, net, gvars, recv_base, got>>
    PROVE  StreamInv'
<1>0. KBatch \in Nat \ {0} /\ Depth \in Nat \ {0} /\ ecur \in Chunk
  BY StreamFacts
<1>1. /\ HoldsSlots(ehead, ecount, eslots, eppos, epidx, ecpos, ecidx) /\ ecpos = "hold"
      /\ UNCHANGED <<eslots, eclosed, eppos, epidx, ecidx, evaluated, loc>>
      /\ ehead' = At(ehead, 1) /\ ecount' = ecount - 1 /\ ecpos' = "notify"
      /\ Ring(num_ands, ehead, ecount, eslots, recv_base)
      /\ estage' = "run" => estage = "run" /\ loc = ecur.n /\ evaluated = Base(ecur) + loc
  BY DEF StreamInv, PipesInv, RecvInv, EvalInv, EvaluatorRelease, EvaluatorEnd, EPipe!consumer_release, At
<1>2. ecount \in 1 .. Depth /\ ehead \in 0 .. (Depth - 1) /\ ecur = eslots[ehead]
  BY <1>0, <1>1, OldestChunk
<1>3. /\ Ring(num_ands, At(ehead, 1), ecount - 1, eslots, recv_base)
      /\ First(At(ehead, 1), ecount - 1, eslots, recv_base) = Base(ecur) + ecur.n
  BY <1>1, <1>2, RingPop
<1>4. HoldsSlots(ehead', ecount', eslots', eppos', epidx', ecpos', ecidx')
  <2>1. ehead' \in 0 .. (Depth - 1) /\ ecount' \in 0 .. Depth
    <3>1. 1 \in 0 .. Depth
      BY <1>0
    <3> QED
      BY <1>0, <1>1, <1>2, <3>1, AtFacts
  <2>2. eppos = "hold" => ecount - 1 < Depth /\ epidx = At(ehead', ecount - 1)
    <3>1. ecount - 1 \in 0 .. (Depth - 1) /\ (ecount - 1) + 1 = ecount /\ ecount - 1 < Depth
      BY <1>0, <1>2
    <3>2. At(At(ehead, 1), ecount - 1) = At(ehead, ecount)
      BY <1>2, <3>1, AtFacts
    <3> QED
      BY <1>1, <3>1, <3>2 DEF HoldsSlots
  <2> QED
    BY <1>1, <2>1, <2>2 DEF HoldsSlots
<1>5. UNCHANGED <<num_ands, garbled, gready, gstage, sent, ghead, gcount, gclosed, gslots, gppos, gpidx, gcpos, gcidx,
                  net, recv_base, got, gcur, schunk, rchunk, ChunkRows, published, sentTo, gotTo>>
  BY <1>1 DEF run, gvars, gpipe, gcur, schunk, rchunk, ChunkRows, published, sentTo, gotTo
<1>6. StreamTypeOK'
  BY <1>1, <1>5 DEF StreamInv, StreamTypeOK
<1>7. PipesInv'
  BY <1>4, <1>5 DEF StreamInv, PipesInv
<1>8. FillInv'
  BY <1>5 DEF StreamInv, FillInv
<1>9. SendInv'
  BY <1>5 DEF StreamInv, SendInv
<1>10. NetInv'
  BY <1>5 DEF StreamInv, NetInv
<1>11. RecvInv'
  BY <1>1, <1>3, <1>5 DEF StreamInv, RecvInv
<1>12. EvalInv'
  BY <1>1, <1>3, <1>5 DEF EvalInv
<1> QED
  BY <1>6, <1>7, <1>8, <1>9, <1>10, <1>11, <1>12 DEF StreamInv

(* recv_data of one row: it goes to the place it was sent from.            *)
LEMMA RecvRowStep ==
    ASSUME StreamInv, RecvRow, UNCHANGED <<run, gvars, evaluated, loc, estage>>
    PROVE  StreamInv'
<1> DEFINE c == ChunkRows
           y == Head(net)
           x == IF got < c THEN [rchunk EXCEPT !.n = c, !.G[got + 1] = y]
                           ELSE [rchunk EXCEPT !.b[got - c + 1] = y]
           Cell(ch, j) == IF j < c THEN ch.G[j + 1] ELSE ch.b[j - c + 1]
<1>0. /\ KBatch \in Nat \ {0} /\ Depth \in Nat \ {0} /\ rchunk \in Chunk /\ num_ands \in Nat
      /\ gotTo \in Nat /\ sentTo \in Nat /\ gotTo + Len(net) = sentTo /\ Len(net) \in Nat
  BY StreamFacts
<1>1. /\ HoldsSlots(ehead, ecount, eslots, eppos, epidx, ecpos, ecidx) /\ eppos = "hold"
      /\ UNCHANGED <<ehead, ecount, eclosed, eppos, epidx, ecpos, ecidx, recv_base>>
      /\ eslots' = [eslots EXCEPT ![epidx] = x] /\ net' = Tail(net) /\ got' = got + 1 /\ got < 2 * c
      /\ net # <<>> /\ net \in Seq(Row) /\ got \in Nat /\ recv_base \in 0 .. num_ands /\ recv_base < num_ands
      /\ got > 0 => rchunk.n = c
      /\ Ring(num_ands, ehead, ecount, eslots, recv_base)
  BY DEF StreamInv, StreamTypeOK, PipesInv, RecvInv, RecvRow, EPipe!Write
<1>2. c \in 1 .. KBatch
  BY <1>0, <1>1, SMTT(20) DEF ChunkRows
<1>3. epidx = At(ehead, ecount) /\ ecount \in 0 .. (Depth - 1) /\ ehead \in 0 .. (Depth - 1) /\ IsSlots(eslots)
  BY <1>0, <1>1, SMTT(20) DEF HoldsSlots, IsSlots
<1>4. UNCHANGED <<num_ands, garbled, gready, gstage, sent, ghead, gcount, gclosed, gslots, gppos, gpidx, gcpos, gcidx,
                  evaluated, loc, estage, gcur, schunk, ChunkRows, published, sentTo>>
  BY <1>1 DEF run, gvars, gpipe, gcur, schunk, ChunkRows, published, sentTo
<1>5. /\ y \in Row /\ y = net[1] /\ Len(net) > 0 /\ net' \in Seq(Row) /\ Len(net') = Len(net) - 1
      /\ \A i \in 1 .. Len(net') : net'[i] = net[i + 1]
  <2>1. Len(net) > 0
    BY <1>1, EmptySeq
  <2> QED
    BY <1>1, <2>1, HeadTailProperties
<1>6. RowIs(garbled, gotTo, y)
  <2>1. 1 \in 1 .. Len(net) /\ gotTo + 1 - 1 = gotTo
    BY <1>0, <1>5
  <2>2. RowIs(garbled, gotTo + 1 - 1, net[1])
    BY <2>1 DEF StreamInv, NetInv
  <2> QED
    BY <1>5, <2>1, <2>2
<1> HIDE DEF c, y
<1>7. rchunk.n \in 0 .. KBatch /\ rchunk.G \in [1 .. KBatch -> Row] /\ rchunk.b \in [1 .. KBatch -> Row]
  BY <1>0 DEF Chunk
(* The slot after the row is written.                                      *)
<1>8. x \in Chunk /\ x.n = c /\ \A j \in 0 .. got : Cell(x, j) = IF j = got THEN y ELSE Cell(rchunk, j)
  <2>1. CASE got < c
    <3>1. got + 1 \in 1 .. KBatch
      BY <1>0, <1>1, <1>2, <2>1
    <3>2. x = [rchunk EXCEPT !.n = c, !.G[got + 1] = y]
      BY <2>1
    <3>3. x.n = c /\ x.G = [rchunk.G EXCEPT ![got + 1] = y] /\ x.b = rchunk.b
      BY <1>0, <3>2 DEF Chunk
    <3>4. x = [rchunk EXCEPT !.n = x.n, !.G = x.G, !.b = x.b]
      BY <1>0, <3>2, <3>3 DEF Chunk
    <3> HIDE DEF x
    <3>5. x.n \in 0 .. KBatch /\ x.G \in [1 .. KBatch -> Row] /\ x.b \in [1 .. KBatch -> Row]
      BY <1>2, <1>5, <1>7, <3>1, <3>3
    <3>6. x \in Chunk
      BY <1>0, <3>4, <3>5, ChunkFields
    <3>7. ASSUME NEW j \in 0 .. got PROVE Cell(x, j) = IF j = got THEN y ELSE Cell(rchunk, j)
      <4>1. j < c /\ j + 1 \in 1 .. KBatch /\ (j + 1 = got + 1 <=> j = got)
        BY <1>0, <1>1, <1>2, <2>1
      <4> QED
        BY <1>7, <3>1, <3>3, <4>1
    <3> QED
      BY <3>3, <3>6, <3>7
  <2>2. CASE ~(got < c)
    <3>1. got - c + 1 \in 1 .. KBatch /\ got > 0
      BY <1>0, <1>1, <1>2, <2>2, SMTT(20)
    <3>2. x = [rchunk EXCEPT !.b[got - c + 1] = y]
      BY <2>2
    <3>3. x.n = rchunk.n /\ x.G = rchunk.G /\ x.b = [rchunk.b EXCEPT ![got - c + 1] = y]
      BY <1>0, <3>2 DEF Chunk
    <3>4. x = [rchunk EXCEPT !.n = x.n, !.G = x.G, !.b = x.b]
      BY <1>0, <3>2, <3>3 DEF Chunk
    <3> HIDE DEF x
    <3>5. x.n \in 0 .. KBatch /\ x.G \in [1 .. KBatch -> Row] /\ x.b \in [1 .. KBatch -> Row]
      BY <1>2, <1>5, <1>7, <3>1, <3>3
    <3>6. x \in Chunk
      BY <1>0, <3>4, <3>5, ChunkFields
    <3>7. ASSUME NEW j \in 0 .. got PROVE Cell(x, j) = IF j = got THEN y ELSE Cell(rchunk, j)
      <4>1. CASE j < c
        <5>1. j # got
          BY <1>1, <1>2, <2>2, <4>1
        <5> QED
          BY <3>3, <4>1, <5>1
      <4>2. CASE ~(j < c)
        <5>1. j - c + 1 \in 1 .. KBatch /\ (j - c + 1 = got - c + 1 <=> j = got)
          BY <1>0, <1>1, <1>2, <2>2, <4>2
        <5> QED
          BY <1>7, <3>1, <3>3, <4>2, <5>1
      <4> QED
        BY <4>1, <4>2
    <3> QED
      BY <1>1, <3>1, <3>3, <3>6, <3>7 DEF c
  <2> QED
    BY <2>1, <2>2
<1> HIDE DEF x
<1>9. /\ Ring(num_ands, ehead, ecount, eslots', recv_base)
      /\ First(ehead, ecount, eslots', recv_base) = First(ehead, ecount, eslots, recv_base)
      /\ ecount > 0 => eslots'[ehead] = eslots[ehead]
  <2>1. eslots' = Put(eslots, At(ehead, ecount), x)
    BY <1>1, <1>3 DEF Put
  <2>2. Ring(num_ands, ehead, ecount, eslots, recv_base)
    BY <1>1
  <2> QED
    BY <1>3, <2>1, <2>2, RingWrite
<1>10. rchunk' = x
  BY <1>1 DEF rchunk, HoldsSlots
<1>11. gotTo' = gotTo + 1
  <2>1. gotTo' = 2 * recv_base + (got + 1) /\ gotTo = 2 * recv_base + got
    BY <1>1 DEF gotTo
  <2> QED
    BY <1>1, <2>1
<1>12. StreamTypeOK'
  BY <1>1, <1>4, <1>5 DEF StreamInv, StreamTypeOK
<1>13. PipesInv'
  <2>1. eslots' \in [0 .. (Depth - 1) -> Chunk]
    BY <1>1, <1>8 DEF HoldsSlots
  <2>2. HoldsSlots(ehead', ecount', eslots', eppos', epidx', ecpos', ecidx')
    BY <1>1, <2>1 DEF HoldsSlots
  <2> QED
    BY <1>4, <2>2 DEF StreamInv, PipesInv
<1>14. FillInv'
  BY <1>4 DEF StreamInv, FillInv
<1>15. SendInv'
  BY <1>4 DEF StreamInv, SendInv
<1>16. NetInv'
  <2>1. Len(net') = sentTo - gotTo'
    BY <1>0, <1>5, <1>11
  <2>2. ASSUME NEW i \in 1 .. Len(net') PROVE RowIs(garbled, gotTo' + i - 1, net'[i])
    <3>1. i + 1 \in 1 .. Len(net) /\ gotTo' + i - 1 = gotTo + (i + 1) - 1
      BY <1>0, <1>5, <1>11
    <3>2. RowIs(garbled, gotTo + (i + 1) - 1, net[i + 1])
      BY <3>1 DEF StreamInv, NetInv
    <3> QED
      BY <1>5, <3>1, <3>2
  <2> QED
    BY <1>4, <2>1, <2>2 DEF NetInv
<1>17. RecvInv'
  <2>1. ASSUME NEW j \in 0 .. got PROVE RowIs(garbled, 2 * recv_base + j, Cell(x, j))
    <3>1. CASE j = got
      BY <1>6, <1>8, <3>1 DEF gotTo
    <3>2. CASE j # got
      <4>1. j \in 0 .. (got - 1)
        BY <1>1, <3>2
      <4>2. RowIs(garbled, 2 * recv_base + j, Cell(rchunk, j))
        BY <4>1 DEF StreamInv, RecvInv, c
      <4> QED
        BY <1>8, <3>2, <4>2
    <3> QED
      BY <3>1, <3>2
  <2>2. got' - 1 = got /\ got' <= 2 * c /\ c' = c
    BY <1>1, <1>2, <1>4 DEF c
  <2>3. \A j \in 0 .. (got' - 1) :
           RowIs(garbled, 2 * recv_base + j, IF j < ChunkRows THEN x.G[j + 1] ELSE x.b[j - ChunkRows + 1])
    BY <2>1, <2>2 DEF c
  <2>4. /\ Boundary(recv_base) \/ recv_base = num_ands
        /\ eclosed => recv_base = num_ands
    BY DEF StreamInv, RecvInv
  <2>5. rchunk'.n = ChunkRows /\ got' <= 2 * ChunkRows
    BY <1>8, <1>10, <2>2 DEF c
  <2> QED
    BY <1>1, <1>4, <1>9, <1>10, <2>3, <2>4, <2>5 DEF RecvInv
<1>18. EvalInv'
  <2>1. ecpos = "hold" => ecur' = ecur
    BY <1>1, <1>9 DEF HoldsSlots, ecur
  <2> QED
    BY <1>1, <1>4, <1>9, <2>1 DEF StreamInv, EvalInv
<1> QED
  BY <1>12, <1>13, <1>14, <1>15, <1>16, <1>17, <1>18 DEF StreamInv

(* producer_publish by the receiver: what it rebuilt is the chunk the      *)
(* garbler cut there, because all of its rows had to be sent.              *)
LEMMA ReceiverPublishStep ==
    ASSUME StreamInv, ReceiverPublish, UNCHANGED <<run, gvars, evaluated, loc, estage>>
    PROVE  StreamInv'
<1> DEFINE c == ChunkRows
<1>0. /\ KBatch \in Nat \ {0} /\ Depth \in Nat \ {0} /\ rchunk \in Chunk /\ num_ands \in Nat /\ MaxAnds \in Nat
      /\ garbled \in Nat /\ garbled <= num_ands /\ num_ands <= MaxAnds /\ published \in 0 .. garbled
      /\ gotTo \in Nat /\ sentTo \in Nat /\ sentTo <= 2 * published /\ gotTo + Len(net) = sentTo /\ Len(net) \in Nat
  BY StreamFacts
<1>1. /\ HoldsSlots(ehead, ecount, eslots, eppos, epidx, ecpos, ecidx) /\ eppos = "hold" /\ eppos' = "notify"
      /\ UNCHANGED <<ehead, eclosed, eslots, epidx, ecpos, ecidx, net>> /\ ecount' = ecount + 1
      /\ got = 2 * c /\ got' = 0 /\ recv_base' = recv_base + c
      /\ got \in Nat /\ recv_base \in 0 .. num_ands /\ recv_base < num_ands
      /\ got > 0 => rchunk.n = c
      /\ Boundary(recv_base) \/ recv_base = num_ands
      /\ eclosed => recv_base = num_ands
      /\ Ring(num_ands, ehead, ecount, eslots, recv_base)
  BY DEF StreamInv, StreamTypeOK, PipesInv, RecvInv, ReceiverPublish, EPipe!producer_publish
<1>2. c \in 1 .. KBatch /\ c <= num_ands - recv_base /\ c = Size(num_ands, recv_base)
  BY <1>0, <1>1 DEF ChunkRows, Size
<1>3. epidx = At(ehead, ecount) /\ ecount \in 0 .. (Depth - 1) /\ ehead \in 0 .. (Depth - 1)
  BY <1>0, <1>1 DEF HoldsSlots
<1>4. UNCHANGED <<num_ands, garbled, gready, gstage, sent, ghead, gcount, gclosed, gslots, gppos, gpidx, gcpos, gcidx,
                  evaluated, loc, estage, gcur, schunk, published, sentTo, ecur>>
  BY <1>1 DEF run, gvars, gpipe, gcur, schunk, published, sentTo, ecur
<1>5. gotTo = 2 * (recv_base + c) /\ gotTo' = gotTo /\ Boundary(recv_base) /\ ~eclosed
  <2>1. gotTo = 2 * recv_base + 2 * c /\ gotTo' = 2 * (recv_base + c) + 0
    BY <1>1 DEF gotTo
  <2> QED
    BY <1>1, <1>2, <2>1
<1>6. Size(garbled, recv_base) = c
  <2>1. recv_base + c <= garbled
    <3> HIDE DEF c
    <3>1. recv_base \in Nat /\ c \in Nat
      BY <1>0, <1>1, <1>2
    <3>2. gotTo <= sentTo
      BY <1>0
    <3>3. gotTo = 2 * (recv_base + c)
      BY <1>5
    <3> QED
      BY <1>0, <3>1, <3>2, <3>3
  <2> QED
    BY <1>0, <1>1, <1>2, <2>1 DEF Size, ChunkRows
<1>7. ASSUME NEW j \in 0 .. (2 * c - 1)
      PROVE  (IF j < c THEN rchunk.G[j + 1] ELSE rchunk.b[j - c + 1]) = RowAt(recv_base, c, j)
  <2>1. RowIs(garbled, 2 * recv_base + j, IF j < c THEN rchunk.G[j + 1] ELSE rchunk.b[j - c + 1])
    BY <1>1 DEF StreamInv, RecvInv
  <2>2. recv_base \in 0 .. MaxAnds
    BY <1>0, <1>1
  <2> HIDE DEF c
  <2> QED
    BY <1>5, <1>6, <2>1, <2>2 DEF RowIs
<1> HIDE DEF c
<1>8. Filled(rchunk, recv_base, c)
  <2> SUFFICES ASSUME NEW k \in 1 .. c
               PROVE  rchunk.G[k] = <<"G", recv_base + k>> /\ rchunk.b[k] = <<"b", recv_base + k>>
    BY DEF Filled
  <2>1. /\ k - 1 \in 0 .. (2 * c - 1) /\ k - 1 < c /\ (k - 1) + 1 = k /\ recv_base + (k - 1) + 1 = recv_base + k
        /\ c + k - 1 \in 0 .. (2 * c - 1) /\ ~(c + k - 1 < c) /\ (c + k - 1) - c + 1 = k
        /\ recv_base + (c + k - 1) - c + 1 = recv_base + k
    BY <1>1, <1>2
  <2>2. rchunk.G[k] = <<"G", recv_base + k>>
    BY <1>7, <2>1 DEF RowAt
  <2>3. rchunk.b[k] = <<"b", recv_base + k>>
    BY <1>7, <2>1 DEF RowAt
  <2> QED
    BY <2>2, <2>3
<1>9. rchunk.n = c
  BY <1>1, <1>2
<1>10. Base(rchunk) = recv_base
  <2>1. rchunk.G[1] = <<"G", recv_base + 1>>
    BY <1>2, <1>8 DEF Filled
  <2> QED
    BY <1>1, <2>1 DEF Base
<1>11. Good(num_ands, rchunk)
  BY <1>2, <1>5, <1>8, <1>9, <1>10 DEF Good
<1>12. /\ Ring(num_ands, ehead, ecount + 1, eslots, recv_base + c)
       /\ First(ehead, ecount + 1, eslots, recv_base + c) = First(ehead, ecount, eslots, recv_base)
  <2>1. rchunk = eslots[At(ehead, ecount)]
    BY <1>3 DEF rchunk
  <2>2. recv_base \in Int /\ recv_base + c \in Int
    BY <1>1, <1>2
  <2> QED
    BY <1>1, <1>3, <1>9, <1>10, <1>11, <2>1, <2>2, RingPush
<1>13. StreamTypeOK'
  <2>1. recv_base + c \in 0 .. num_ands
    BY <1>0, <1>1, <1>2, SMTT(20)
  <2> QED
    BY <1>1, <1>4, <2>1 DEF StreamInv, StreamTypeOK
<1>14. PipesInv'
  <2>1. HoldsSlots(ehead', ecount', eslots', eppos', epidx', ecpos', ecidx')
    BY <1>0, <1>1, <1>3 DEF HoldsSlots
  <2> QED
    BY <1>4, <2>1 DEF StreamInv, PipesInv
<1>15. FillInv'
  BY <1>4 DEF StreamInv, FillInv
<1>16. SendInv'
  BY <1>4 DEF StreamInv, SendInv
<1>17. NetInv'
  BY <1>1, <1>4, <1>5 DEF StreamInv, NetInv
<1>18. RecvInv'
  <2>1. Boundary(recv_base + c) \/ recv_base + c = num_ands
    <3>1. c = KBatch \/ recv_base + c = num_ands
      BY <1>0, <1>1 DEF c, ChunkRows
    <3> QED
      BY <1>1, <1>5, <3>1, Boundaries
  <2>2. \A j \in 0 .. (0 - 1) : FALSE
    OBVIOUS
  <2> QED
    BY <1>1, <1>4, <1>5, <1>12, <2>1, <2>2 DEF RecvInv
<1>19. EvalInv'
  BY <1>1, <1>4, <1>12 DEF StreamInv, EvalInv
<1> QED
  BY <1>13, <1>14, <1>15, <1>16, <1>17, <1>18, <1>19 DEF StreamInv
-------------------------------------------------------------------------------
(* Nothing is garbled, sent or received when the passes begin.             *)
LEMMA InitStreamInv == Init => StreamInv
<1> SUFFICES ASSUME Init PROVE StreamInv
  OBVIOUS
<1>0. KBatch \in Nat \ {0} /\ Depth \in Nat \ {0} /\ MaxAnds \in Nat /\ 0 \in 0 .. (Depth - 1)
  BY StreamAssumption
<1>1. /\ num_ands \in 0 .. MaxAnds /\ num_ands \in Nat /\ net = <<>> /\ garbled = 0 /\ gready = FALSE /\ gstage = "run"
      /\ sent = 0 /\ recv_base = 0 /\ got = 0 /\ evaluated = 0 /\ loc = 0 /\ estage = "run"
      /\ ghead = 0 /\ gcount = 0 /\ gpidx = 0 /\ gcidx = 0 /\ gppos = "out" /\ gcpos = "out"
      /\ ehead = 0 /\ ecount = 0 /\ epidx = 0 /\ ecidx = 0 /\ eppos = "out" /\ ecpos = "out" /\ eclosed = FALSE
      /\ gslots = [i \in 0 .. (Depth - 1) |-> EmptyChunk] /\ eslots = [i \in 0 .. (Depth - 1) |-> EmptyChunk]
  BY <1>0 DEF Init, GPipe!PipeInit, EPipe!PipeInit, GPipe!SlotIndex, EPipe!SlotIndex
<1>2. EmptyChunk \in Chunk
  <2>1. <<"G", 0>> \in Row /\ <<"b", 0>> \in Row /\ 0 \in 0 .. KBatch
    BY <1>0 DEF Row
  <2> QED
    BY <2>1 DEF EmptyChunk, Chunk
<1>3. net \in Seq(Row) /\ Len(net) = 0
  BY <1>1, EmptySeq
<1>4. StreamTypeOK
  BY <1>0, <1>1, <1>3 DEF StreamTypeOK
<1>5. PipesInv
  BY <1>0, <1>1, <1>2 DEF PipesInv, HoldsSlots
<1>6. published = 0 /\ sentTo = 0 /\ gotTo = 0 /\ First(ehead, ecount, eslots, recv_base) = 0
  BY <1>1 DEF published, sentTo, gotTo, First
<1>7. Ring(garbled, ghead, gcount, gslots, published) /\ Ring(num_ands, ehead, ecount, eslots, recv_base)
  <2>1. (\A i \in 0 .. (0 - 1) : FALSE) /\ (\A i \in 0 .. (0 - 2) : FALSE) /\ ~(0 > 0)
    OBVIOUS
  <2> QED
    BY <1>1, <2>1 DEF Ring
<1>8. FillInv
  BY <1>1, <1>6, <1>7, Boundaries DEF FillInv
<1>9. SendInv
  BY <1>1 DEF SendInv
<1>10. NetInv
  <2>1. \A i \in 1 .. Len(net) : FALSE
    BY <1>3
  <2> QED
    BY <1>3, <1>6, <2>1 DEF NetInv
<1>11. RecvInv
  <2>1. (\A j \in 0 .. (0 - 1) : FALSE) /\ ~(0 > 0)
    OBVIOUS
  <2> QED
    BY <1>1, <1>7, <2>1, Boundaries DEF RecvInv
<1>12. EvalInv
  BY <1>1, <1>6 DEF EvalInv
<1> QED
  BY <1>4, <1>5, <1>8, <1>9, <1>10, <1>11, <1>12 DEF StreamInv

(* A step that changes nothing.                                            *)
LEMMA StreamStutter ==
    ASSUME StreamInv, UNCHANGED vars
    PROVE  StreamInv'
<1>1. UNCHANGED <<num_ands, net, garbled, gready, gstage, sent, ghead, gcount, gclosed, gslots, gppos, gpidx,
                  gcpos, gcidx, recv_base, got, evaluated, loc, estage, ehead, ecount, eclosed, eslots, eppos,
                  epidx, ecpos, ecidx, gcur, schunk, rchunk, ecur, ChunkRows, published, sentTo, gotTo>>
  BY DEF vars, run, gvars, gpipe, evars, epipe, gcur, schunk, rchunk, ecur, ChunkRows, published, sentTo, gotTo
<1>2. StreamTypeOK' /\ PipesInv'
  BY <1>1 DEF StreamInv, StreamTypeOK, PipesInv
<1>3. FillInv' /\ SendInv' /\ NetInv'
  BY <1>1 DEF StreamInv, FillInv, SendInv, NetInv
<1>4. RecvInv' /\ EvalInv'
  BY <1>1 DEF StreamInv, RecvInv, EvalInv
<1> QED
  BY <1>2, <1>3, <1>4 DEF StreamInv

(* Every step of the four threads, a throw and a wakeup preserve it.       *)
LEMMA StepStreamInv ==
    ASSUME StreamInv, [Next]_vars
    PROVE  StreamInv'
<1>1. CASE Garbler
  BY <1>1, GarblerControlSteps, GarblerFillSteps, GarblerPublishSteps DEF Garbler
<1>2. CASE Sender
  BY <1>2, GarblerControlSteps, SendRowStep, SenderReleaseStep DEF Sender
<1>3. CASE Receiver
  BY <1>3, ReceiverControlSteps, RecvRowStep, ReceiverPublishStep DEF Receiver
<1>4. CASE Evaluator
  BY <1>4, EvaluatorControlSteps, EvaluatorReleaseSteps DEF Evaluator
<1>5. CASE GarblerThrow
  BY <1>5, GarblerControlSteps
<1>6. CASE EvaluatorThrow
  BY <1>6, EvaluatorControlSteps
<1>7. CASE Wakeups
  BY <1>7, GarblerControlSteps, EvaluatorControlSteps DEF Wakeups
<1>8. CASE Ended \/ UNCHANGED vars
  BY <1>8, StreamStutter DEF Ended
<1> QED
  BY <1>1, <1>2, <1>3, <1>4, <1>5, <1>6, <1>7, <1>8 DEF Next

(* The inductive invariant holds throughout.                               *)
LEMMA StreamInductive == Spec => []StreamInv
<1>1. Init => StreamInv
  BY InitStreamInv
<1>2. StreamInv /\ [Next]_vars => StreamInv'
  BY StepStreamInv
<1> QED
  BY <1>1, <1>2, PTL DEF Spec

(* The evaluator uses for AND gate k the rows that were garbled for gate   *)
(* k, whatever the chunk size, the depth of the two rings, the capacity of *)
(* the connection and the schedule of the four threads, also when a source *)
(* throws (pass_ctx.h, AG2PCEvaluatePass::and_gate).                       *)
THEOREM StreamRowsAligned == Spec => []RowsAligned
<1>1. StreamInv => RowsAligned
  <2> SUFFICES ASSUME StreamInv, estage = "run", ecpos = "hold", loc < ecur.n
               PROVE  /\ ecur.G[loc + 1] = <<"G", evaluated + 1>>
                      /\ ecur.b[loc + 1] = <<"b", evaluated + 1>>
    BY DEF RowsAligned
  <2>1. Good(num_ands, ecur) /\ Base(ecur) \in Nat /\ ecur.n \in 1 .. KBatch /\ KBatch \in Nat
    BY OldestChunk, StreamFacts
  <2>2. loc \in Nat /\ evaluated = Base(ecur) + loc
    BY DEF StreamInv, StreamTypeOK, EvalInv
  <2>3. loc + 1 \in 1 .. ecur.n /\ Base(ecur) + (loc + 1) = evaluated + 1
    BY <2>1, <2>2
  <2> QED
    BY <2>1, <2>3 DEF Good, Filled
<1> QED
  BY <1>1, StreamInductive, PTL

(* consumer_slot never hands the evaluator a null chunk: the receiver      *)
(* closes its pipe only after a chunk for every AND gate was published     *)
(* (pass_ctx.h, AG2PCEvaluatePass::and_gate dereferences it unchecked).    *)
THEOREM StreamNoNullChunk == Spec => []NoNullChunk
<1>1. StreamInv => NoNullChunk
  BY DEF StreamInv, EvalInv, NoNullChunk
<1> QED
  BY <1>1, StreamInductive, PTL
===============================================================================
