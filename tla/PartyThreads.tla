----------------------------- MODULE PartyThreads -----------------------------
(***************************************************************************)
(* Who waits for whom: the main thread and the thread pool of each party,  *)
(* the two sockets between the parties, and every blocking operation of a  *)
(* session in the order the code makes them (triple_pool.h, protocol.h,    *)
(* engine.h, helper.h feq_check).  Contents are left to TriplePool and     *)
(* HalfGates: a message is the name of the place it was sent from.         *)
(*                                                                         *)
(* A session is a list of steps.  In a step the main thread either makes   *)
(* some operations itself or enqueues jobs and joins them (joinNclean).    *)
(* NetIO (external) buffers what is sent until flush, or until its owner   *)
(* reads from the same socket, as feq_check relies on.  The COT extension  *)
(* (external) is modelled from its use here: the MAC side talks first and  *)
(* extends by sending, the KEY side by receiving.                          *)
(***************************************************************************)
EXTENDS Integers, Sequences, FiniteSets, SequencesExt

CONSTANTS
    Garbler, Evaluator,
    Workers,        \* threads in each party's pool
    BufCap, NetCap, \* messages NetIO buffers; messages a socket holds, per direction
    Batches,        \* messages of a leaky-AND vector
    Runs,           \* sets of engine runs: sequences of numbers of AND gates
    Recipients      \* of the reveal: a party or "Public"

ASSUME PartyThreadsAssumption ==
    /\ Garbler # Evaluator
    /\ {Workers, BufCap, NetCap, Batches} \subseteq Nat \ {0}
    /\ \A r \in Runs : r \in Seq(Nat)
    /\ Recipients \subseteq {Garbler, Evaluator, "Public"}

Party == {Garbler, Evaluator}
Peer(p) == IF p = Garbler THEN Evaluator ELSE Garbler
Threads == 0 .. Workers         \* 0 is the main thread

VARIABLES
    runs, recipient,    \* what the session does
    equal,              \* whether the parties' F_eq digests are equal
    step,               \* step[p]: steps begun
    queue,              \* queue[p]: jobs no worker has taken
    todo,               \* todo[p][t]: the operations thread t still has to make
    buf, net,           \* [socket, sender]: buffered at the sender; on the socket
    outcome             \* outcome[p]: "running", "done" or "abort"

config == <<runs, recipient, equal>>
links == <<buf, net>>
vars == <<config, step, queue, todo, links, outcome>>

Socket == {"io", "sib"}
send_io(p) == IF p = Garbler THEN "io" ELSE "sib"
recv_io(p) == send_io(Peer(p))
-------------------------------------------------------------------------------
(* Operations.                                                             *)
SendOp(sock, m) == [op |-> "send", sock |-> sock, msg |-> m]
RecvOp(sock, m) == [op |-> "recv", sock |-> sock, msg |-> m]
FlushOp(sock) == [op |-> "flush", sock |-> sock, msg |-> ""]
CompareOp == [op |-> "compare", sock |-> "io", msg |-> ""]

SendAll(sock, m, n) == [i \in 1 .. n |-> SendOp(sock, m)] \o <<FlushOp(sock)>>
RecvAll(sock, m, n) == [i \in 1 .. n |-> RecvOp(sock, m)]

Inline(ops) == << [main |-> ops, jobs |-> <<>>] >>
Pooled(jobs) == << [main |-> <<>>, jobs |-> jobs] >>

(* Bug: the two COT roles run one after the other.                         *)
SerializedAbit(abit1, abit2) == Pooled(<<abit1 \o abit2>>)

(* parallel_abit_ and gen_cot_shares: abit1 and abit2 in a job each.       *)
ParallelAbit(abit1, abit2) == Pooled(<<abit1, abit2>>)

(* begin: the base OTs, which go both ways on each socket.                 *)
CotBegin(p) ==
    ParallelAbit(<<RecvOp(recv_io(p), "base1"), SendOp(recv_io(p), "base2"),
                   RecvOp(recv_io(p), "base3"), FlushOp(recv_io(p))>>,
                 <<SendOp(send_io(p), "base1"), RecvOp(send_io(p), "base2"),
                   SendOp(send_io(p), "base3"), FlushOp(send_io(p))>>)

(* next_n and end: the MAC side sends, the KEY side receives.              *)
Cot(p, m) ==
    ParallelAbit(<<RecvOp(recv_io(p), m), FlushOp(recv_io(p))>>,
                 <<SendOp(send_io(p), m), FlushOp(send_io(p))>>)

(* Bug: both directions of the exchange use io.                            *)
ExchangeOnIo(p, m, n) == Pooled(<<SendAll("io", m, n), RecvAll("io", m, n)>>)

(* The duplex exchange: a send job and a receive job.                      *)
Exchange(p, m, n) == Pooled(<<SendAll(send_io(p), m, n), RecvAll(recv_io(p), m, n)>>)

(* Bug: the garbler compares the digests before it opens its own.          *)
FeqCheckCompareFirst(p) ==
    Inline(IF p = Garbler
           THEN <<SendOp("io", "com"), RecvOp("io", "D2"), CompareOp,
                  SendOp("io", "D1"), SendOp("io", "nonce"), FlushOp("io")>>
           ELSE <<RecvOp("io", "com"), SendOp("io", "D2"), RecvOp("io", "D1"),
                  RecvOp("io", "nonce"), CompareOp>>)

(* feq_check: commit, answer, open.  The sends before a receive are not    *)
(* flushed explicitly.                                                     *)
FeqCheck(p) ==
    Inline(IF p = Garbler
           THEN <<SendOp("io", "com"), RecvOp("io", "D2"), SendOp("io", "D1"),
                  SendOp("io", "nonce"), FlushOp("io"), CompareOp>>
           ELSE <<RecvOp("io", "com"), SendOp("io", "D2"), RecvOp("io", "D1"),
                  RecvOp("io", "nonce"), CompareOp>>)

(* One message on io from party q to the other.                            *)
OneWay(p, q, m) ==
    Inline(IF p = q THEN <<SendOp("io", m), FlushOp("io")>> ELSE <<RecvOp("io", m)>>)

(* Bug: the garbler sends the labels ahead of its openings.                *)
ProcessInputsLabelsFirst(p) ==
    Cot(p, "cot_inputs")
    \o (IF p = Garbler THEN OneWay(p, Garbler, "labels") \o Exchange(p, "shares", 2)
                       ELSE Exchange(p, "shares", 2) \o OneWay(p, Garbler, "labels"))

(* process_inputs: draw, exchange of openings, labels.                     *)
ProcessInputs(p) ==
    Cot(p, "cot_inputs") \o Exchange(p, "shares", 2) \o OneWay(p, Garbler, "labels")

(* leaky_and_halfgate: the ciphertexts, then the s-open.                   *)
LeakyAnd(p) == Exchange(p, "G", Batches) \o Exchange(p, "s", 1)

(* compute_inplace with one sacrifice layer.                               *)
ComputeInplace(p) ==
    Cot(p, "cot_r") \o LeakyAnd(p)
    \o Cot(p, "cot_sac") \o LeakyAnd(p)
    \o Exchange(p, "d", 1) \o FeqCheck(p) \o Exchange(p, "xy", 2)

(* Pass 2: the rows on the garbler's send_io, by its sender thread and the *)
(* evaluator's receiver thread.                                            *)
Rows(p, n) ==
    Pooled(<<IF n = 0 THEN <<>>
             ELSE IF p = Garbler THEN SendAll(send_io(p), "row", n)
                                 ELSE RecvAll(recv_io(p), "row", n)>>)

(* The c_gamma exchange.                                                   *)
Gamma(p) == OneWay(p, Evaluator, "Lambda_AND") \o OneWay(p, Garbler, "M1_t")

(* run_source of n ANDs; minted: COTs were drawn since the last check.     *)
Run(p, n, minted) ==
    (IF n > 0 THEN Cot(p, "cot_lambda") \o ComputeInplace(p) ELSE <<>>)
    \o Rows(p, n)
    \o (IF n > 0 THEN Gamma(p) ELSE <<>>)
    \o (IF minted \/ n > 0 THEN Cot(p, "end") ELSE <<>>)

(* decode: the opening, and for PUBLIC the evaluator's broadcast.          *)
Decode(p) ==
    OneWay(p, IF recipient = Garbler THEN Evaluator ELSE Garbler, "open")
    \o (IF recipient = "Public" THEN OneWay(p, Evaluator, "value") ELSE <<>>)

(* Construction, inputs, the runs, the reveal, destruction.                *)
Script(p) ==
    CotBegin(p) \o ProcessInputs(p)
    \o FlattenSeq([i \in DOMAIN runs |-> Run(p, runs[i], i = 1)])
    \o Decode(p) \o Cot(p, "end")
-------------------------------------------------------------------------------
Init ==
    /\ runs \in Runs /\ recipient \in Recipients /\ equal \in BOOLEAN
    /\ step = [p \in Party |-> 0] /\ queue = [p \in Party |-> <<>>]
    /\ todo = [p \in Party |-> [t \in Threads |-> <<>>]]
    /\ buf = [c \in Socket \X Party |-> <<>>] /\ net = [c \in Socket \X Party |-> <<>>]
    /\ outcome = [p \in Party |-> "running"]

(* The main thread joins the jobs of a step and begins the next one.       *)
Joined(p) == queue[p] = <<>> /\ \A t \in Threads : todo[p][t] = <<>>

Begin(p, next) ==
    /\ step' = [step EXCEPT ![p] = @ + 1]
    /\ queue' = [queue EXCEPT ![p] = next.jobs]
    /\ todo' = [todo EXCEPT ![p][0] = next.main]

Join(p) ==
    /\ outcome[p] = "running" /\ Joined(p)
    /\ IF step[p] < Len(Script(p))
       THEN Begin(p, Script(p)[step[p] + 1]) /\ UNCHANGED outcome
       ELSE outcome' = [outcome EXCEPT ![p] = "done"] /\ UNCHANGED <<step, queue, todo>>
    /\ UNCHANGED <<config, links>>

(* An idle worker takes the oldest job.                                    *)
Take(p, t) ==
    /\ t # 0 /\ todo[p][t] = <<>> /\ queue[p] # <<>>
    /\ todo' = [todo EXCEPT ![p][t] = Head(queue[p])]
    /\ queue' = [queue EXCEPT ![p] = Tail(@)]
    /\ UNCHANGED <<config, step, links, outcome>>

Doing(p, t, ops) == todo[p][t] # <<>> /\ Head(todo[p][t]).op \in ops /\ outcome[p] = "running"
Out(p, t) == <<Head(todo[p][t]).sock, p>>
In(p, t) == <<Head(todo[p][t]).sock, Peer(p)>>
Pop(p, t) == todo' = [todo EXCEPT ![p][t] = Tail(@)]

(* send_data into NetIO's buffer.                                          *)
Buffer(p, t) ==
    /\ Doing(p, t, {"send"}) /\ Len(buf[Out(p, t)]) < BufCap
    /\ buf' = [buf EXCEPT ![Out(p, t)] = Append(@, Head(todo[p][t]).msg)]
    /\ Pop(p, t)
    /\ UNCHANGED <<config, step, queue, net, outcome>>

(* The buffer goes to the socket when it is full, on flush, and before its *)
(* owner reads.                                                            *)
Push(p, t) ==
    /\ \/ Doing(p, t, {"send"}) /\ Len(buf[Out(p, t)]) = BufCap
       \/ Doing(p, t, {"flush", "recv"}) /\ buf[Out(p, t)] # <<>>
    /\ Len(net[Out(p, t)]) < NetCap
    /\ net' = [net EXCEPT ![Out(p, t)] = Append(@, Head(buf[Out(p, t)]))]
    /\ buf' = [buf EXCEPT ![Out(p, t)] = Tail(@)]
    /\ UNCHANGED <<config, step, queue, todo, outcome>>

Flushed(p, t) ==
    /\ Doing(p, t, {"flush"}) /\ buf[Out(p, t)] = <<>>
    /\ Pop(p, t)
    /\ UNCHANGED <<config, step, queue, links, outcome>>

Receive(p, t) ==
    /\ Doing(p, t, {"recv"}) /\ buf[Out(p, t)] = <<>> /\ net[In(p, t)] # <<>>
    /\ net' = [net EXCEPT ![In(p, t)] = Tail(@)]
    /\ Pop(p, t)
    /\ UNCHANGED <<config, step, queue, buf, outcome>>

(* The verdict of F_eq: error() ends the process.                          *)
Compare(p, t) ==
    /\ Doing(p, t, {"compare"})
    /\ outcome' = [outcome EXCEPT ![p] = IF equal THEN "running" ELSE "abort"]
    /\ Pop(p, t)
    /\ UNCHANGED <<config, step, queue, links>>

ThreadStep(p, t) ==
    \/ Take(p, t) \/ Buffer(p, t) \/ Push(p, t) \/ Flushed(p, t) \/ Receive(p, t)
    \/ Compare(p, t)

Next == \E p \in Party : Join(p) \/ \E t \in Threads : ThreadStep(p, t)

(* The scheduler runs every thread that is not blocked, and a socket       *)
(* delivers.                                                               *)
Fairness ==
    \A p \in Party : WF_vars(Join(p)) /\ \A t \in Threads : WF_vars(ThreadStep(p, t))

Spec == Init /\ [][Next]_vars /\ Fairness
-------------------------------------------------------------------------------
(* Every message is read by the operation it was sent for: the bytes carry *)
(* no type, so nothing else tells a label from a row or a share bit.       *)
MessagesMatched ==
    \A p \in Party, t \in Threads :
      Doing(p, t, {"recv"}) /\ net[In(p, t)] # <<>> =>
        Head(net[In(p, t)]) = Head(todo[p][t]).msg

(* No two threads of a party use the same socket at the same time, in      *)
(* either direction: NetIO has no lock around its buffer and its digest.   *)
SocketsNotShared ==
    \A p \in Party : \A t, u \in Threads :
      todo[p][t] # <<>> /\ todo[p][u] # <<>> /\ t # u =>
        {o.sock : o \in ToSet(todo[p][t])} \cap {o.sock : o \in ToSet(todo[p][u])} = {}

Checked == \E i \in DOMAIN runs : runs[i] > 0

(* A session whose checks pass ends at both parties, destructors included, *)
(* with two pool threads each and the smallest buffers.                    *)
SessionEnds == equal \/ ~Checked => <>(\A p \in Party : outcome[p] = "done")

(* When the F_eq digests differ both parties notice and stop: neither is   *)
(* left waiting for a message of the other.                                *)
FeqStopsBoth == ~equal /\ Checked => <>(\A p \in Party : outcome[p] = "abort")
===============================================================================
